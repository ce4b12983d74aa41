---------------------------- MODULE UserWalksProofs ----------------------------
(***************************************************************************)
(* Theorems about walks through the pages of UserQueries, for any accounts, *)
(* tables, questions, page sizes and numbers of changes: a walk in the order *)
(* of creation repeats an account only after one came into its view, and    *)
(* misses one only after one left.                                          *)
(***************************************************************************)
EXTENDS UserQueriesProofs

-----------------------------------------------------------------------------
(* Ranks.                                                                     *)

\* In a numbering of n rows from 0, as many rows are below a number as it says.
LEMMA RankCounts ==
  ASSUME NEW S, IsFiniteSet(S), NEW f \in [S -> 0..(Cardinality(S) - 1)],
         \A u, v \in S : u # v => f[u] # f[v],
         NEW u \in S
  PROVE  Cardinality({v \in S : f[v] < f[u]}) = f[u]
<1> DEFINE n == Cardinality(S)
           P == {v \in S : f[v] < f[u]}
           Q == 0..(f[u] - 1)
<1>1. n \in Nat /\ f[u] \in 0..(n - 1)
  BY FS_CardinalityType
<1>2. IsFiniteSet(0..(n - 1)) /\ Cardinality(0..(n - 1)) = n
  <2>1. IsFiniteSet(0..(n - 1)) /\ Cardinality(0..(n - 1)) = IF 0 < n THEN n - 0 ELSE 0
    BY <1>1, Below
  <2>2. QED BY <1>1, <2>1
<1>3. f \in Surjection(S, 0..(n - 1))
  <2>1. f \in Injection(S, 0..(n - 1))
    BY DEF Injection, IsInjective
  <2>2. QED BY <1>2, <2>1, FS_Injection
<1>4. IsFiniteSet(P)
  BY FS_Subset
<1>5. [v \in P |-> f[v]] \in Bijection(P, Q)
  <2> DEFINE g == [v \in P |-> f[v]]
  <2>1. g \in [P -> Q]
    <3>1. \A v \in P : f[v] \in 0..(n - 1) /\ f[v] < f[u]
      OBVIOUS
    <3>2. \A v \in P : f[v] \in Q
      BY <1>1, <3>1
    <3>3. QED BY <3>2
  <2>2. \A v, w \in P : g[v] = g[w] => v = w
    OBVIOUS
  <2>3. ASSUME NEW q \in Q PROVE \E v \in P : g[v] = q
    <3>1. q \in 0..(n - 1) /\ q < f[u]
      BY <1>1
    <3>2. PICK v \in S : f[v] = q
      BY <1>3, <3>1 DEF Surjection
    <3>3. QED BY <3>1, <3>2
  <2>4. QED BY <2>1, <2>2, <2>3 DEF Bijection, Injection, Surjection, IsInjective
<1>6. Cardinality(P) = Cardinality(Q)
  BY <1>4, <1>5, FS_Bijection DEF ExistsBijection
<1>7. Cardinality(Q) = f[u]
  <2>1. Cardinality(0..(f[u] - 1)) = IF 0 < f[u] THEN f[u] - 0 ELSE 0
    BY <1>1, Below
  <2>2. QED BY <1>1, <2>1
<1>8. QED BY <1>6, <1>7

\* Accounts with their own stamps are in one order, and a row's number is how many
\* rows are before it.
LEMMA RankIsAhead ==
  ASSUME NEW t \in [Ids -> Row \union {None}], Apart(t), NEW S \in SUBSET Present(t),
         NEW order, NEW f \in Rankings(t, S, "createdAt", order), NEW u \in S
  PROVE  f[u] = Cardinality({v \in S : Before(t, v, u, "createdAt", order)})
<1>1. /\ f \in [S -> 0..(Cardinality(S) - 1)]
      /\ \A v, w \in S : v # w => f[v] # f[w]
      /\ \A v, w \in S : Before(t, v, w, "createdAt", order) => f[v] < f[w]
  BY DEF Rankings
<1>2. IsFiniteSet(S) /\ Cardinality(S) \in Nat
  BY PresentFinite
<1>3. \A v \in S : t[v].born \in Nat /\ f[v] \in Int
  BY <1>1, <1>2 DEF Present, Row
<1>4. \A v, w \in S : v # w => \/ Before(t, v, w, "createdAt", order)
                               \/ Before(t, w, v, "createdAt", order)
  <2> SUFFICES ASSUME NEW v \in S, NEW w \in S, v # w
               PROVE  \/ Before(t, v, w, "createdAt", order)
                      \/ Before(t, w, v, "createdAt", order)
    OBVIOUS
  <2>1. t[v].born # t[w].born
    BY DEF Apart
  <2>2. t[v].born < t[w].born \/ t[w].born < t[v].born
    BY <1>3, <2>1
  <2>3. QED BY <2>2 DEF Before, Less
<1>5. ASSUME NEW v \in S PROVE Before(t, v, u, "createdAt", order) <=> f[v] < f[u]
  <2>1. CASE v = u
    BY <1>3, <2>1 DEF Before, Less
  <2>2. CASE v # u
    BY <1>1, <1>3, <1>4, <2>2
  <2>3. QED BY <2>1, <2>2
<1>6. {v \in S : Before(t, v, u, "createdAt", order)} = {v \in S : f[v] < f[u]}
  BY <1>5
<1>7. QED BY <1>1, <1>2, <1>6, RankCounts

LEMMA AheadCounts ==
  ASSUME NEW t, NEW a, NEW u, NEW order
  PROVE  LET A == {v \in View(t, a) : Before(t, v, u, "createdAt", order)}
         IN  /\ IsFiniteSet(A) /\ Cardinality(A) \in Nat
             /\ t \in [Ids -> Row \union {None}] /\ u \in View(t, a) =>
                  Cardinality(A) < Cardinality(View(t, a))
<1> DEFINE V == View(t, a)
           A == {v \in V : Before(t, v, u, "createdAt", order)}
<1>1. IsFiniteSet(V) /\ Cardinality(V) \in Nat
  BY ViewCounts
<1>2. IsFiniteSet(A) /\ Cardinality(A) \in Nat
  <2>1. A \in SUBSET V
    OBVIOUS
  <2> HIDE DEF A
  <2>2. QED BY <1>1, <2>1, FS_Subset, FS_CardinalityType
<1>3. ASSUME t \in [Ids -> Row \union {None}], u \in V
      PROVE  Cardinality(A) < Cardinality(V)
  <2>1. t[u].born \in Nat
    BY <1>3 DEF View, Present, Row
  <2>2. u \notin A
    BY <2>1 DEF Before, Less
  <2>3. A \in SUBSET (V \ {u})
    BY <2>2
  <2>4. IsFiniteSet(V \ {u}) /\ Cardinality(V \ {u}) = Cardinality(V) - 1
    BY <1>1, <1>3, FS_RemoveElement
  <2> HIDE DEF A, V
  <2>5. Cardinality(A) <= Cardinality(V \ {u})
    BY <2>3, <2>4, FS_Subset
  <2>6. QED BY <1>1, <1>2, <2>4, <2>5
<1>4. QED BY <1>2, <1>3

-----------------------------------------------------------------------------
(* The accounts change.                                                       *)

\* Who is there before and after a change keeps its stamp.
StampsKept ==
  \A v \in Present(table) \intersect Present(table') : table'[v].born = table[v].born

LEMMA ChangeKeepsStamps ==
  ASSUME IInv, BirthsApart, NEW u \in Ids, Create(u) \/ Update(u) \/ Remove(u)
  PROVE  StampsKept /\ BirthsApart'
<1> USE DEF TypeOK
<1>1. clock \in Nat /\ clock' = clock + 1 /\ Cardinality(Ids) \in Nat
  <2>1. clock \in Nat /\ clock' = clock + 1
    BY Changing DEF Changed, IInv
  <2>2. QED BY <2>1, QueriesAssumption, FS_CardinalityType
<1>2. table \in [Ids -> Row \union {None}] /\ table' \in [Ids -> Row \union {None}]
  BY Changing DEF Changed, IInv
<1>3. \A w \in Present(table) : table[w].born \in Nat /\ table[w].born <= clock + Cardinality(Ids)
  BY <1>2 DEF BirthsApart, Present, Row
<1>4. \A w \in Ids \ {u} : table'[w] = table[w]
  BY Changing DEF Changed, IInv
<1>5. CASE Create(u)
  <2>1. table[u] = None /\ table'[u].born = Now
    BY <1>2, <1>5 DEF Create, Change
  <2>2. Now = clock + 1 + Cardinality(Ids)
    BY DEF Now
  <2>3. Present(table') \ {u} = Present(table)
    BY <1>4, <2>1 DEF Present
  <2>4. StampsKept
    BY <1>4, <2>1, <2>3 DEF StampsKept, Present
  <2>5. BirthsApart'
    BY <1>1, <1>3, <1>4, <2>1, <2>2, <2>3 DEF BirthsApart, Apart, Present
  <2>6. QED BY <2>4, <2>5
<1>6. CASE Update(u)
  <2>1. table[u] # None /\ table'[u].born = table[u].born
    <3>1. PICK role \in Roles, active \in BOOLEAN :
            table' = [table EXCEPT ![u].role = role, ![u].active = active, ![u].touched = Now]
      BY <1>6 DEF Update, Change
    <3>2. table[u] # None /\ table[u] \in Row
      BY <1>2, <1>6 DEF Update
    <3>3. table'[u] = [table[u] EXCEPT !.role = role, !.active = active, !.touched = Now]
      BY <1>2, <3>1
    <3>4. QED BY <3>2, <3>3 DEF Row
  <2>2. Present(table') \subseteq Present(table)
    BY <1>4, <2>1 DEF Present
  <2>3. StampsKept
    BY <1>4, <2>1 DEF StampsKept, Present
  <2>4. BirthsApart'
    BY <1>1, <1>3, <2>2, <2>3 DEF BirthsApart, Apart, StampsKept
  <2>5. QED BY <2>3, <2>4
<1>7. CASE Remove(u)
  <2>1. table'[u] = None
    BY <1>2, <1>7 DEF Remove, Change
  <2>2. Present(table') \subseteq Present(table)
    BY <1>4, <2>1 DEF Present
  <2>3. StampsKept
    BY <1>4, <2>1 DEF StampsKept, Present
  <2>4. BirthsApart'
    BY <1>1, <1>3, <2>2, <2>3 DEF BirthsApart, Apart, StampsKept
  <2>5. QED BY <2>3, <2>4
<1>8. QED BY <1>5, <1>6, <1>7

\* A view that loses nobody moves nobody forward, and one that gains nobody moves
\* nobody back.
LEMMA AheadMoves ==
  ASSUME IInv, StampsKept, NEW a, NEW order, NEW u \in View(table, a) \intersect View(table', a)
  PROVE  LET A == {v \in View(table, a) : Before(table, v, u, "createdAt", order)}
             B == {v \in View(table', a) : Before(table', v, u, "createdAt", order)}
         IN  /\ View(table', a) \subseteq View(table, a) => Cardinality(B) <= Cardinality(A)
             /\ View(table, a) \subseteq View(table', a) => Cardinality(A) <= Cardinality(B)
<1> DEFINE A == {v \in View(table, a) : Before(table, v, u, "createdAt", order)}
           B == {v \in View(table', a) : Before(table', v, u, "createdAt", order)}
<1>1. IsFiniteSet(A) /\ IsFiniteSet(B)
  BY AheadCounts
<1>2. \A v \in View(table, a) \intersect View(table', a) : table'[v].born = table[v].born
  BY DEF StampsKept, View
<1>3. View(table', a) \subseteq View(table, a) => B \subseteq A
  BY <1>2 DEF Before, Less
<1>4. View(table, a) \subseteq View(table', a) => A \subseteq B
  BY <1>2 DEF Before, Less
<1> HIDE DEF A, B
<1>5. /\ B \subseteq A => Cardinality(B) <= Cardinality(A)
      /\ A \subseteq B => Cardinality(A) <= Cardinality(B)
  BY <1>1, FS_Subset
<1>6. QED BY <1>3, <1>4, <1>5 DEF A, B

LEMMA ChangeWalks ==
  ASSUME IInv, WalkInv, NEW u \in Ids, Create(u) \/ Update(u) \/ Remove(u), NEW r \in Readers
  PROVE  WalkFits(r)'
<1> USE DEF TypeOK
<1> DEFINE a == ask[r]
           V == View(table, a)
           W == View(table', a)
<1>1. StampsKept
  BY ChangeKeepsStamps DEF WalkInv
<1>2. /\ UNCHANGED <<ask, pc, page, rows, fig, first, seen>> /\ WalkFits(r)
  BY Changing DEF Changed, IInv, WalkInv
<1>3. a \in Asks => /\ ~entered'[r] => ~entered[r] /\ W \subseteq V
                    /\ ~left'[r] => ~left[r] /\ V \subseteq W
  <2>1. PICK t : Change(t)
    BY DEF Create, Update, Remove
  <2>2. /\ entered'[r] = (a # None /\ (entered[r] \/ W \ V # {}))
        /\ left'[r] = (a # None /\ (left[r] \/ V \ W # {}))
    BY <2>1 DEF Change
  <2>3. a \in Asks => a # None
    BY QueriesAssumption
  <2>4. QED BY <2>2, <2>3
<1> DEFINE C == Covered(r)
           A(v) == Cardinality(Ahead(r, v))
           B(v) == Cardinality(Ahead(r, v)')
<1>4. /\ Walking(r)' <=> Walking(r)
      /\ C' = C
  BY <1>2 DEF Walking, FromStart, Covered
<1>5. ASSUME NEW v \in V \intersect W
      PROVE  W \subseteq V => B(v) <= A(v)
  BY <1>1, <1>2, AheadMoves DEF Ahead
<1>6. ASSUME NEW v \in V \intersect W
      PROVE  V \subseteq W => A(v) <= B(v)
  BY <1>1, <1>2, AheadMoves DEF Ahead
<1>7. \A v : A(v) \in Nat /\ B(v) \in Nat
  BY <1>2, AheadCounts DEF Ahead
<1>8. ASSUME Walking(r) PROVE C \in Int /\ a \in Asks
  <2>1. pc[r] # "idle" /\ a \in Asks
    BY <1>2, <1>8 DEF WalkFits, Walking
  <2>2. page[r] \in Nat /\ Limit(a) \in Nat
    BY <2>1, AskedNumbers DEF IInv
  <2>3. QED BY <2>1, <2>2 DEF Covered
<1> HIDE DEF C, A, B
<1>9. ASSUME Walking(r), ShownCovered(r) PROVE ShownCovered(r)'
  <2> SUFFICES ASSUME ~entered'[r], NEW v \in Ids
               PROVE  /\ seen[r][v] <= 1
                      /\ seen[r][v] = 1 /\ v \in W => \/ Limit(a) = 0 /\ pc[r] # "rows"
                                                      \/ B(v) < C
    BY <1>2, <1>4 DEF ShownCovered, B, C
  <2>1. ~entered[r] /\ W \subseteq V
    BY <1>3, <1>8, <1>9
  <2>2. /\ seen[r][v] <= 1
        /\ seen[r][v] = 1 /\ v \in V => \/ Limit(a) = 0 /\ pc[r] # "rows"
                                        \/ A(v) < C
    BY <1>9, <2>1 DEF ShownCovered, A, C
  <2>3. v \in W => B(v) <= A(v)
    BY <1>5, <2>1
  <2>4. QED BY <1>7, <1>8, <1>9, <2>1, <2>2, <2>3
<1>10. ASSUME Walking(r), MissingAhead(r) PROVE MissingAhead(r)'
  <2> SUFFICES ASSUME ~left'[r], NEW v \in first[r]
               PROVE  /\ v \in W
                      /\ seen[r][v] = 0 =>
                           /\ Limit(a) = 0 => pc[r] = "rows"
                           /\ B(v) >= C
                           /\ pc[r] = "count" => Cardinality(rows[r]) \notin 1..(Limit(a) - 1)
                           /\ pc[r] = "answered" => fig[r].total > C
    BY <1>2, <1>4 DEF MissingAhead, B, C
  <2>1. ~left[r] /\ V \subseteq W
    BY <1>3, <1>8, <1>10
  <2>2. /\ v \in V
        /\ seen[r][v] = 0 =>
             /\ Limit(a) = 0 => pc[r] = "rows"
             /\ A(v) >= C
             /\ pc[r] = "count" => Cardinality(rows[r]) \notin 1..(Limit(a) - 1)
             /\ pc[r] = "answered" => fig[r].total > C
    BY <1>10, <2>1 DEF MissingAhead, A, C
  <2>3. A(v) <= B(v)
    BY <1>6, <2>1, <2>2
  <2>4. A(v) >= C => B(v) >= C
    BY <1>7, <1>8, <1>10, <2>3
  <2>5. QED BY <2>1, <2>2, <2>4
<1>11. QED BY <1>2, <1>4, <1>9, <1>10 DEF WalkFits

-----------------------------------------------------------------------------
(* The steps of readers.                                                      *)

\* A step of a reader concerns the walk of that reader only.
Still(s) ==
  /\ pc'[s] = pc[s] /\ ask'[s] = ask[s] /\ page'[s] = page[s] /\ rows'[s] = rows[s]
  /\ fig'[s] = fig[s] /\ first'[s] = first[s] /\ seen'[s] = seen[s]
  /\ entered'[s] = entered[s] /\ left'[s] = left[s]
WalksAlone(r) == UNCHANGED <<table, clock>> /\ \A s \in Readers \ {r} : Still(s)

LEMMA StillWalks ==
  ASSUME NEW s \in Readers, WalkFits(s), Still(s), table' = table
  PROVE  WalkFits(s)'
<1>1. Covered(s)' = Covered(s) /\ (Walking(s)' <=> Walking(s)) /\ \A u : Ahead(s, u)' = Ahead(s, u)
  BY DEF Still, Covered, Walking, FromStart, Ahead
<1>2. ShownCovered(s) => ShownCovered(s)'
  BY <1>1 DEF Still, ShownCovered
<1>3. MissingAhead(s) => MissingAhead(s)'
  BY <1>1 DEF Still, MissingAhead
<1>4. QED BY <1>1, <1>2, <1>3 DEF Still, WalkFits

LEMMA BeginWalks ==
  ASSUME IInv, WalkInv, NEW r \in Readers, Begin(r)
  PROVE  WalkFits(r)' /\ WalksAlone(r)
<1> USE DEF TypeOK
<1>1. PICK a \in Asks :
        /\ ask' = [ask EXCEPT ![r] = a]
        /\ pc' = [pc EXCEPT ![r] = FirstQuery(a.kind)]
        /\ page' = [page EXCEPT ![r] = IF a.kind = "walk" THEN Page(a) ELSE 0]
        /\ first' = [first EXCEPT ![r] = IF a.kind = "walk" THEN View(table, a) ELSE {}]
  BY DEF Begin
<1>2. /\ pc[r] = "idle" /\ UNCHANGED <<table, clock, rows, fig, seen, entered, left>>
      /\ \A u \in Ids : seen[r][u] = 0
  BY DEF Begin, caches, WalkInv, WalkFits
<1>3. WalksAlone(r)
  BY <1>1, <1>2 DEF WalksAlone, Still, IInv
<1>4. ask'[r] = a /\ pc'[r] = FirstQuery(a.kind) /\ Limit(a) \in Nat
  BY <1>1, AskedNumbers DEF IInv
<1>5. pc'[r] \notin {"idle", "error"}
  BY <1>4 DEF FirstQuery
<1>6. ASSUME Walking(r)' PROVE page'[r] >= 1 /\ ShownCovered(r)' /\ MissingAhead(r)'
  <2>1. a.kind = "walk" /\ Page(a) = 1
    BY <1>4, <1>6 DEF Walking, FromStart
  <2>2. pc'[r] = "rows" /\ page'[r] = 1 /\ first'[r] = View(table, a)
    BY <1>1, <1>4, <2>1 DEF FirstQuery, IInv
  <2>3. Covered(r)' = 0
    BY <1>4, <2>2 DEF Covered
  <2>4. \A u : Cardinality(Ahead(r, u)') \in Nat
    BY AheadCounts DEF Ahead
  <2>5. ShownCovered(r)'
    BY <1>2 DEF ShownCovered
  <2>6. MissingAhead(r)'
    <3>1. \A u : Cardinality(Ahead(r, u)') >= 0
      BY <2>4
    <3>2. QED BY <1>2, <1>4, <2>2, <2>3, <3>1 DEF MissingAhead
  <2>7. QED BY <2>2, <2>5, <2>6
<1>7. QED BY <1>3, <1>4, <1>5, <1>6 DEF WalkFits

\* Readers of the dashboard and of the statistics do not walk.
LEMMA OtherReaders ==
  ASSUME IInv, WalkInv, NEW r \in Readers,
         \/ BeginCached(r) \/ DashboardCount(r) \/ DashboardShown(r)
         \/ SyncCount(r) \/ SyncStored(r)
  PROVE  WalkFits(r)' /\ WalksAlone(r)
<1> USE DEF TypeOK
<1>1. /\ ask'[r] \in Asks /\ ask'[r].kind # "walk" /\ pc'[r] # "idle"
      /\ WalksAlone(r)
  <2>1. CASE BeginCached(r)
    BY <2>1 DEF BeginCached, caches, WalksAlone, Still, IInv
  <2>2. pc[r] = "counts" => ask[r] \in Asks /\ ask[r].kind \in {"dashboard", "sync"}
    BY DEF IInv, ReaderFits, StepOf
  <2>3. CASE DashboardCount(r)
    BY <2>2, <2>3 DEF DashboardCount, CountStep, history, caches, WalksAlone, Still, IInv
  <2>4. CASE DashboardShown(r)
    BY <2>2, <2>4 DEF DashboardShown, history, WalksAlone, Still, IInv
  <2>5. CASE SyncCount(r)
    BY <2>2, <2>5 DEF SyncCount, CountStep, history, caches, WalksAlone, Still, IInv
  <2>6. CASE SyncStored(r)
    BY <2>2, <2>6 DEF SyncStored, history, WalksAlone, Still, IInv
  <2>7. QED BY <2>1, <2>3, <2>4, <2>5, <2>6
<1>2. QED BY <1>1 DEF WalkFits, Walking

LEMMA FinishWalks ==
  ASSUME IInv, WalkInv, NEW r \in Readers, Finish(r)
  PROVE  WalkFits(r)' /\ WalksAlone(r)
<1>1. pc'[r] = "idle" /\ \A u \in Ids : seen'[r][u] = 0
  BY DEF Finish, IInv, TypeOK
<1>2. WalksAlone(r)
  BY DEF Finish, WalksAlone, Still, IInv, TypeOK
<1>3. QED BY <1>1, <1>2 DEF WalkFits, Walking

\* The rows of a page are those numbered from where the pages before it end.
LEMMA RowsQueryWalks ==
  ASSUME IInv, WalkInv, NEW r \in Readers, RowsQuery(r)
  PROVE  WalkFits(r)' /\ WalksAlone(r)
<1> USE DEF TypeOK
<1> DEFINE a == ask[r]
           V == View(table, a)
           L == Limit(a)
           skip == Skip(page[r], L)
           A(u) == Cardinality(Ahead(r, u))
<1>1. /\ pc[r] = "rows" /\ WalkFits(r) /\ a \in Asks
      /\ UNCHANGED <<table, clock, ask, page, fig, first, entered, left>>
      /\ \E s : pc' = [pc EXCEPT ![r] = s] /\ s \in {"error", "count"}
      /\ \A s \in Readers \ {r} : rows'[s] = rows[s] /\ seen'[s] = seen[s]
  BY DEF RowsQuery, history, caches, WalkInv, WalkFits, IInv
<1>2. WalksAlone(r) /\ pc'[r] \in {"error", "count"}
  BY <1>1 DEF WalksAlone, Still, IInv
<1>3. L \in Nat /\ page[r] \in Nat
  BY <1>1, AskedNumbers DEF IInv
<1>4. Walking(r)' => Walking(r)
  BY <1>1 DEF Walking, FromStart
<1>5. ASSUME Walking(r)
      PROVE  page[r] >= 1 /\ pc'[r] # "error" /\ ShownCovered(r)' /\ MissingAhead(r)'
  <2>1. /\ page[r] >= 1 /\ ShownCovered(r) /\ MissingAhead(r)
        /\ a.sort \notin SortKeys \ {"createdAt"}
    BY <1>1, <1>5 DEF WalkFits, Walking, FromStart
  <2>2. skip \in Nat /\ skip = Covered(r) /\ page[r] * L = skip + L
    <3>1. page[r] - 1 \in Nat /\ skip = (page[r] - 1) * L
      BY <1>3, <2>1 DEF Skip
    <3>2. skip \in Nat /\ page[r] * L = skip + L
      BY <1>3, <3>1
    <3>3. QED BY <1>1, <3>1, <3>2 DEF Covered
  <2>3. PICK f \in Rankings(table, V, "createdAt", Order(a)) :
          /\ rows' = [rows EXCEPT ![r] = Slice(f, skip, L)]
          /\ seen' = [seen EXCEPT ![r] =
               [u \in Ids |-> seen[r][u] + (IF u \in rows'[r] THEN 1 ELSE 0)]]
          /\ pc' = [pc EXCEPT ![r] = "count"]
    <3>1. Sort(a) = "createdAt"
      BY <2>1 DEF Sort
    <3>2. ~(skip < 0)
      BY <2>2
    <3>3. QED BY <3>1, <3>2 DEF RowsQuery
  <2>4. /\ pc'[r] = "count" /\ rows'[r] = Slice(f, skip, L)
        /\ \A u \in Ids : seen'[r][u] = seen[r][u] + (IF u \in rows'[r] THEN 1 ELSE 0)
    BY <2>3 DEF IInv
  <2>5. V \subseteq Ids /\ IsFiniteSet(V) /\ Cardinality(V) \in Nat /\ DOMAIN f = V
    BY ViewType, ViewCounts DEF Rankings
  <2>6. \A u \in V : f[u] = A(u)
    <3>1. V \in SUBSET Present(table) /\ Apart(table) /\ table \in [Ids -> Row \union {None}]
      BY DEF View, WalkInv, BirthsApart, IInv
    <3> HIDE DEF V, A
    <3>2. \A u \in V : f[u] = Cardinality({v \in V : Before(table, v, u, "createdAt", Order(a))})
      BY <3>1, RankIsAhead
    <3>3. QED BY <3>2 DEF A, V, Ahead
  <2>7. \A u : A(u) \in Nat
    BY AheadCounts DEF Ahead
  <2>8. Covered(r)' = skip + L /\ \A u : Ahead(r, u)' = Ahead(r, u)
    BY <1>1, <2>2, <2>4 DEF Covered, Ahead
  <2>9. \A u \in Ids : u \in rows'[r] <=>
          u \in V /\ A(u) >= skip /\ (L > 0 => A(u) < skip + L)
    BY <2>4, <2>5, <2>6 DEF Slice
  <2> HIDE DEF A
  <2>10. ShownCovered(r)'
    <3> SUFFICES ASSUME ~entered[r], NEW u \in Ids
                 PROVE  /\ seen'[r][u] <= 1
                        /\ seen'[r][u] = 1 /\ u \in V => L = 0 \/ A(u) < skip + L
      BY <1>1, <2>4, <2>8 DEF ShownCovered, A
    <3>1. /\ seen[r][u] <= 1 /\ seen[r][u] \in Nat
          /\ seen[r][u] = 1 /\ u \in V => A(u) < skip
      BY <1>1, <2>1, <2>2 DEF ShownCovered, A, IInv
    <3>2. QED BY <1>3, <2>2, <2>4, <2>7, <2>9, <3>1
  <2>11. MissingAhead(r)'
    <3> SUFFICES ASSUME ~left[r], NEW u \in first[r]
                 PROVE  /\ u \in V
                        /\ seen'[r][u] = 0 =>
                             /\ L # 0
                             /\ A(u) >= skip + L
                             /\ Cardinality(rows'[r]) \notin 1..(L - 1)
      BY <1>1, <2>4, <2>8 DEF MissingAhead, A
    <3>1. u \in V /\ u \in Ids /\ (seen[r][u] = 0 => A(u) >= skip)
      BY <1>1, <2>1, <2>2, <2>5 DEF MissingAhead, A
    <3>2. ASSUME seen'[r][u] = 0
          PROVE  L > 0 /\ A(u) >= skip + L
      <4>1. seen[r][u] = 0 /\ u \notin rows'[r]
        BY <2>4, <3>1, <3>2 DEF IInv
      <4>2. QED BY <1>3, <2>2, <2>7, <2>9, <3>1, <4>1
    <3>3. ASSUME seen'[r][u] = 0, Cardinality(rows'[r]) \in 1..(L - 1) PROVE FALSE
      <4>1. skip + Cardinality(Slice(f, skip, L)) = Cardinality(V)
        <5>1. /\ f \in [V -> 0..(Cardinality(V) - 1)]
              /\ \A v, w \in V : v # w => f[v] # f[w]
          BY DEF Rankings
        <5> DEFINE n == Cardinality(Slice(f, skip, L))
        <5>2. 0 < n /\ n < L
          BY <1>3, <2>4, <3>3
        <5> HIDE DEF V, skip, L
        <5>3. QED BY <1>3, <2>2, <2>5, <5>1, <5>2, ShortPageIsLast
      <4>2. A(u) < Cardinality(V)
        BY <3>1, AheadCounts DEF A, Ahead, IInv
      <4> HIDE DEF V, skip, L
      <4>3. QED BY <1>3, <2>2, <2>4, <2>5, <2>7, <3>2, <3>3, <4>1, <4>2
    <3>4. QED BY <3>1, <3>2, <3>3
  <2>12. QED BY <2>1, <2>4, <2>10, <2>11
<1>6. QED BY <1>1, <1>2, <1>4, <1>5 DEF WalkFits

\* The total says that there is another page if rows are missing: it counts them,
\* or the page was not the last.
LEMMA CountQueryWalks ==
  ASSUME IInv, WalkInv, NEW r \in Readers, CountQuery(r)
  PROVE  WalkFits(r)' /\ WalksAlone(r)
<1> USE DEF TypeOK
<1> DEFINE a == ask[r]
           V == View(table, a)
           n == Cardinality(rows[r])
           skip == Skip(page[r], Limit(a))
           A(u) == Cardinality(Ahead(r, u))
<1>1. /\ pc[r] = "count" /\ pc' = [pc EXCEPT ![r] = "answered"] /\ WalkFits(r) /\ a \in Asks
      /\ UNCHANGED <<table, clock, ask, page, rows, seen, first, entered, left>>
  BY DEF CountQuery, history, caches, WalkInv, WalkFits
<1>2. PICK total \in {Cardinality(V)} \union
                     (IF 0 < n /\ n < Limit(a) THEN {skip + n} ELSE {}) :
        fig' = [fig EXCEPT ![r].total = total]
  BY DEF CountQuery
<1>3. pc'[r] = "answered" /\ fig'[r].total = total /\ WalksAlone(r)
  BY <1>1, <1>2 DEF WalksAlone, Still, IInv, Figures
<1>4. Limit(a) \in Nat /\ n \in Nat /\ rows[r] \subseteq Ids
  <2>1. Limit(a) \in Nat /\ rows[r] \subseteq Ids
    BY <1>1, AskedNumbers DEF IInv
  <2>2. QED BY <2>1, QueriesAssumption, FS_Subset, FS_CardinalityType
<1>5. /\ Walking(r)' => Walking(r)
      /\ Covered(r)' = Covered(r) /\ \A u : Ahead(r, u)' = Ahead(r, u)
  BY <1>1, <1>3 DEF Walking, FromStart, Covered, Ahead
<1>6. ASSUME Walking(r) PROVE page[r] >= 1 /\ ShownCovered(r)' /\ MissingAhead(r)'
  <2>1. page[r] >= 1 /\ ShownCovered(r) /\ MissingAhead(r) /\ Covered(r) \in Int
    BY <1>1, <1>4, <1>6 DEF WalkFits, Covered, IInv
  <2>2. ShownCovered(r)'
    BY <1>1, <1>3, <1>5, <2>1 DEF ShownCovered
  <2>3. ASSUME ~left[r], NEW u \in first[r], seen[r][u] = 0
        PROVE  total > Covered(r)
    <3>1. u \in V /\ A(u) >= Covered(r) /\ n \notin 1..(Limit(a) - 1)
      BY <1>1, <2>1, <2>3 DEF MissingAhead
    <3>2. A(u) \in Nat /\ Cardinality(V) \in Nat /\ A(u) < Cardinality(V)
      <4>1. table \in [Ids -> Row \union {None}]
        BY DEF IInv
      <4>2. A(u) = Cardinality({v \in V : Before(table, v, u, "createdAt", Order(a))})
        BY DEF Ahead
      <4> HIDE DEF A
      <4>3. /\ Cardinality({v \in V : Before(table, v, u, "createdAt", Order(a))}) \in Nat
            /\ Cardinality({v \in V : Before(table, v, u, "createdAt", Order(a))}) < Cardinality(V)
        BY <3>1, <4>1, AheadCounts
      <4>4. Cardinality(V) \in Nat
        BY ViewCounts
      <4>5. QED BY <4>2, <4>3, <4>4
    <3> HIDE DEF A, V, n, skip
    <3>3. total = Cardinality(V)
      BY <1>2, <1>4, <3>1
    <3>4. QED BY <2>1, <3>1, <3>2, <3>3
  <2>4. MissingAhead(r)'
    BY <1>1, <1>3, <1>5, <2>1, <2>3 DEF MissingAhead
  <2>5. QED BY <2>1, <2>2, <2>4
<1>7. QED BY <1>1, <1>3, <1>5, <1>6 DEF WalkFits

LEMMA NextPageWalks ==
  ASSUME IInv, WalkInv, NEW r \in Readers, NextPage(r)
  PROVE  WalkFits(r)' /\ WalksAlone(r)
<1> USE DEF TypeOK
<1>1. /\ pc[r] = "answered" /\ ~LastPage(r) /\ WalkFits(r) /\ ask[r] \in Asks
      /\ pc' = [pc EXCEPT ![r] = "rows"] /\ page' = [page EXCEPT ![r] = @ + 1]
      /\ \A s \in Readers \ {r} : rows'[s] = rows[s]
      /\ UNCHANGED <<table, clock, ask, fig, seen, first, entered, left>>
  BY DEF NextPage, history, caches, WalkInv, WalkFits, IInv
<1>2. pc'[r] = "rows" /\ page'[r] = page[r] + 1 /\ WalksAlone(r)
  BY <1>1 DEF WalksAlone, Still, IInv
<1>3. page[r] \in Nat /\ Limit(ask[r]) \in Nat
  BY <1>1, AskedNumbers DEF IInv
<1>4. Covered(r)' = Covered(r)
  <2>1. page'[r] - 1 = page[r]
    BY <1>2, <1>3
  <2>2. QED BY <1>1, <1>2, <2>1 DEF Covered
<1>5. /\ Walking(r)' => Walking(r)
      /\ \A u : Ahead(r, u)' = Ahead(r, u)
  BY <1>1 DEF Walking, FromStart, Ahead
<1>6. ASSUME Walking(r) PROVE page'[r] >= 1 /\ ShownCovered(r)' /\ MissingAhead(r)'
  <2>1. page[r] >= 1 /\ ShownCovered(r) /\ MissingAhead(r)
    BY <1>1, <1>6 DEF WalkFits
  <2>2. Limit(ask[r]) # 0
    BY <1>1, <1>3, <2>1 DEF LastPage, TotalPages
  <2>3. ShownCovered(r)'
    BY <1>1, <1>2, <1>4, <1>5, <2>1, <2>2 DEF ShownCovered
  <2>4. MissingAhead(r)'
    BY <1>1, <1>2, <1>4, <1>5, <2>1, <2>2 DEF MissingAhead
  <2>5. QED BY <1>2, <1>3, <2>1, <2>3, <2>4
<1>7. QED BY <1>1, <1>2, <1>5, <1>6 DEF WalkFits

\* The number of pages is rounded up: they hold the total.
LEMMA PagesEnough ==
  ASSUME NEW total \in Int, NEW L \in Nat \ {0}, NEW p \in Nat,
         p >= (total + L - 1) \div L
  PROVE  total <= p * L
<1> DEFINE x == total + L - 1
           q == x \div L
<1>1. q \in Int /\ x < q * L + L
  OBVIOUS
<1>2. q * L <= p * L
  <2>1. q <= p
    OBVIOUS
  <2> HIDE DEF q
  <2>2. QED BY <1>1, <2>1
<1>3. p * L \in Int /\ q * L \in Int
  BY <1>1
<1> HIDE DEF q
<1>4. QED BY <1>1, <1>2, <1>3

-----------------------------------------------------------------------------
LEMMA InitWalks ==
  ASSUME Init
  PROVE  WalkInv
<1>1. BirthsApart
  <2>1. Apart(table) /\ \A u \in Present(table) : table[u].born <= Cardinality(Ids)
    BY BirthsAssumption DEF Init
  <2>2. clock = 0 /\ Cardinality(Ids) \in Nat
    BY QueriesAssumption, FS_CardinalityType DEF Init
  <2>3. clock + Cardinality(Ids) = Cardinality(Ids)
    BY <2>2
  <2>4. QED BY <2>1, <2>3 DEF BirthsApart
<1>2. QED BY <1>1 DEF Init, WalkInv, WalkFits, Walking

LEMMA NextWalks ==
  ASSUME IInv, WalkInv, [Next]_vars
  PROVE  WalkInv'
<1>1. ASSUME NEW u \in Ids, Create(u) \/ Update(u) \/ Remove(u) PROVE WalkInv'
  BY <1>1, ChangeKeepsStamps, ChangeWalks DEF WalkInv
<1>2. ASSUME NEW r \in Readers, WalkFits(r)', WalksAlone(r) PROVE WalkInv'
  <2>1. BirthsApart'
    BY <1>2 DEF WalksAlone, WalkInv, BirthsApart
  <2>2. \A s \in Readers \ {r} : WalkFits(s)'
    BY <1>2, StillWalks DEF WalksAlone, WalkInv
  <2>3. QED BY <1>2, <2>1, <2>2 DEF WalkInv
<1>3. ASSUME NEW r \in Readers,
             \/ Begin(r) \/ BeginCached(r) \/ RowsQuery(r) \/ CountQuery(r) \/ NextPage(r)
             \/ DashboardCount(r) \/ DashboardShown(r) \/ SyncCount(r) \/ SyncStored(r)
             \/ Finish(r)
      PROVE  WalkInv'
  <2>1. WalkFits(r)' /\ WalksAlone(r)
    BY <1>3, BeginWalks, RowsQueryWalks, CountQueryWalks, NextPageWalks,
       OtherReaders, FinishWalks
  <2>2. QED BY <1>2, <2>1
<1>4. CASE UNCHANGED vars
  <2>1. \A r \in Readers : Still(r) /\ WalkFits(r)
    BY <1>4 DEF vars, Still, WalkInv
  <2>2. BirthsApart' /\ table' = table
    BY <1>4 DEF vars, WalkInv, BirthsApart
  <2>3. QED BY <2>1, <2>2, StillWalks DEF WalkInv
<1>5. QED BY <1>1, <1>3, <1>4 DEF Next

\* The inductive invariant of walks.
THEOREM WalksInvariant == Spec => []WalkInv
<1>1. IInv /\ WalkInv /\ [Next]_vars => WalkInv'
  BY NextWalks
<1>2. Init => WalkInv
  BY InitWalks
<1>3. QED BY <1>1, <1>2, QueriesInvariant, PTL DEF Spec

\* An account that is in the view when a walk in the order of creation begins is
\* shown by the end of the walk, unless an account left the view meanwhile.
THEOREM WalksSkipNone == Spec => []WalkSkipsOnlyAfterLeaving
<1>1. ASSUME IInv, WalkInv PROVE WalkSkipsOnlyAfterLeaving
  <2> SUFFICES ASSUME NEW r \in Readers, Walked(r), FromStart(r), ~left[r],
                      NEW u \in first[r], ~(seen[r][u] >= 1)
               PROVE  FALSE
    BY DEF WalkSkipsOnlyAfterLeaving
  <2> DEFINE L == Limit(ask[r])
             total == fig[r].total
  <2>1. /\ pc[r] = "answered" /\ page[r] >= TotalPages(total, L)
        /\ ask[r] \in Asks /\ page[r] >= 1 /\ MissingAhead(r)
    BY <1>1 DEF Walked, LastPage, Walking, WalkInv, WalkFits
  <2>2. seen[r][u] = 0
    <3>1. u \in Ids
      BY <1>1 DEF IInv, TypeOK
    <3>2. seen[r][u] \in Nat
      BY <1>1, <3>1 DEF IInv, TypeOK
    <3>3. QED BY <3>2
  <2>3. L \in Nat /\ page[r] \in Nat
    BY <1>1, <2>1, AskedNumbers DEF IInv, TypeOK
  <2>4. L # 0 /\ total > page[r] * L
    BY <2>1, <2>2 DEF MissingAhead, Covered
  <2>5. total \in Int
    BY <1>1, <2>1 DEF Walked, IInv, ReaderFits, AnswerFits, Within
  <2> HIDE DEF L, total
  <2>6. page[r] >= (total + L - 1) \div L
    BY <2>1, <2>4 DEF TotalPages
  <2>7. QED BY <2>3, <2>4, <2>5, <2>6, PagesEnough
<1>2. QED BY <1>1, QueriesInvariant, WalksInvariant, PTL

\* No account is shown twice by a walk in the order of creation, unless an account
\* came into the view meanwhile.
THEOREM WalksRepeatNone == Spec => []WalkRepeatsOnlyAfterEntering
<1>1. WalkInv => WalkRepeatsOnlyAfterEntering
  BY DEF WalkInv, WalkFits, Walking, ShownCovered, WalkRepeatsOnlyAfterEntering
<1>2. QED BY <1>1, WalksInvariant, PTL

-----------------------------------------------------------------------------
\* Every step keeps what a walk has shown, and will show, within its view of the
\* beginning.
LEMMA ShrinkStep ==
  ASSUME IInv, WalkInv, \A r \in Readers : ViewShrinks(r), [Next]_vars,
         NEW r \in Readers
  PROVE  ViewShrinks(r)'
<1>1. /\ TypeOK /\ ViewShrinks(r) /\ WalkFits(r) /\ seen[r] \in [Ids -> Nat]
  BY DEF IInv, WalkInv, TypeOK
<1>2. ASSUME NEW t, Change(t) PROVE ViewShrinks(r)'
  <2>1. /\ UNCHANGED <<ask, pc, first, seen>> /\ table' = t
        /\ entered'[r] = (ask[r] # None /\
             (entered[r] \/ View(t, ask[r]) \ View(table, ask[r]) # {}))
    BY <1>2 DEF Change
  <2>2. pc[r] # "idle" => ask[r] # None
    BY <1>1, QueriesAssumption DEF WalkFits
  <2>3. QED BY <1>1, <2>1, <2>2 DEF ViewShrinks
<1>3. CASE Begin(r)
  <2>1. PICK a \in Asks :
          /\ ask' = [ask EXCEPT ![r] = a]
          /\ first' = [first EXCEPT ![r] = IF a.kind = "walk" THEN View(table, a) ELSE {}]
    BY <1>3 DEF Begin
  <2>2. /\ ask'[r] = a /\ table' = table
        /\ a.kind = "walk" => first'[r] = View(table, a)
        /\ \A u \in Ids : seen'[r][u] = 0
    BY <1>1, <1>3, <2>1 DEF Begin, TypeOK, WalkFits
  <2>3. QED BY <2>2 DEF ViewShrinks
<1>4. CASE BeginCached(r)
  BY <1>1, <1>4 DEF BeginCached, ViewShrinks, TypeOK
<1>5. CASE RowsQuery(r)
  <2>1. UNCHANGED <<table, ask, first, entered>> /\ pc[r] = "rows"
    BY <1>5 DEF RowsQuery, history
  <2>2. \A u \in Ids : seen'[r][u] > 0 => seen[r][u] > 0 \/ u \in View(table, ask[r])
    <3>1. CASE seen' = seen
      BY <3>1
    <3>2. CASE seen' # seen
      <4>1. PICK f \in Rankings(table, View(table, ask[r]), Sort(ask[r]), Order(ask[r])) :
              /\ rows' = [rows EXCEPT
                            ![r] = Slice(f, Skip(page[r], Limit(ask[r])), Limit(ask[r]))]
              /\ seen' = [seen EXCEPT ![r] =
                   [u \in Ids |-> seen[r][u] + (IF u \in rows'[r] THEN 1 ELSE 0)]]
        BY <1>5, <3>2 DEF RowsQuery
      <4>2. rows'[r] \subseteq View(table, ask[r])
        BY <1>1, <4>1 DEF TypeOK, Rankings, Slice
      <4>3. QED BY <1>1, <4>1, <4>2 DEF TypeOK
    <3>3. QED BY <3>1, <3>2
  <2>3. QED BY <1>1, <2>1, <2>2 DEF ViewShrinks
<1>6. CASE Finish(r)
  BY <1>1, <1>6 DEF Finish, ViewShrinks, TypeOK
<1>7. ASSUME NEW s \in Readers, s # r, Begin(s) \/ BeginCached(s) \/ RowsQuery(s) \/ Finish(s)
      PROVE  ViewShrinks(r)'
  <2>1. /\ table' = table /\ ask'[r] = ask[r] /\ pc'[r] = pc[r]
        /\ first'[r] = first[r] /\ seen'[r] = seen[r] /\ entered'[r] = entered[r]
    BY <1>1, <1>7 DEF Begin, BeginCached, RowsQuery, Finish, history, TypeOK
  <2>2. QED BY <1>1, <2>1 DEF ViewShrinks
<1>8. ASSUME UNCHANGED <<table, ask, first, seen, entered>>, pc'[r] = "idle" => pc[r] = "idle",
             pc[r] = "idle" => pc'[r] = "idle"
      PROVE  ViewShrinks(r)'
  BY <1>1, <1>8 DEF ViewShrinks
<1>9. ASSUME NEW s \in Readers,
             \/ CountQuery(s) \/ NextPage(s) \/ DashboardCount(s) \/ DashboardShown(s)
             \/ SyncCount(s) \/ SyncStored(s)
      PROVE  ViewShrinks(r)'
  <2>1. /\ UNCHANGED <<table, ask, first, seen, entered>> /\ pc[s] # "idle"
        /\ pc' = pc \/ \E x \in {"rows", "answered"} : pc' = [pc EXCEPT ![s] = x]
    BY <1>9
    DEF CountQuery, NextPage, DashboardCount, DashboardShown, SyncCount, SyncStored,
        CountStep, history
  <2>2. QED BY <1>1, <1>8, <2>1 DEF TypeOK
<1>10. CASE UNCHANGED vars
  BY <1>8, <1>10 DEF vars
<1>11. QED
  BY <1>2, <1>3, <1>4, <1>5, <1>6, <1>7, <1>9, <1>10 DEF Next, Create, Update, Remove

\* A walk in the order of creation that no change disturbs shows each account of its
\* view once and no other account, whatever the size of its pages.
THEOREM QuietWalksAreExact == Spec => []QuietWalksExact
<1> DEFINE Shrinks == \A r \in Readers : ViewShrinks(r)
<1>1. Init => Shrinks
  BY DEF Init, ViewShrinks
<1>2. IInv /\ WalkInv /\ Shrinks /\ [Next]_vars => Shrinks'
  BY ShrinkStep
<1>3. ASSUME IInv, Shrinks, WalkSkipsOnlyAfterLeaving, WalkRepeatsOnlyAfterEntering
      PROVE  QuietWalksExact
  <2> SUFFICES ASSUME NEW r \in Readers, Walked(r), FromStart(r), ~left[r], ~entered[r]
               PROVE  seen[r] = [u \in Ids |-> IF u \in first[r] THEN 1 ELSE 0]
    BY DEF QuietWalksExact
  <2>1. seen[r] \in [Ids -> Nat] /\ first[r] \subseteq Ids
    BY <1>3 DEF IInv, TypeOK
  <2>2. \A u \in first[r] : seen[r][u] >= 1
    BY <1>3 DEF WalkSkipsOnlyAfterLeaving
  <2>3. \A u \in Ids : seen[r][u] <= 1
    BY <1>3 DEF WalkRepeatsOnlyAfterEntering, Walked
  <2>4. \A u \in Ids : seen[r][u] > 0 => u \in first[r]
    BY <1>3 DEF ViewShrinks, Walked
  <2>5. \A u \in Ids : seen[r][u] = IF u \in first[r] THEN 1 ELSE 0
    BY <2>1, <2>2, <2>3, <2>4
  <2>6. QED BY <2>1, <2>5
<1>4. QED
  BY <1>1, <1>2, <1>3, QueriesInvariant, WalksInvariant, WalksSkipNone, WalksRepeatNone, PTL
  DEF Spec

=============================================================================
