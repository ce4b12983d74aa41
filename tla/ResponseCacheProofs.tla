------------------------- MODULE ResponseCacheProofs ------------------------
(***************************************************************************)
(* Theorems about ResponseCache, for any accounts, callers, requests and   *)
(* number of failing cache calls.                                          *)
(***************************************************************************)
EXTENDS ResponseCache, TLAPS

\* Each GET has a key, whose scope is what the GET asks for.
LEMMA KeyTyping ==
  /\ \A g \in GetType :
       /\ KeyOf(g) \in Keys
       /\ Scope(KeyOf(g)) = IF g.route = "list" THEN Ids ELSE {g.id}
       /\ KeyOf(g) = ListKey <=> g.route = "list"
  /\ ListKey \in Keys /\ Scope(ListKey) = Ids
  /\ \A k \in Keys : Scope(k) \subseteq Ids /\ None \notin [Scope(k) -> Contents]
<1>1. ListKey \in Keys /\ Scope(ListKey) = Ids
  BY DEF Keys, Scope
<1>2. \A u \in Ids, a \in Admins : /\ EntryKey(u, a) \in Keys /\ EntryKey(u, a) # ListKey
                                   /\ Scope(EntryKey(u, a)) = {u}
  <2> SUFFICES ASSUME NEW u \in Ids, NEW a \in Admins
               PROVE  /\ EntryKey(u, a) \in Keys /\ EntryKey(u, a) # ListKey
                      /\ Scope(EntryKey(u, a)) = {u}
    OBVIOUS
  <2>1. EntryKey(u, a) \in Ids \X Admins
    BY DEF EntryKey
  <2>2. EntryKey(u, a) # ListKey
    BY <2>1, CacheAssumption DEF ListKey
  <2>3. QED
    BY <2>1, <2>2 DEF Keys, Scope, EntryKey
<1>3. ASSUME NEW g \in GetType
      PROVE  /\ KeyOf(g) \in Keys
             /\ Scope(KeyOf(g)) = IF g.route = "list" THEN Ids ELSE {g.id}
             /\ KeyOf(g) = ListKey <=> g.route = "list"
  BY <1>1, <1>2 DEF GetType, KeyOf
<1>4. ASSUME NEW k \in Keys
      PROVE  Scope(k) \subseteq Ids /\ None \notin [Scope(k) -> Contents]
  <2>1. Scope(k) \subseteq Ids
    BY <1>1, <1>2 DEF Keys, Scope, EntryKey
  <2>2. QED
    BY <2>1, CacheAssumption DEF Contents
<1>5. QED
  BY <1>1, <1>3, <1>4

\* The requests have their types, and their results the scope of their key.
LEMMA RequestTyping ==
  ASSUME TypeOK, NEW r \in Readers
  PROVE  /\ get[r] \in GetType /\ KeyOf(get[r]) \in Keys
         /\ Response(get[r]) \in [Scope(KeyOf(get[r])) -> Contents]
         /\ Response(get[r]) \in Views(KeyOf(get[r])) /\ Response(get[r]) # None
         /\ cache[KeyOf(get[r])] \in Views(KeyOf(get[r]))
         /\ got[r] \in Views(KeyOf(get[r])) /\ shown[r] \in Views(KeyOf(get[r]))
<1>1. get[r] \in GetType /\ KeyOf(get[r]) \in Keys
  BY CacheAssumption, KeyTyping DEF TypeOK
<1>2. Response(get[r]) \in [Scope(KeyOf(get[r])) -> Contents]
  BY <1>1, KeyTyping DEF Response, TypeOK, Tables
<1>3. QED
  BY <1>1, <1>2, KeyTyping DEF TypeOK, Views

\* A cache call may use up one of the faults, and does nothing else to them.
LEMMA FaultsTyping ==
  ASSUME TypeOK, UNCHANGED faults \/ (faults < MaxFaults /\ faults' = faults + 1)
  PROVE  faults' \in 0..MaxFaults /\ (faults > 0 => faults' > 0)
BY CacheAssumption DEF TypeOK

\* A hit shows what is cached.
LEMMA LookUpInv ==
  ASSUME IInv, NEW r \in Readers, LookUp(r)
  PROVE  IInv'
<1> DEFINE entry == cache[KeyOf(get[r])]
<1>1. /\ UNCHANGED <<rows, writes, get, wpc, write, stamp, overlapped, past, cache, got, filler>>
      /\ rpc' = [rpc EXCEPT ![r] = "query"] \/ rpc' = [rpc EXCEPT ![r] = "done"]
      /\ UNCHANGED shown \/ (entry # None /\ shown' = [shown EXCEPT ![r] = entry])
      /\ UNCHANGED faults \/ (faults < MaxFaults /\ faults' = faults + 1)
  BY DEF LookUp, Attempt, reading
<1>2. /\ faults' \in 0..MaxFaults /\ (faults > 0 => faults' > 0)
      /\ get[r] \in GetType /\ KeyOf(get[r]) \in Keys /\ entry \in Views(KeyOf(get[r]))
  BY <1>1, FaultsTyping, RequestTyping DEF IInv
<1> HIDE DEF entry
<1>3. TypeOK'
  BY <1>1, <1>2 DEF IInv, TypeOK
<1>4. HeldIsReal'
  BY <1>1 DEF IInv, TypeOK, HeldIsReal, Real
<1>5. ShownWasTrue'
  <2>1. entry # None => Real(get[r], entry)
    BY <1>2, KeyTyping DEF IInv, HeldIsReal, Real, Views, entry
  <2>2. QED
    BY <1>1, <2>1 DEF IInv, TypeOK, ShownWasTrue, Real
<1>6. StaleReadHasCause' /\ StaleListHasCause'
  BY <1>1, <1>2 DEF IInv, TypeOK, StaleReadHasCause, StaleListHasCause, Excused
<1>7. QED
  BY <1>3, <1>4, <1>5, <1>6 DEF IInv

\* What is read is what the table holds.
LEMMA QueryInv ==
  ASSUME IInv, NEW r \in Readers, Query(r)
  PROVE  IInv'
<1>1. /\ UNCHANGED <<rows, writes, get, wpc, write, stamp, overlapped, past, cache, faults,
                     shown, filler>>
      /\ rpc' = [rpc EXCEPT ![r] = "answer"] \/ rpc' = [rpc EXCEPT ![r] = "done"]
      /\ got' = [got EXCEPT ![r] = Response(get[r])]
  BY DEF Query, reading
<1>2. /\ get[r] \in GetType /\ Response(get[r]) # None
      /\ Response(get[r]) \in Views(KeyOf(get[r]))
  BY RequestTyping DEF IInv
<1>3. TypeOK'
  BY <1>1, <1>2 DEF IInv, TypeOK
<1>4. Real(get[r], Response(get[r])) /\ (get[r].route = "list" => Response(get[r]) = rows)
  BY <1>2, KeyTyping DEF IInv, TypeOK, HeldIsReal, Real, Response, Tables, GetType
<1>5. HeldIsReal'
  BY <1>1, <1>2, <1>4 DEF IInv, TypeOK, HeldIsReal, Real
<1>6. ShownWasTrue' /\ StaleReadHasCause' /\ StaleListHasCause'
  BY <1>1, <1>4
  DEF IInv, TypeOK, ShownWasTrue, Real, StaleReadHasCause, StaleListHasCause, Excused
<1>7. QED
  BY <1>3, <1>5, <1>6 DEF IInv

\* What is stored and shown is what was read.
LEMMA AnswerGetInv ==
  ASSUME IInv, NEW r \in Readers, AnswerGet(r)
  PROVE  IInv'
<1> DEFINE k == KeyOf(get[r])
<1>1. /\ UNCHANGED <<rows, writes, get, wpc, write, stamp, overlapped, past, got>>
      /\ rpc[r] = "answer" /\ rpc' = [rpc EXCEPT ![r] = "done"]
      /\ shown' = [shown EXCEPT ![r] = got[r]]
      /\ \/ UNCHANGED <<cache, filler>>
         \/ /\ cache' = [cache EXCEPT ![k] = got[r]]
            /\ filler' = IF k = ListKey THEN r ELSE filler
      /\ UNCHANGED faults \/ (faults < MaxFaults /\ faults' = faults + 1)
  BY DEF AnswerGet, Attempt, reading
<1>2. /\ faults' \in 0..MaxFaults /\ (faults > 0 => faults' > 0)
      /\ get[r] \in GetType /\ k \in Keys /\ got[r] \in Views(k)
      /\ got[r] # None /\ Real(get[r], got[r])
  BY <1>1, FaultsTyping, RequestTyping DEF IInv, HeldIsReal
<1>3. k = ListKey <=> get[r].route = "list"
  BY <1>2, KeyTyping
<1>4. \A u \in Scope(k) : got[r][u] \in past[u]
  BY <1>2, KeyTyping DEF Real
<1> HIDE DEF k
<1>5. TypeOK'
  BY <1>1, <1>2 DEF IInv, TypeOK
<1>6. HeldIsReal'
  <2>1. \A i \in Keys : cache'[i] # None => \A u \in Scope(i) : cache'[i][u] \in past[u]
    BY <1>1, <1>2, <1>4 DEF IInv, TypeOK, HeldIsReal
  <2>2. QED
    BY <1>1, <2>1 DEF IInv, TypeOK, HeldIsReal, Real
<1>7. ShownWasTrue'
  BY <1>1, <1>2 DEF IInv, TypeOK, ShownWasTrue, Real
<1>8. StaleReadHasCause'
  BY <1>1, <1>2 DEF IInv, TypeOK, StaleReadHasCause, Excused
<1>9. StaleListHasCause'
  <2>1. Excused => Excused'
    BY <1>1, <1>2 DEF Excused
  <2>2. CASE cache'[ListKey] = cache[ListKey] /\ UNCHANGED filler
    BY <1>1, <2>1, <2>2 DEF IInv, StaleListHasCause
  <2>3. CASE k = ListKey /\ cache'[ListKey] = got[r] /\ filler' = r
    BY <1>1, <1>3, <2>1, <2>3 DEF IInv, StaleListHasCause, StaleReadHasCause
  <2>4. ListKey \in Keys /\ DOMAIN cache = Keys
    BY KeyTyping DEF IInv, TypeOK
  <2>5. QED
    BY <1>1, <1>2, <2>2, <2>3, <2>4
<1>10. QED
  BY <1>5, <1>6, <1>7, <1>8, <1>9 DEF IInv

\* A write adds a content to the past; until it is answered it excuses anything.
LEMMA CommitInv ==
  ASSUME IInv, NEW w \in Writers, Commit(w)
  PROVE  IInv'
<1>1. /\ UNCHANGED <<rpc, get, got, shown, write, filler, cache, faults, overlapped>>
      /\ wpc[w] = "idle" /\ write[w].id \in Ids
  BY CacheAssumption DEF IInv, TypeOK, Commit, writing, WriteType
<1>2. CASE /\ wpc' = [wpc EXCEPT ![w] = "refused"]
           /\ UNCHANGED <<rows, writes, stamp, past>>
  BY <1>1, <1>2
  DEF IInv, TypeOK, HeldIsReal, ShownWasTrue, Real, StaleReadHasCause, StaleListHasCause, Excused
<1>3. ASSUME NEW row \in {None, writes + 1},
             rows' = [rows EXCEPT ![write[w].id] = row],
             writes' = writes + 1,
             stamp' = [stamp EXCEPT ![w] = writes + 1],
             past' = [past EXCEPT ![write[w].id] = @ \union {row}],
             wpc' = [wpc EXCEPT ![w] = "answer"]
      PROVE  IInv'
  <2>1. row \in Contents /\ writes \in Nat
    BY DEF IInv, TypeOK, Contents
  <2>2. TypeOK'
    <3>1. rows' \in Tables
      BY <1>3, <2>1 DEF IInv, TypeOK, Tables
    <3>2. past' \in [Ids -> SUBSET (Nat \union {None})]
      BY <1>3, <2>1 DEF IInv, TypeOK, Contents
    <3>3. writes' \in Nat /\ stamp' \in [Writers -> Nat]
      BY <1>3, <2>1 DEF IInv, TypeOK
    <3>4. QED
      BY <1>1, <1>3, <3>1, <3>2, <3>3 DEF IInv, TypeOK
  <2>3. \A u \in Ids : past[u] \subseteq past'[u] /\ rows'[u] \in past'[u]
    BY <1>1, <1>3, <2>1 DEF IInv, TypeOK, Tables, HeldIsReal
  <2>4. \A g \in GetType : \A v : Real(g, v) => Real(g, v)'
    BY <2>3 DEF Real, GetType
  <2>5. HeldIsReal' /\ ShownWasTrue'
    <3>1. \A i \in Keys : cache'[i] # None => \A u \in Scope(i) : cache'[i][u] \in past'[u]
      BY <1>1, <2>3, KeyTyping DEF IInv, HeldIsReal
    <3>2. \A q \in Readers : get[q] \in GetType
      BY RequestTyping DEF IInv
    <3>3. QED
      BY <1>1, <2>3, <2>4, <3>1, <3>2 DEF IInv, HeldIsReal, ShownWasTrue, Real
  <2>6. wpc'[w] = "answer" /\ stamp'[w] > 0 /\ Excused'
    BY <1>3, <2>1 DEF IInv, TypeOK, Excused
  <2>7. StaleReadHasCause' /\ StaleListHasCause'
    BY <1>1, <1>3, <2>6 DEF IInv, TypeOK, StaleReadHasCause, StaleListHasCause
  <2>8. QED
    BY <2>2, <2>5, <2>7 DEF IInv
<1>4. QED
  BY <1>2, <1>3 DEF Commit

\* An answered write marks the reads under way; through the users routes it also
\* empties the list.
LEMMA AnswerWriteInv ==
  ASSUME IInv, NEW w \in Writers, AnswerWrite(w)
  PROVE  IInv'
<1>1. /\ UNCHANGED <<rpc, get, got, shown, write, filler, rows, writes, stamp, past>>
      /\ wpc[w] = "answer" /\ wpc' = [wpc EXCEPT ![w] = "done"]
      /\ \/ /\ cache' = [k \in Keys |-> IF k \in Evicted(write[w]) THEN None ELSE cache[k]]
            /\ UNCHANGED faults
         \/ UNCHANGED cache /\ faults < MaxFaults /\ faults' = faults + 1
      /\ overlapped' = overlapped \union {r \in Readers : rpc[r] = "answer"}
  BY DEF AnswerWrite, Attempt, writing
<1>2. faults' \in 0..MaxFaults /\ (faults > 0 => faults' > 0)
  BY <1>1, FaultsTyping DEF IInv
<1>3. /\ DOMAIN cache' = Keys
      /\ \A k \in Keys : cache'[k] \in {None, cache[k]}
  BY <1>1 DEF IInv, TypeOK
<1>4. TypeOK'
  BY <1>1, <1>2, <1>3 DEF IInv, TypeOK, Views
<1>5. HeldIsReal' /\ ShownWasTrue'
  BY <1>1, <1>3 DEF IInv, TypeOK, HeldIsReal, ShownWasTrue, Real
<1>6. StaleReadHasCause'
  BY <1>1 DEF IInv, TypeOK, StaleReadHasCause
<1>7. StaleListHasCause'
  <2>1. CASE faults' # faults
    BY <1>1, <1>2, <2>1 DEF IInv, TypeOK, StaleListHasCause, Excused
  <2>2. CASE write[w].channel # "users"
    BY <1>1, <2>2 DEF IInv, StaleReadHasCause, StaleListHasCause, Excused
  <2>3. CASE write[w].channel = "users" /\ faults' = faults
    <3>1. cache'[ListKey] = None
      BY <1>1, <2>3, KeyTyping, CacheAssumption DEF IInv, TypeOK, Evicted
    <3>2. QED
      BY <3>1 DEF StaleListHasCause
  <2>4. QED
    BY <2>1, <2>2, <2>3
<1>8. QED
  BY <1>4, <1>5, <1>6, <1>7 DEF IInv

\* Expiry empties an entry, which excuses nothing and needs no excuse.
LEMMA ExpireInv ==
  ASSUME IInv, NEW k \in Keys, Expire(k)
  PROVE  IInv'
<1>1. /\ UNCHANGED <<rows, writes, get, wpc, write, stamp, overlapped, past, rpc, got, shown,
                     faults, filler>>
      /\ cache' = [cache EXCEPT ![k] = None]
  BY DEF Expire, reading
<1>2. TypeOK' /\ HeldIsReal' /\ ShownWasTrue'
  BY <1>1 DEF IInv, TypeOK, Views, HeldIsReal, ShownWasTrue, Real
<1>3. StaleReadHasCause' /\ StaleListHasCause'
  BY <1>1, KeyTyping DEF IInv, TypeOK, StaleReadHasCause, StaleListHasCause, Excused
<1>4. QED
  BY <1>2, <1>3 DEF IInv

\* An empty cache satisfies the invariant.
LEMMA InitInv == Init => IInv
<1> SUFFICES ASSUME Init PROVE IInv
  OBVIOUS
<1>1. TypeOK
  BY CacheAssumption DEF Init, TypeOK, Views, Tables, Contents
<1>2. ShownWasTrue /\ HeldIsReal
  BY DEF Init, ShownWasTrue, HeldIsReal
<1>3. StaleListHasCause /\ StaleReadHasCause
  BY KeyTyping DEF Init, StaleListHasCause, StaleReadHasCause
<1>4. QED
  BY <1>1, <1>2, <1>3 DEF IInv

\* Every step keeps the invariant.
LEMMA NextInv == IInv /\ [Next]_vars => IInv'
<1> SUFFICES ASSUME IInv, [Next]_vars PROVE IInv'
  OBVIOUS
<1>1. CASE UNCHANGED vars
  BY <1>1
  DEF vars, IInv, TypeOK, ShownWasTrue, Real, StaleListHasCause, HeldIsReal,
      StaleReadHasCause, Excused
<1>2. QED
  BY <1>1, LookUpInv, QueryInv, AnswerGetInv, CommitInv, AnswerWriteInv, ExpireInv
  DEF Next, ReaderStep, WriterStep

\* The invariant of the cache, for any constants.
THEOREM CacheInvariant == Spec => []IInv
BY InitInv, NextInv, PTL DEF Spec

\* Every variable keeps its type.
THEOREM CacheType == Spec => []TypeOK
<1>1. IInv => TypeOK
  BY DEF IInv
<1>2. QED
  BY <1>1, CacheInvariant, PTL

\* Responses show what the accounts asked for really contained.
THEOREM ShownIsReal == Spec => []ShownWasTrue
<1>1. IInv => ShownWasTrue
  BY DEF IInv
<1>2. QED
  BY <1>1, CacheInvariant, PTL

\* A stale list has one of the known causes.
THEOREM StaleListsHaveCause == Spec => []StaleListHasCause
<1>1. IInv => StaleListHasCause
  BY DEF IInv
<1>2. QED
  BY <1>1, CacheInvariant, PTL
=============================================================================
