------------------------ MODULE RequestPipelineProofs ------------------------
(***************************************************************************)
(* Theorems about RequestPipeline, for any environments, accounts, clients, *)
(* requests and throttlers.                                                 *)
(***************************************************************************)
EXTENDS RequestPipeline, FiniteSetTheorems, WellFoundedInduction, TLAPS

\* No exception is answered with 0 or with 200.
LEMMA StatusIsError ==
  \A e : StatusOf(e) \in Nat /\ StatusOf(e) \notin {0, 200}
BY DEF StatusOf, HttpStatus

\* What a request q that arrives at slot r finds.
Arrived(r, q) ==
  /\ boot = "listening" /\ pc[r] = "idle"
  /\ req' = [req EXCEPT ![r] = q]
  /\ fit' = [fit EXCEPT ![r] = Fit(q, rows)]
  /\ \/ q.route # "board" /\ pc' = [pc EXCEPT ![r] = "throttle"] /\ answer' = answer
     \/ /\ pc' = [pc EXCEPT ![r] = "answered"]
        /\ answer' \in [Slots -> Nat]
        /\ \A s \in Slots \ {r} : answer'[s] = answer[s]
        /\ answer'[r] = 200 /\ q.route = "board" =>
             front.board /\ front.boardKey \in {"", q.key}
  /\ UNCHANGED <<server, now, hits, accounts, who>>

LEMMA Arrival ==
  ASSUME TypeOK, NEW r \in Slots, Arrive(r)
  PROVE  \E q \in Offers : Arrived(r, q)
<1>1. PICK q \in Offers :
        /\ req' = [req EXCEPT ![r] = q]
        /\ fit' = [fit EXCEPT ![r] = Fit(q, rows)]
        /\ IF Foreign(q) THEN Throw(r, "Error")
           ELSE IF q.route = "board" THEN ShowBoard(r, q)
           ELSE Goto(r, "throttle")
  BY DEF Arrive
<1>2. /\ boot = "listening" /\ pc[r] = "idle"
      /\ UNCHANGED <<server, now, hits, accounts, who>>
  BY DEF Arrive
<1>3. answer \in [Slots -> Nat]
  BY DEF TypeOK
<1>4. CASE Throw(r, "Error")
  <2>1. /\ pc' = [pc EXCEPT ![r] = "answered"]
        /\ answer' = [answer EXCEPT ![r] = StatusOf("Error")]
    BY <1>4 DEF Throw, Reply
  <2>2. StatusOf("Error") \in Nat \ {200}
    BY StatusIsError
  <2>3. QED BY <1>1, <1>2, <1>3, <2>1, <2>2 DEF Arrived
<1>5. CASE ShowBoard(r, q)
  <2>1. /\ pc' = [pc EXCEPT ![r] = "answered"]
        /\ \/ answer' = [answer EXCEPT ![r] = 404]
           \/ answer' = [answer EXCEPT ![r] = 401]
           \/ /\ answer' = [answer EXCEPT ![r] = 200]
              /\ front.board /\ front.boardKey \in {"", q.key}
    <3>1. StatusOf("NotFound") = 404
      BY DEF StatusOf, HttpStatus
    <3>2. QED BY <1>5, <3>1 DEF ShowBoard, Throw, Reply
  <2>2. CASE answer' = [answer EXCEPT ![r] = 404] \/ answer' = [answer EXCEPT ![r] = 401]
    <3>1. /\ answer' \in [Slots -> Nat] /\ answer'[r] # 200
          /\ \A s \in Slots \ {r} : answer'[s] = answer[s]
      BY <1>3, <2>2
    <3>2. QED BY <1>1, <1>2, <2>1, <3>1 DEF Arrived
  <2>3. CASE /\ answer' = [answer EXCEPT ![r] = 200]
             /\ front.board /\ front.boardKey \in {"", q.key}
    <3>1. /\ answer' \in [Slots -> Nat]
          /\ \A s \in Slots \ {r} : answer'[s] = answer[s]
      BY <1>3, <2>3
    <3>2. QED BY <1>1, <1>2, <2>1, <2>3, <3>1 DEF Arrived
  <2>4. QED BY <2>1, <2>2, <2>3
<1>6. CASE q.route # "board" /\ Goto(r, "throttle")
  BY <1>1, <1>2, <1>6 DEF Arrived, Goto
<1>7. QED BY <1>1, <1>4, <1>5, <1>6

\* Every step keeps the types.
LEMMA TypeStep ==
  ASSUME IInv, [Next]_vars
  PROVE  TypeOK'
<1> USE PipelineAssumption DEF IInv, TypeOK
<1>1. CASE Refuse
  BY <1>1 DEF Refuse, accounts
<1>2. CASE Load
  BY <1>2 DEF Load, accounts
<1>3. CASE Listen
  BY <1>3 DEF Listen, accounts
<1>4. CASE Tick
  BY <1>4 DEF Tick, server, accounts
<1>5. ASSUME NEW u \in Users, Change(u) PROVE TypeOK'
  <2>1. fit' \in [Slots -> BOOLEAN]
    BY <1>5 DEF Change, Fit, Admissible
  <2>2. QED BY <1>5, <2>1 DEF Change, server
<1>6. ASSUME NEW r \in Slots, Arrive(r) PROVE TypeOK'
  <2>1. PICK q \in Offers : Arrived(r, q)
    BY <1>6, Arrival
  <2>2. Fit(q, rows) \in BOOLEAN
    BY DEF Fit, Admissible
  <2>3. req' \in [Slots -> Request \union {None}] /\ fit' \in [Slots -> BOOLEAN]
    BY <2>1, <2>2 DEF Arrived
  <2>4. /\ pc' \in [Slots -> {"idle", "throttle", "jwt", "roles", "pipe", "handler", "answered"}]
        /\ answer' \in [Slots -> Nat]
        /\ \A s \in Slots : pc'[s] = "roles" => pc[s] = "roles"
    BY <2>1 DEF Arrived
  <2>5. UNCHANGED <<server, now, hits, accounts, who>>
    BY <2>1 DEF Arrived
  <2>6. QED BY <2>3, <2>4, <2>5 DEF server, accounts
<1>7. ASSUME NEW r \in Slots, Throttle(r) PROVE TypeOK'
  <2> DEFINE client == req[r].client
             route == req[r].route
             hit == [id |-> Cardinality(hits), client |-> client, route |-> route, at |-> now,
                     charged |-> Charged(client, route), refused |-> Refusers(client, route)]
  <2>1. req[r] \in Request
    BY <1>7 DEF Throttle, StagesFit
  <2>2. hit \in Hit
    BY <2>1, FS_CardinalityType DEF Hit, Request, Charged, Refusers, Exceeded
  <2>3. hits' = hits \union {hit}
    BY <1>7 DEF Throttle
  <2>4. hits' \subseteq Hit /\ IsFiniteSet(hits')
    BY <2>2, <2>3, FS_AddElement
  <2>5. \/ /\ pc' = [pc EXCEPT ![r] = "answered"]
           /\ answer' = [answer EXCEPT ![r] = StatusOf("Throttler")]
        \/ pc' = [pc EXCEPT ![r] = "jwt"] /\ answer' = answer
        \/ pc' = [pc EXCEPT ![r] = "pipe"] /\ answer' = answer
    BY <1>7 DEF Throttle, Throw, Reply, Goto
  <2>6. UNCHANGED <<server, now, accounts, req, who, fit>>
    BY <1>7 DEF Throttle
  <2>7. QED BY <2>4, <2>5, <2>6, StatusIsError DEF server, accounts
<1>8. ASSUME NEW r \in Slots, ValidateJwt(r) PROVE TypeOK'
  <2>1. req[r] \in Request
    BY <1>8 DEF ValidateJwt, StagesFit
  <2>2. \/ /\ pc' = [pc EXCEPT ![r] = "answered"] /\ who' = who
           /\ \E e : answer' = [answer EXCEPT ![r] = StatusOf(e)]
        \/ /\ pc' = [pc EXCEPT ![r] = "roles"] /\ answer' = answer
           /\ req[r].bearer # None /\ rows[req[r].bearer] # None
           /\ who' = [who EXCEPT ![r] = rows[req[r].bearer]]
    BY <1>8 DEF ValidateJwt, Throw, Reply, Goto
  <2>3. req[r].bearer # None => rows[req[r].bearer] \in Row \union {None}
    BY <2>1 DEF Request
  <2>4. UNCHANGED <<server, now, hits, accounts, req, fit>>
    BY <1>8 DEF ValidateJwt
  <2>5. QED BY <2>2, <2>3, <2>4, StatusIsError DEF server, accounts
<1>9. ASSUME NEW r \in Slots, CheckRoles(r) \/ Validate(r) \/ Handle(r) PROVE TypeOK'
  <2>1. \/ /\ pc' = [pc EXCEPT ![r] = "answered"]
           /\ \/ \E e : answer' = [answer EXCEPT ![r] = StatusOf(e)]
              \/ answer' = [answer EXCEPT ![r] = 200]
        \/ \E step \in {"pipe", "handler"} :
             pc' = [pc EXCEPT ![r] = step] /\ answer' = answer
    BY <1>9 DEF CheckRoles, Validate, Handle, Throw, Reply, Goto
  <2>2. UNCHANGED <<server, now, hits, accounts, req, who, fit>>
    BY <1>9 DEF CheckRoles, Validate, Handle
  <2>3. QED BY <2>1, <2>2, StatusIsError DEF server, accounts
<1>10. ASSUME NEW r \in Slots, Finish(r) PROVE TypeOK'
  BY <1>10 DEF Finish, server, accounts
<1>11. CASE UNCHANGED vars
  BY <1>11 DEF vars
<1>12. QED
  BY <1>1, <1>2, <1>3, <1>4, <1>5, <1>6, <1>7, <1>8, <1>9, <1>10, <1>11 DEF Next

\* Some element of a finite set has the least value.
LEMMA LeastExists ==
  ASSUME NEW S, IsFiniteSet(S), S # {}, NEW f, \A x \in S : f[x] \in Nat
  PROVE  \E x \in S : \A y \in S : f[x] <= f[y]
<1> DEFINE less(x) == {y \in S : f[y] < f[x]}
           T == {less(x) : x \in S}
<1>1. IsWellFoundedOn(StrictSubsetOrdering(S), SUBSET S)
  BY FS_StrictSubsetOrderingWellFounded, FS_FiniteSubsetsOfFinite
<1>2. T \subseteq SUBSET S /\ T # {}
  OBVIOUS
<1>3. \E A \in T : \A B \in T : ~(<<B, A>> \in StrictSubsetOrdering(S))
  <2> HIDE DEF T
  <2> QED BY <1>1, <1>2, WFMin
<1>4. PICK x \in S : \A y \in S : ~(<<less(y), less(x)>> \in StrictSubsetOrdering(S))
  BY <1>3
<1>5. ASSUME NEW y \in S, f[y] < f[x] PROVE FALSE
  <2>1. less(y) \subseteq less(x) /\ y \in less(x) /\ y \notin less(y)
    BY <1>5
  <2>2. <<less(y), less(x)>> \in (SUBSET S) \X (SUBSET S)
    OBVIOUS
  <2>3. QED BY <1>4, <2>1, <2>2 DEF StrictSubsetOrdering
<1>6. QED BY <1>5

\* When no throttler refuses, none is exceeded, and every one counts the request.
LEMMA NoRefuser ==
  ASSUME NEW client, NEW route, Refusers(client, route) = {}
  PROVE  /\ Exceeded(client, route) = {}
         /\ Charged(client, route) = Throttlers
<1>1. Exceeded(client, route) \subseteq Throttlers /\ IsFiniteSet(Exceeded(client, route))
  BY PipelineAssumption, FS_Subset DEF Exceeded
<1>2. \A k \in Exceeded(client, route) : Ttl[k] \in Nat
  BY <1>1, PipelineAssumption
<1>3. ASSUME Exceeded(client, route) # {} PROVE FALSE
  <2>1. PICK k \in Exceeded(client, route) :
          \A j \in Exceeded(client, route) : Ttl[k] <= Ttl[j]
    BY <1>1, <1>2, <1>3, LeastExists
  <2>2. QED BY <2>1 DEF Refusers
<1>4. QED BY <1>3 DEF Charged

\* What the step of the throttler adds to the hits.
LEMMA NewHit ==
  ASSUME IInv, NEW r \in Slots, Throttle(r)
  PROVE  \E g \in Hit :
           /\ hits' = hits \union {g} /\ now' = now
           /\ g \notin hits /\ g.id = Cardinality(hits) /\ g.at = now
           /\ g.refused = Refusers(g.client, g.route)
           /\ g.charged = Charged(g.client, g.route)
<1> DEFINE client == req[r].client
           route == req[r].route
           hit == [id |-> Cardinality(hits), client |-> client, route |-> route, at |-> now,
                   charged |-> Charged(client, route), refused |-> Refusers(client, route)]
<1>1. req[r] \in Request /\ now \in Nat /\ Cardinality(hits) \in Nat
  BY PipelineAssumption, FS_CardinalityType DEF Throttle, IInv, StagesFit, TypeOK
<1>2. hit \in Hit
  BY <1>1 DEF Hit, Request, Charged, Refusers, Exceeded
<1>3. hits' = hits \union {hit} /\ now' = now
  BY DEF Throttle
<1>4. hit \notin hits
  BY <1>1 DEF IInv, HitsInOrder
<1>5. QED BY <1>2, <1>3, <1>4

\* Every step keeps the hits in order.
LEMMA OrderStep ==
  ASSUME IInv, [Next]_vars
  PROVE  HitsInOrder'
<1> USE DEF IInv, HitsInOrder
<1>1. CASE hits' = hits /\ now' \in {now, now + 1}
  BY <1>1, PipelineAssumption DEF TypeOK, Hit
<1>2. ASSUME NEW r \in Slots, Throttle(r) PROVE HitsInOrder'
  <2>1. PICK g \in Hit :
          /\ hits' = hits \union {g} /\ now' = now
          /\ g \notin hits /\ g.id = Cardinality(hits) /\ g.at = now
          /\ g.refused = Refusers(g.client, g.route)
          /\ g.charged = Charged(g.client, g.route)
    BY <1>2, NewHit
  <2>2. Cardinality(hits') = Cardinality(hits) + 1 /\ Cardinality(hits) \in Nat
    BY <2>1, FS_AddElement, FS_CardinalityType DEF TypeOK
  <2>3. g.refused = {} => g.charged = Throttlers
    BY <2>1, NoRefuser
  <2>4. now \in Nat /\ \A h \in hits : h.id \in Nat
    BY PipelineAssumption DEF TypeOK, Hit
  <2>5. QED BY <2>1, <2>2, <2>3, <2>4
<1>3. QED
  BY <1>1, <1>2
  DEF Next, Refuse, Load, Listen, Tick, Change, Arrive, ValidateJwt, CheckRoles,
      Validate, Handle, Finish, vars

\* What one client got past the guard within a ttl, and what a refusal counted.
LEMMA LimitsStep ==
  ASSUME IInv, [Next]_vars
  PROVE  AdmittedWithinLimits' /\ RefusedBeyondLimit'
<1> USE DEF IInv
<1>1. CASE hits' = hits
  BY <1>1 DEF AdmittedWithinLimits, RefusedBeyondLimit, Passed, OwnBefore
<1>2. ASSUME NEW r \in Slots, Throttle(r) PROVE AdmittedWithinLimits' /\ RefusedBeyondLimit'
  <2>1. PICK g \in Hit :
          /\ hits' = hits \union {g} /\ now' = now
          /\ g \notin hits /\ g.id = Cardinality(hits) /\ g.at = now
          /\ g.refused = Refusers(g.client, g.route)
          /\ g.charged = Charged(g.client, g.route)
    BY <1>2, NewHit
  <2>2. /\ IsFiniteSet(hits) /\ IsFiniteSet(hits') /\ hits \subseteq Hit
        /\ now \in Nat /\ Cardinality(hits) \in Nat
    BY <2>1, FS_AddElement, FS_CardinalityType, PipelineAssumption DEF TypeOK
  <2>3. ASSUME NEW k \in Throttlers PROVE Ttl[k] \in Nat \ {0} /\ Limit[k] \in Nat \ {0}
    BY PipelineAssumption
  <2>4. ASSUME NEW k \in Throttlers, NEW c, NEW route, NEW t \in Nat,
               t <= now, g \in Passed(k, c, route, t)'
        PROVE  Cardinality(Passed(k, c, route, t)') <= Limit[k]
    <3>1. g.client = c /\ g.route = route /\ g.refused = {} /\ now < t + Ttl[k]
      BY <2>1, <2>4 DEF Passed
    <3>2. k \notin Exceeded(c, route)
      BY <2>1, <3>1, NoRefuser
    <3>3. Cardinality(Counted(k, c, route)) + 1 <= Limit[k]
      <4>1. Counted(k, c, route) \subseteq hits
        BY DEF Counted
      <4>2. Cardinality(Counted(k, c, route)) \in Nat
        BY <2>2, <4>1, FS_Subset, FS_CardinalityType
      <4>3. QED BY <2>3, <3>2, <4>2 DEF Exceeded
    <3>4. Passed(k, c, route, t)' \subseteq Counted(k, c, route) \union {g}
      BY <2>1, <2>2, <2>3, <3>1 DEF Passed, Counted, HitsInOrder, Hit
    <3>5. IsFiniteSet(Counted(k, c, route))
      BY <2>2, FS_Subset DEF Counted
    <3>6. /\ IsFiniteSet(Counted(k, c, route) \union {g})
          /\ Cardinality(Counted(k, c, route) \union {g}) <= Limit[k]
      <4>1. Cardinality(Counted(k, c, route)) \in Nat
        BY <3>5, FS_CardinalityType
      <4>2. /\ IsFiniteSet(Counted(k, c, route) \union {g})
            /\ Cardinality(Counted(k, c, route) \union {g}) <= Cardinality(Counted(k, c, route)) + 1
        <5> DEFINE counted == Counted(k, c, route)
        <5>1. /\ IsFiniteSet(counted \union {g})
              /\ Cardinality(counted \union {g}) =
                   IF g \in counted THEN Cardinality(counted) ELSE Cardinality(counted) + 1
          <6> HIDE DEF counted
          <6> QED BY <3>5, FS_AddElement DEF counted
        <5>2. QED BY <4>1, <5>1
      <4>3. Cardinality(Counted(k, c, route) \union {g}) \in Nat
        BY <4>2, FS_CardinalityType
      <4>4. QED BY <2>3, <3>3, <4>1, <4>2, <4>3
    <3>7. QED BY <2>3, <3>4, <3>6, FS_Subset, FS_CardinalityType
  <2>5. ASSUME NEW k \in Throttlers, NEW h \in hits'
        PROVE  Cardinality(Passed(k, h.client, h.route, h.at)') <= Limit[k]
    <3> DEFINE old == Passed(k, h.client, h.route, h.at)
               new == Passed(k, h.client, h.route, h.at)'
    <3>1. h.at \in Nat /\ h.at <= now
      BY <2>1, <2>2 DEF HitsInOrder, Hit
    <3>2. CASE g \in new
      BY <2>4, <3>1, <3>2
    <3>3. CASE g \notin new
      <4>1. new = old
        BY <2>1, <3>3 DEF Passed
      <4>2. CASE h \in hits
        BY <4>1, <4>2 DEF AdmittedWithinLimits
      <4>3. CASE h = g /\ old = {}
        BY <2>3, <4>1, <4>3, FS_EmptySet
      <4>4. ASSUME h = g, NEW p \in old PROVE Cardinality(new) <= Limit[k]
        <5>1. p \in hits /\ p.at = h.at /\ p.client = h.client /\ p.route = h.route
          BY <2>1, <2>2, <4>4 DEF Passed, HitsInOrder, Hit
        <5>2. QED BY <4>1, <5>1 DEF AdmittedWithinLimits
      <4>5. QED BY <2>1, <4>2, <4>3, <4>4
    <3>4. QED BY <3>2, <3>3
  <2>6. ASSUME NEW h \in hits', NEW k \in h.refused
        PROVE  Cardinality(OwnBefore(h, k)') > Limit[k]
    <3>1. CASE h \in hits
      <4>1. OwnBefore(h, k)' = OwnBefore(h, k)
        BY <2>1, <2>2, <3>1 DEF OwnBefore, HitsInOrder, Hit
      <4>2. QED BY <3>1, <4>1 DEF RefusedBeyondLimit
    <3>2. CASE h = g
      <4> DEFINE counted == Counted(k, g.client, g.route)
      <4>1. k \in Exceeded(g.client, g.route) /\ k \in Throttlers
        BY <2>1, <2>6, <3>2 DEF Refusers, Exceeded
      <4>2. counted \subseteq hits /\ IsFiniteSet(counted) /\ g \notin counted
        BY <2>1, <2>2, FS_Subset DEF Counted
      <4>3. counted \union {g} \subseteq OwnBefore(h, k)'
        BY <2>1, <2>2, <2>3, <3>2, <4>1, <4>2 DEF Counted, OwnBefore, HitsInOrder, Hit
      <4>4. OwnBefore(h, k)' \subseteq hits'
        BY DEF OwnBefore
      <4>5. IsFiniteSet(OwnBefore(h, k)')
        BY <2>2, <4>4, FS_Subset
      <4>6. Cardinality(counted \union {g}) = Cardinality(counted) + 1
        BY <4>2, FS_AddElement
      <4>7. Cardinality(counted \union {g}) <= Cardinality(OwnBefore(h, k)')
        BY <4>3, <4>5, FS_Subset
      <4>8. Cardinality(counted) + 1 > Limit[k]
        BY <4>1 DEF Exceeded
      <4>9. Cardinality(OwnBefore(h, k)') \in Nat /\ Cardinality(counted) \in Nat
        BY <4>2, <4>5, FS_CardinalityType
      <4>10. QED BY <2>3, <4>1, <4>6, <4>7, <4>8, <4>9
    <3>3. QED BY <2>1, <3>1, <3>2
  <2>7. QED BY <2>5, <2>6 DEF AdmittedWithinLimits, RefusedBeyondLimit
<1>3. QED
  BY <1>1, <1>2
  DEF Next, Refuse, Load, Listen, Tick, Change, Arrive, ValidateJwt, CheckRoles,
      Validate, Handle, Finish, vars

\* What StagesFit and HandlersReachedRightly say of one slot.
Stage(bt, fr, table, q, p, w, f, a) ==
  /\ bt # "listening" => p = "idle"
  /\ p # "idle" => q # None
  /\ a # 0 => p = "answered"
  /\ p \notin {"idle", "answered"} => q.route # "board"
  /\ Fit(q, table) => f
  /\ p = "roles" => (Admissible(w, q.route) => f) /\ w.active
  /\ p \in {"pipe", "handler"} /\ Guarded(q.route) => f
  /\ a = 200 /\ q.route = "board" => fr.board /\ fr.boardKey \in {"", q.key}
Here(s) == Stage(boot, front, rows, req[s], pc[s], who[s], fit[s], answer[s])

LEMMA StageOfSlots ==
  (StagesFit /\ HandlersReachedRightly) <=> \A s \in Slots : Here(s)
BY DEF StagesFit, HandlersReachedRightly, Here, Stage

\* A step of request r leaves the other slots and the server alone.
LEMMA OtherSlots ==
  ASSUME TypeOK, TypeOK', NEW r \in Slots, \A s \in Slots : Here(s),
         UNCHANGED <<boot, front, rows, req, fit>>,
         \A s \in Slots \ {r} : pc'[s] = pc[s] /\ who'[s] = who[s] /\ answer'[s] = answer[s],
         Stage(boot, front, rows, req[r], pc'[r], who'[r], fit[r], answer'[r])
  PROVE  \A s \in Slots : Here(s)'
BY DEF Here

\* Every step keeps what the stage of a request says.
LEMMA StagesStep ==
  ASSUME IInv, TypeOK', [Next]_vars
  PROVE  StagesFit' /\ HandlersReachedRightly'
<1> USE DEF IInv
<1>a. \A s \in Slots : Here(s)
  BY StageOfSlots
<1>b. ASSUME \A s \in Slots : Here(s)' PROVE StagesFit' /\ HandlersReachedRightly'
  <2>1. StagesFit'
    BY <1>b DEF StagesFit, Here, Stage
  <2>2. ASSUME NEW s \in Slots
        PROVE  /\ pc'[s] = "handler" /\ Guarded(req'[s].route) => fit'[s]
               /\ answer'[s] = 200 /\ req'[s].route = "board" =>
                    front'.board /\ front'.boardKey \in {"", req'[s].key}
    <3>1. Stage(boot', front', rows', req'[s], pc'[s], who'[s], fit'[s], answer'[s])
      BY <1>b DEF Here
    <3>2. QED BY <3>1 DEF Stage
  <2>3. QED BY <2>1, <2>2 DEF HandlersReachedRightly
<1>1. ASSUME Refuse \/ Load \/ Listen \/ Tick PROVE \A s \in Slots : Here(s)'
  <2>1. UNCHANGED <<rows, req, pc, who, fit, answer>>
    BY <1>1 DEF Refuse, Load, Listen, Tick, accounts
  <2>2. front' # front => boot # "listening"
    BY <1>1 DEF Refuse, Load, Listen, Tick, server
  <2>3. boot' # "listening" => boot # "listening"
    BY <1>1 DEF Refuse, Load, Listen, Tick, server
  <2>4. ASSUME NEW s \in Slots PROVE Here(s)'
    <3>1. Stage(boot, front, rows, req[s], pc[s], who[s], fit[s], answer[s])
      BY <1>a DEF Here
    <3>2. Stage(boot', front', rows, req[s], pc[s], who[s], fit[s], answer[s])
      <4>1. CASE boot = "listening"
        <5>1. boot' = boot /\ front' = front
          BY <2>2, <2>3, <4>1
        <5>2. QED BY <3>1, <5>1
      <4>2. CASE boot # "listening"
        <5>1. /\ pc[s] = "idle"
              /\ answer[s] # 0 => pc[s] = "answered"
              /\ Fit(req[s], rows) => fit[s]
          BY <3>1, <4>2 DEF Stage
        <5>2. answer[s] # 200
          BY <5>1
        <5>3. QED BY <5>1, <5>2 DEF Stage
      <4>3. QED BY <4>1, <4>2
    <3>3. QED BY <2>1, <3>2 DEF Here
  <2>5. QED BY <2>4
<1>2. ASSUME NEW u \in Users, Change(u) PROVE \A s \in Slots : Here(s)'
  <2>1. UNCHANGED <<boot, front, req, pc, who, answer>>
    BY <1>2 DEF Change, server
  <2>2. \A s \in Slots : fit'[s] = (fit[s] \/ Fit(req[s], rows'))
    BY <1>2 DEF Change
  <2>3. QED BY <1>a, <2>1, <2>2 DEF Here, Stage
<1>3. ASSUME NEW r \in Slots, Arrive(r) PROVE \A s \in Slots : Here(s)'
  <2>1. PICK q \in Offers : Arrived(r, q)
    BY <1>3, Arrival
  <2>2. UNCHANGED <<boot, front, rows, who>> /\ boot = "listening" /\ answer[r] = 0
    BY <1>a, <2>1 DEF Arrived, server, accounts, Here, Stage
  <2>3. q # None
    BY PipelineAssumption
  <2>4. ASSUME NEW s \in Slots, s # r PROVE Here(s)'
    <3>1. /\ req'[s] = req[s] /\ fit'[s] = fit[s] /\ pc'[s] = pc[s] /\ answer'[s] = answer[s]
      BY <2>1, <2>4 DEF Arrived, TypeOK
    <3>2. QED BY <1>a, <2>2, <3>1 DEF Here
  <2>5. Here(r)'
    <3>1. req'[r] = q /\ fit'[r] = Fit(q, rows)
      BY <2>1 DEF Arrived, TypeOK
    <3>2. \/ q.route # "board" /\ pc'[r] = "throttle" /\ answer'[r] = 0
          \/ /\ pc'[r] = "answered"
             /\ answer'[r] = 200 /\ q.route = "board" =>
                  front.board /\ front.boardKey \in {"", q.key}
      BY <2>1, <2>2 DEF Arrived, TypeOK
    <3>3. QED BY <2>2, <2>3, <3>1, <3>2 DEF Here, Stage
  <2>6. QED BY <2>4, <2>5
<1>4. ASSUME NEW r \in Slots, Throttle(r) PROVE \A s \in Slots : Here(s)'
  <2>1. UNCHANGED <<boot, front, rows, req, who, fit>> /\ pc[r] = "throttle"
    BY <1>4 DEF Throttle, server, accounts
  <2>2. \/ /\ pc' = [pc EXCEPT ![r] = "answered"]
           /\ answer' = [answer EXCEPT ![r] = StatusOf("Throttler")]
        \/ pc' = [pc EXCEPT ![r] = "jwt"] /\ answer' = answer
        \/ pc' = [pc EXCEPT ![r] = "pipe"] /\ answer' = answer /\ ~Guarded(req[r].route)
    BY <1>4 DEF Throttle, Throw, Reply, Goto
  <2>3. \/ pc'[r] = "answered" /\ answer'[r] # 200
        \/ pc'[r] = "jwt" /\ answer'[r] = answer[r]
        \/ pc'[r] = "pipe" /\ answer'[r] = answer[r] /\ ~Guarded(req[r].route)
    BY <2>2, StatusIsError DEF TypeOK
  <2>4. Stage(boot, front, rows, req[r], pc'[r], who'[r], fit[r], answer'[r])
    BY <1>a, <2>1, <2>3 DEF Here, Stage
  <2>5. \A s \in Slots \ {r} : pc'[s] = pc[s] /\ who'[s] = who[s] /\ answer'[s] = answer[s]
    BY <2>1, <2>2 DEF TypeOK
  <2>6. QED BY <1>a, <2>1, <2>4, <2>5, OtherSlots
<1>5. ASSUME NEW r \in Slots, ValidateJwt(r) PROVE \A s \in Slots : Here(s)'
  <2>1. UNCHANGED <<boot, front, rows, req, fit>> /\ pc[r] = "jwt"
    BY <1>5 DEF ValidateJwt, server, accounts
  <2>2. \/ /\ pc' = [pc EXCEPT ![r] = "answered"] /\ who' = who
           /\ \E e : answer' = [answer EXCEPT ![r] = StatusOf(e)]
        \/ /\ pc' = [pc EXCEPT ![r] = "roles"] /\ answer' = answer
           /\ req[r].bearer # None /\ rows[req[r].bearer].active
           /\ who' = [who EXCEPT ![r] = rows[req[r].bearer]]
    BY <1>5 DEF ValidateJwt, Throw, Reply, Goto
  <2>3. \/ pc'[r] = "answered" /\ who'[r] = who[r] /\ answer'[r] # 200
        \/ /\ pc'[r] = "roles" /\ answer'[r] = answer[r]
           /\ req[r].bearer # None /\ rows[req[r].bearer].active
           /\ who'[r] = rows[req[r].bearer]
    BY <2>2, StatusIsError DEF TypeOK
  <2>4. Stage(boot, front, rows, req[r], pc'[r], who'[r], fit[r], answer'[r])
    <3>1. Fit(req[r], rows) => fit[r]
      BY <1>a DEF Here, Stage
    <3>2. pc'[r] = "roles" /\ Admissible(who'[r], req[r].route) => fit[r]
      BY <1>a, <2>1, <2>3, <3>1 DEF Here, Stage, Fit
    <3>3. QED BY <1>a, <2>1, <2>3, <3>2 DEF Here, Stage
  <2>5. \A s \in Slots \ {r} : pc'[s] = pc[s] /\ who'[s] = who[s] /\ answer'[s] = answer[s]
    BY <2>2 DEF TypeOK
  <2>6. QED BY <1>a, <2>1, <2>4, <2>5, OtherSlots
<1>6. ASSUME NEW r \in Slots, CheckRoles(r) PROVE \A s \in Slots : Here(s)'
  <2>1. UNCHANGED <<boot, front, rows, req, who, fit>> /\ pc[r] = "roles"
    BY <1>6 DEF CheckRoles, server, accounts
  <2>2. \/ /\ pc' = [pc EXCEPT ![r] = "answered"]
           /\ answer' = [answer EXCEPT ![r] = StatusOf("Forbidden")]
        \/ /\ pc' = [pc EXCEPT ![r] = "pipe"] /\ answer' = answer
           /\ \/ RequiredRoles(req[r].route) = {}
              \/ who[r].role \in RequiredRoles(req[r].route)
    BY <1>6 DEF CheckRoles, Throw, Reply, Goto
  <2>3. pc'[r] = "pipe" => fit[r]
    <3>1. (Admissible(who[r], req[r].route) => fit[r]) /\ who[r].active /\ who[r] # None
      BY <1>a, <2>1 DEF Here, Stage, TypeOK
    <3>2. QED BY <2>2, <3>1 DEF Admissible, TypeOK
  <2>4. \/ pc'[r] = "answered" /\ answer'[r] # 200
        \/ pc'[r] = "pipe" /\ answer'[r] = answer[r]
    BY <2>2, StatusIsError DEF TypeOK
  <2>5. Stage(boot, front, rows, req[r], pc'[r], who'[r], fit[r], answer'[r])
    BY <1>a, <2>1, <2>3, <2>4 DEF Here, Stage
  <2>6. \A s \in Slots \ {r} : pc'[s] = pc[s] /\ who'[s] = who[s] /\ answer'[s] = answer[s]
    BY <2>1, <2>2 DEF TypeOK
  <2>7. QED BY <1>a, <2>1, <2>5, <2>6, OtherSlots
<1>7. ASSUME NEW r \in Slots, Validate(r) \/ Handle(r) PROVE \A s \in Slots : Here(s)'
  <2>1. UNCHANGED <<boot, front, rows, req, who, fit>> /\ pc[r] \in {"pipe", "handler"}
    BY <1>7 DEF Validate, Handle, server, accounts
  <2>2. \/ /\ pc' = [pc EXCEPT ![r] = "answered"]
           /\ \E n : answer' = [answer EXCEPT ![r] = n]
        \/ pc[r] = "pipe" /\ pc' = [pc EXCEPT ![r] = "handler"] /\ answer' = answer
    BY <1>7 DEF Validate, Handle, Throw, Reply, Goto
  <2>3. \/ pc'[r] = "answered"
        \/ pc[r] = "pipe" /\ pc'[r] = "handler" /\ answer'[r] = answer[r]
    BY <2>2 DEF TypeOK
  <2>4. Stage(boot, front, rows, req[r], pc'[r], who'[r], fit[r], answer'[r])
    BY <1>a, <2>1, <2>3 DEF Here, Stage
  <2>5. \A s \in Slots \ {r} : pc'[s] = pc[s] /\ who'[s] = who[s] /\ answer'[s] = answer[s]
    BY <2>1, <2>2 DEF TypeOK
  <2>6. QED BY <1>a, <2>1, <2>4, <2>5, OtherSlots
<1>8. ASSUME NEW r \in Slots, Finish(r) PROVE \A s \in Slots : Here(s)'
  <2>1. UNCHANGED <<boot, front, rows>>
    BY <1>8 DEF Finish, server, accounts
  <2>2. /\ req'[r] = None /\ pc'[r] = "idle" /\ who'[r] = None
        /\ fit'[r] = FALSE /\ answer'[r] = 0
    BY <1>8 DEF Finish, TypeOK
  <2>3. Here(r)'
    BY <2>1, <2>2 DEF Here, Stage, Fit
  <2>4. ASSUME NEW s \in Slots, s # r PROVE Here(s)'
    <3>1. /\ req'[s] = req[s] /\ pc'[s] = pc[s] /\ who'[s] = who[s]
          /\ fit'[s] = fit[s] /\ answer'[s] = answer[s]
      BY <1>8, <2>4 DEF Finish, TypeOK
    <3>2. QED BY <1>a, <2>1, <3>1 DEF Here
  <2>5. QED BY <2>3, <2>4
<1>9. ASSUME UNCHANGED vars PROVE \A s \in Slots : Here(s)'
  BY <1>9, <1>a DEF vars, Here
<1>10. QED
  BY <1>b, <1>1, <1>2, <1>3, <1>4, <1>5, <1>6, <1>7, <1>8, <1>9 DEF Next

-----------------------------------------------------------------------------
LEMMA InitIInv ==
  ASSUME Init
  PROVE  IInv
<1> USE PipelineAssumption DEF Init
<1>1. TypeOK
  BY FS_EmptySet DEF TypeOK
<1>2. HitsInOrder /\ AdmittedWithinLimits /\ RefusedBeyondLimit
  BY DEF HitsInOrder, AdmittedWithinLimits, RefusedBeyondLimit
<1>3. StagesFit /\ HandlersReachedRightly
  BY DEF StagesFit, HandlersReachedRightly, Fit
<1>4. QED BY <1>1, <1>2, <1>3 DEF IInv

LEMMA StepIInv ==
  ASSUME IInv, [Next]_vars
  PROVE  IInv'
BY TypeStep, OrderStep, LimitsStep, StagesStep DEF IInv

\* The inductive invariant of the pipeline holds in every reachable state.
THEOREM PipelineInvariant == Spec => []IInv
BY InitIInv, StepIInv, PTL DEF Spec

\* The variables of the pipeline keep their types.
THEOREM PipelineType == Spec => []TypeOK
<1>1. IInv => TypeOK
  BY DEF IInv
<1>2. QED BY PipelineInvariant, <1>1, PTL

\* No client gets more requests past the guard within a ttl than the limit, for any
\* throttlers and with whichever hit the ttl begins (security.module.ts).
THEOREM LimitsHold == Spec => []AdmittedWithinLimits
<1>1. IInv => AdmittedWithinLimits
  BY DEF IInv
<1>2. QED BY PipelineInvariant, <1>1, PTL

\* Whoever is refused has sent more than the limit to that route within the ttl.
THEOREM RefusalsEarned == Spec => []RefusedBeyondLimit
<1>1. IInv => RefusedBeyondLimit
  BY DEF IInv
<1>2. QED BY PipelineInvariant, <1>1, PTL

\* Handlers run only for callers that were fit for the route at one moment of the
\* request (jwt.strategy.ts, roles.guard.ts).
THEOREM HandlersGuarded == Spec => []HandlersReachedRightly
<1>1. IInv => HandlersReachedRightly
  BY DEF IInv
<1>2. QED BY PipelineInvariant, <1>1, PTL

-----------------------------------------------------------------------------
(* Who is refused.                                                            *)

LEMMA Quotients ==
  ASSUME NEW T \in Nat \ {0}, NEW x \in Nat
  PROVE  /\ x \div T \in Nat
         /\ x < T => x \div T = 0
         /\ x >= T => ((x - T) \div T) + 1 = x \div T
         /\ \A y \in Nat : y <= x => y \div T <= x \div T
OBVIOUS

LEMMA Products ==
  ASSUME NEW L \in Nat, NEW p \in Nat, NEW q \in Nat, p <= q
  PROVE  L * (p + 1) \in Nat /\ L * (p + 1) <= L * (q + 1)
         /\ L * p \in Nat /\ L * (p + 1) = L * p + L
<1>1. PICK d \in Nat : q = p + d
  BY q - p \in Nat
<1>2. L * (q + 1) = L * (p + 1) + L * d /\ L * d \in Nat /\ L * (p + 1) \in Nat
  BY <1>1
<1>3. L * p \in Nat /\ L * (p + 1) = L * p + L
  OBVIOUS
<1>4. QED BY <1>2, <1>3

LEMMA BetweenFinite ==
  ASSUME IInv, NEW c, NEW route, NEW t, NEW e
  PROVE  /\ IsFiniteSet(Between(c, route, t, e)) /\ Cardinality(Between(c, route, t, e)) \in Nat
         /\ \A k : IsFiniteSet(Counted(k, c, route)) /\ Cardinality(Counted(k, c, route)) \in Nat
<1>1. IsFiniteSet(hits)
  BY DEF IInv, TypeOK
<1>2. Between(c, route, t, e) \subseteq hits /\ \A k : Counted(k, c, route) \subseteq hits
  BY DEF Between, Counted
<1>3. QED BY <1>1, <1>2, FS_Subset, FS_CardinalityType

\* A throttler that would let another request pass has room for it in any time up to now.
LEMMA RoomUpToNow ==
  ASSUME IInv, WindowsWithin, NEW k \in Throttlers, NEW c \in Clients, NEW route \in Routes,
         k \notin Exceeded(c, route), NEW t \in 0..now
  PROVE  Cardinality(Between(c, route, t, now)) + 1 <= Limit[k] * (((now - t) \div Ttl[k]) + 1)
<1> DEFINE L == Limit[k]
           T == Ttl[k]
           B == Between(c, route, t, now)
           C == Counted(k, c, route)
           q == (now - t) \div T
<1>1. /\ L \in Nat \ {0} /\ T \in Nat \ {0} /\ now \in Nat /\ t \in Nat /\ t <= now
      /\ hits \subseteq Hit
  BY PipelineAssumption DEF IInv, TypeOK
<1>2. /\ IsFiniteSet(B) /\ Cardinality(B) \in Nat
      /\ IsFiniteSet(C) /\ Cardinality(C) \in Nat
  BY BetweenFinite
<1>3. Cardinality(C) + 1 <= L
  BY <1>1, <1>2 DEF Exceeded
<1>4. \A h \in B : h.at > now - T => h \in C
  BY <1>1 DEF Between, Counted, IInv, HitsInOrder
<1>5. /\ q \in Nat
      /\ now - t < T => q = 0
      /\ now - t >= T => ((now - t - T) \div T) + 1 = q
  <2> DEFINE x == now - t
  <2>1. x \in Nat /\ T \in Nat \ {0}
    BY <1>1
  <2> HIDE DEF x, T
  <2>2. /\ x \div T \in Nat
        /\ x < T => x \div T = 0
        /\ x >= T => ((x - T) \div T) + 1 = x \div T
    BY <2>1, Quotients
  <2>3. QED BY <2>2 DEF x, T
<1>6. CASE now - t < T
  <2>1. \A h \in B : h.at \in Nat /\ h.at >= t
    BY <1>1 DEF Between
  <2>2. B \subseteq C
    BY <1>1, <1>4, <1>6, <2>1
  <2>3. Cardinality(B) <= Cardinality(C)
    BY <1>2, <2>2, FS_Subset
  <2>4. q = 0
    BY <1>5, <1>6
  <2> HIDE DEF B, C, q
  <2>5. L * (q + 1) = L
    BY <1>1, <2>4
  <2>6. QED BY <1>1, <1>2, <1>3, <2>3, <2>5 DEF B, q
<1>7. CASE now - t >= T
  <2> DEFINE e == now - T
             A == Between(c, route, t, e)
  <2>1. e \in 0..now /\ t \in 0..e /\ e - t = now - t - T
    BY <1>1, <1>7
  <2>2. Cardinality(A) <= L * (((e - t) \div T) + 1)
    BY <2>1 DEF WindowsWithin
  <2>3. ((e - t) \div T) + 1 = q
    BY <1>5, <1>7, <2>1
  <2>4. IsFiniteSet(A) /\ Cardinality(A) \in Nat
    BY BetweenFinite
  <2>5. \A h \in B : h \in A \union C
    <3> SUFFICES ASSUME NEW h \in B, ~(h.at > now - T) PROVE h \in A
      BY <1>4
    <3>1. h.at \in Nat /\ h.at >= t /\ h.at <= e
      BY <1>1 DEF Between
    <3>2. h.at \in t..e
      BY <1>1, <2>1, <3>1
    <3>3. QED BY <3>2 DEF Between
  <2> HIDE DEF A, B, C, e, q
  <2>6. /\ IsFiniteSet(A \union C)
        /\ Cardinality(A \union C) = Cardinality(A) + Cardinality(C) - Cardinality(A \intersect C)
    BY <1>2, <2>4, FS_Union
  <2>7. Cardinality(A \intersect C) \in Nat
    BY <2>4, FS_Subset, FS_CardinalityType
  <2>8. Cardinality(B) <= Cardinality(A \union C)
    BY <2>5, <2>6, FS_Subset
  <2>9. Cardinality(A) <= L * q
    BY <2>2, <2>3
  <2>10. L * (q + 1) = L * q + L /\ L * q \in Nat
    <3>1. L \in Nat /\ q \in Nat /\ q <= q
      BY <1>1, <1>5
    <3> HIDE DEF L
    <3>2. QED BY <3>1, Products
  <2>11. QED BY <1>1, <1>2, <1>3, <2>4, <2>6, <2>7, <2>8, <2>9, <2>10 DEF B, q
<1>8. QED BY <1>1, <1>6, <1>7

\* Steps other than those of the throttler count nothing.
LEMMA HitsKept ==
  ASSUME IInv, [Next]_vars
  PROVE  (hits' = hits /\ now' \in {now, now + 1}) \/ \E r \in Slots : Throttle(r)
BY DEF Next, Refuse, Load, Listen, Tick, Change, Arrive, ValidateJwt, CheckRoles,
       Validate, Handle, Finish, vars, IInv, TypeOK

LEMMA WindowsStep ==
  ASSUME IInv, WindowsWithin, [Next]_vars
  PROVE  WindowsWithin'
<1> SUFFICES ASSUME NEW k \in Throttlers, NEW c \in Clients, NEW route \in Routes,
                    NEW e \in 0..now', NEW t \in 0..e
             PROVE  Cardinality(Between(c, route, t, e)') <= Limit[k] * (((e - t) \div Ttl[k]) + 1)
  BY DEF WindowsWithin
<1> DEFINE old == Between(c, route, t, e)
           new == Between(c, route, t, e)'
           bound == Limit[k] * (((e - t) \div Ttl[k]) + 1)
<1>1. /\ now \in Nat /\ Limit[k] \in Nat \ {0} /\ Ttl[k] \in Nat \ {0}
      /\ hits \subseteq Hit /\ \A h \in hits : h.at \in Nat /\ h.at <= now
  BY PipelineAssumption DEF IInv, TypeOK, HitsInOrder, Hit
<1>2. e <= now => Cardinality(old) <= bound
  BY <1>1 DEF WindowsWithin
<1>3. CASE hits' = hits /\ now' \in {now, now + 1}
  <2>1. new = old
    BY <1>3 DEF Between
  <2>2. CASE e <= now
    BY <1>2, <2>1, <2>2
  <2>3. CASE e = now + 1 /\ t <= now
    <3>1. old = Between(c, route, t, now)
      BY <1>1, <2>3 DEF Between
    <3>2. Cardinality(old) <= Limit[k] * (((now - t) \div Ttl[k]) + 1)
      BY <1>1, <2>3, <3>1 DEF WindowsWithin
    <3> DEFINE p == (now - t) \div Ttl[k]
               q == (e - t) \div Ttl[k]
    <3>3. now - t \in Nat /\ e - t \in Nat /\ now - t <= e - t
      BY <1>1, <2>3
    <3>4. p \in Nat /\ q \in Nat /\ p <= q
      <4> DEFINE x == now - t
                 y == e - t
      <4> HIDE DEF x, y
      <4>1. x \div Ttl[k] \in Nat /\ y \div Ttl[k] \in Nat /\ x \div Ttl[k] <= y \div Ttl[k]
        BY <1>1, <3>3, Quotients DEF x, y
      <4>2. QED BY <4>1 DEF x, y
    <3> HIDE DEF p, q
    <3>5. Limit[k] * (p + 1) \in Nat /\ Limit[k] * (q + 1) \in Nat
          /\ Limit[k] * (p + 1) <= Limit[k] * (q + 1)
      BY <1>1, <3>4, Products
    <3>6. Cardinality(old) \in Nat
      BY BetweenFinite
    <3> HIDE DEF old
    <3>7. Cardinality(old) <= Limit[k] * (q + 1)
      BY <3>2, <3>5, <3>6 DEF p
    <3>8. QED BY <2>1, <3>7 DEF q
  <2>4. CASE e = now + 1 /\ t = e
    <3>1. new = {}
      BY <1>1, <2>1, <2>4 DEF Between
    <3>2. Cardinality(new) = 0
      BY <3>1, FS_EmptySet
    <3>3. e - t = 0 /\ (e - t) \div Ttl[k] = 0
      BY <1>1, <2>4, Quotients
    <3>4. QED BY <1>1, <3>2, <3>3
  <2>5. QED BY <1>1, <1>3, <2>2, <2>3, <2>4
<1>4. ASSUME NEW r \in Slots, Throttle(r) PROVE Cardinality(new) <= bound
  <2>1. PICK g \in Hit :
          /\ hits' = hits \union {g} /\ now' = now
          /\ g \notin hits /\ g.id = Cardinality(hits) /\ g.at = now
          /\ g.refused = Refusers(g.client, g.route)
          /\ g.charged = Charged(g.client, g.route)
    BY <1>4, NewHit
  <2>2. e <= now
    BY <1>1, <2>1
  <2>3. CASE g \notin new
    <3>1. new = old
      BY <2>1, <2>3 DEF Between
    <3>2. QED BY <1>2, <2>2, <3>1
  <2>4. CASE g \in new
    <3>1. g.client = c /\ g.route = route /\ g.refused = {} /\ e = now
      BY <1>1, <2>1, <2>2, <2>4 DEF Between
    <3>2. k \notin Exceeded(c, route)
      BY <2>1, <3>1, NoRefuser
    <3>3. Cardinality(old) + 1 <= bound
      BY <3>1, <3>2, RoomUpToNow
    <3>4. IsFiniteSet(old) /\ Cardinality(old) \in Nat
      BY BetweenFinite
    <3>5. new = old \union {g} /\ g \notin old
      BY <2>1, <2>4 DEF Between
    <3> HIDE DEF old, new
    <3>6. Cardinality(new) = Cardinality(old) + 1
      BY <3>4, <3>5, FS_AddElement
    <3>7. QED BY <3>3, <3>6
  <2>5. QED BY <2>3, <2>4
<1>5. QED BY <1>3, <1>4, HitsKept

\* With limits in proportion, when a longer throttler is full so is the shortest.
LEMMA ShortestRefuses ==
  ASSUME Proportionate, IInv, RefusalInv, NEW c \in Clients, NEW route \in Routes
  PROVE  Refusers(c, route) \subseteq Shortest
<1> SUFFICES ASSUME NEW k \in Refusers(c, route), k \notin Shortest PROVE FALSE
  OBVIOUS
<1>1. k \in Throttlers /\ k \in Exceeded(c, route) /\ \A j \in Exceeded(c, route) : Ttl[k] <= Ttl[j]
  BY DEF Refusers, Exceeded
<1>2. \A j \in Throttlers : Ttl[j] \in Nat \ {0} /\ Limit[j] \in Nat \ {0}
  BY PipelineAssumption
<1>3. PICK s \in Throttlers : \A j \in Throttlers : Ttl[s] <= Ttl[j]
  BY <1>1, <1>2, PipelineAssumption, LeastExists
<1>4. s \in Shortest /\ Ttl[s] < Ttl[k]
  BY <1>1, <1>2, <1>3 DEF Shortest
<1>5. s \notin Exceeded(c, route)
  BY <1>1, <1>2, <1>4
<1>6. /\ now \in Nat /\ hits \subseteq Hit /\ \A h \in hits : h.at \in Nat /\ h.at <= now
  BY PipelineAssumption DEF IInv, TypeOK, HitsInOrder, Hit
<1> DEFINE t == IF now < Ttl[k] THEN 0 ELSE now - Ttl[k] + 1
           x == now - t
           y == Ttl[k] - 1
           B == Between(c, route, t, now)
           C == Counted(k, c, route)
<1>7. t \in 0..now /\ x \in Nat /\ y \in Nat /\ x <= y
  BY <1>1, <1>2, <1>6
<1>8. C \subseteq B
  <2> SUFFICES ASSUME NEW h \in C PROVE h \in B
    OBVIOUS
  <2>1. /\ h \in hits /\ h.client = c /\ h.route = route
        /\ k \in h.charged /\ h.at > now - Ttl[k]
    BY DEF Counted
  <2>2. h.at \in t..now
    BY <1>1, <1>2, <1>6, <2>1
  <2>3. h.refused = {}
    <3> SUFFICES ASSUME NEW j \in h.refused PROVE FALSE
      OBVIOUS
    <3>1. j \in Shortest /\ Ttl[k] <= Ttl[j]
      BY <2>1 DEF RefusalInv, ChargedUpToRefuser
    <3>2. j \in Throttlers /\ Ttl[j] <= Ttl[s]
      BY <1>3, <3>1 DEF Shortest
    <3>3. QED BY <1>1, <1>2, <1>4, <3>1, <3>2
  <2>4. QED BY <2>1, <2>2, <2>3 DEF Between
<1>9. /\ IsFiniteSet(B) /\ Cardinality(B) \in Nat /\ Cardinality(C) \in Nat
  BY BetweenFinite
<1>10. Cardinality(B) + 1 <= Limit[s] * ((x \div Ttl[s]) + 1)
  BY <1>5, <1>7, RoomUpToNow DEF RefusalInv
<1>11. Limit[s] * ((y \div Ttl[s]) + 1) <= Limit[k]
  BY <1>1, <1>4 DEF Proportionate
<1>12. Cardinality(C) + 1 > Limit[k]
  BY <1>1 DEF Exceeded
<1> HIDE DEF t, x, y, B, C
<1>13. x \div Ttl[s] \in Nat /\ y \div Ttl[s] \in Nat /\ x \div Ttl[s] <= y \div Ttl[s]
  BY <1>2, <1>7, Quotients
<1>14. /\ Limit[s] * ((x \div Ttl[s]) + 1) \in Nat /\ Limit[s] * ((y \div Ttl[s]) + 1) \in Nat
       /\ Limit[s] * ((x \div Ttl[s]) + 1) <= Limit[s] * ((y \div Ttl[s]) + 1)
  BY <1>2, <1>13, Products
<1>15. Cardinality(C) <= Cardinality(B)
  BY <1>8, <1>9, FS_Subset
<1>16. QED BY <1>1, <1>2, <1>9, <1>10, <1>11, <1>12, <1>14, <1>15

LEMMA RefusalStep ==
  ASSUME Proportionate, IInv, RefusalInv, [Next]_vars
  PROVE  RefusalInv'
<1>1. WindowsWithin'
  BY WindowsStep DEF RefusalInv
<1>2. CASE hits' = hits
  BY <1>1, <1>2 DEF RefusalInv, ChargedUpToRefuser
<1>3. ASSUME NEW r \in Slots, Throttle(r) PROVE RefusalInv'
  <2>1. PICK g \in Hit :
          /\ hits' = hits \union {g} /\ now' = now
          /\ g \notin hits /\ g.id = Cardinality(hits) /\ g.at = now
          /\ g.refused = Refusers(g.client, g.route)
          /\ g.charged = Charged(g.client, g.route)
    BY <1>3, NewHit
  <2>2. \A j \in g.refused, k \in g.charged : Ttl[k] <= Ttl[j]
    BY <2>1 DEF Charged
  <2>3. g.refused \subseteq Shortest
    BY <2>1, ShortestRefuses DEF Hit
  <2>4. QED BY <1>1, <2>1, <2>2, <2>3 DEF RefusalInv, ChargedUpToRefuser
<1>4. QED BY <1>2, <1>3, HitsKept

LEMMA InitRefusal ==
  ASSUME Init
  PROVE  RefusalInv
<1>1. \A c, route, t, e : Between(c, route, t, e) = {}
  BY DEF Init, Between
<1>2. WindowsWithin
  <2> SUFFICES ASSUME NEW k \in Throttlers, NEW c \in Clients, NEW route \in Routes
               PROVE  Cardinality(Between(c, route, 0, 0)) <= Limit[k] * (((0 - 0) \div Ttl[k]) + 1)
    BY DEF Init, WindowsWithin
  <2>1. Limit[k] \in Nat /\ (0 - 0) \div Ttl[k] = 0
    <3>1. Limit[k] \in Nat /\ Ttl[k] \in Nat \ {0} /\ 0 - 0 = 0
      BY PipelineAssumption
    <3>2. \A T \in Nat \ {0} : 0 \div T = 0
      OBVIOUS
    <3>3. QED BY <3>1, <3>2
  <2>2. Cardinality(Between(c, route, 0, 0)) = 0
    BY <1>1, FS_EmptySet
  <2>3. QED BY <2>1, <2>2
<1>3. QED BY <1>2 DEF Init, RefusalInv, ChargedUpToRefuser

\* In any span of time a client gets no more requests to a route past the guard than
\* the limit for every ttl begun, whatever the limits of the throttlers.
THEOREM SpansLimited == Spec => []WindowsWithin
<1>1. Init => WindowsWithin
  BY InitRefusal DEF RefusalInv
<1>2. IInv /\ WindowsWithin /\ [Next]_vars => WindowsWithin'
  BY WindowsStep
<1>3. QED BY <1>1, <1>2, PipelineInvariant, PTL DEF Spec

\* When what the shortest throttler lets pass in the ttl of another stays within that
\* one's limit, only the shortest ever refuses, and only for the client's own hits on
\* the route within its ttl.
THEOREM OnlyTheShortestRefuses ==
  ASSUME Proportionate
  PROVE  Spec => []RefusalsJustified
<1>1. Init => RefusalInv
  BY InitRefusal
<1>2. IInv /\ RefusalInv /\ [Next]_vars => RefusalInv'
  BY RefusalStep
<1>3. IInv /\ RefusalInv => RefusalsJustified
  BY DEF IInv, RefusalInv, RefusalsJustified
<1>4. QED BY <1>1, <1>2, <1>3, PipelineInvariant, PTL DEF Spec

\* The throttlers of security.module.ts are in proportion: of 100 requests in a minute
\* and 1000 in ten, 10 in ten seconds allow 60 and 600.
LEMMA SecurityModuleProportionate ==
  ASSUME Throttlers = {"short", "default", "long"},
         Ttl = [k \in Throttlers |-> CASE k = "short"   -> 10000
                                       [] k = "default" -> 60000
                                       [] OTHER         -> 600000],
         Limit = [k \in Throttlers |-> CASE k = "short"   -> 10
                                         [] k = "default" -> 100
                                         [] OTHER         -> 1000]
  PROVE  Proportionate
<1>1. Shortest = {"short"}
  BY DEF Shortest
<1>2. 9999 \div 10000 = 0 /\ 59999 \div 10000 = 5 /\ 599999 \div 10000 = 59
  OBVIOUS
<1>3. QED BY <1>1, <1>2 DEF Proportionate

-----------------------------------------------------------------------------
(* The settings.                                                              *)

\* A known variable that the file may set is, after the start, what was asked for:
\* as a text if the process has it, and else as a value.
LEMMA KnownVariable ==
  ASSUME NEW e, NEW v \in Known \ FromProcessOnly
  PROVE  /\ v \in DOMAIN ProcessEnv(e) =>
              ProcessEnv(e)[v] = IF v \in DOMAIN e.proc THEN Asked(e, v) ELSE Intended(e, v)
         /\ v \notin DOMAIN ProcessEnv(e) => Asked(e, v) = ""
<1> DEFINE merged == Merged(e)
           checked == Checked(e)
           valid == Validated(e)
<1>1. /\ DOMAIN merged = DOMAIN e.proc \union DOMAIN e.file
      /\ v \in DOMAIN merged => merged[v] = IF v \in DOMAIN e.proc THEN e.proc[v] ELSE e.file[v]
  BY DEF Merged, Over
<1>2. /\ DOMAIN checked = Known \intersect DOMAIN merged
      /\ v \in DOMAIN merged => checked[v] = Converted(v, merged[v])
  BY DEF Checked
<1>3. /\ DOMAIN valid = (Known \intersect DOMAIN merged) \union DOMAIN Default
      /\ v \in DOMAIN merged => valid[v] = Converted(v, merged[v])
      /\ v \in DOMAIN Default \ DOMAIN merged => valid[v] = Default[v]
  <2> HIDE DEF merged, checked
  <2>1. valid = Over(checked, Default)
    BY DEF Validated, checked
  <2>2. QED BY <1>2, <2>1 DEF Over
<1>4. /\ DOMAIN ProcessEnv(e) = DOMAIN e.proc \union DOMAIN valid
      /\ v \in DOMAIN ProcessEnv(e) =>
           ProcessEnv(e)[v] = IF v \in DOMAIN e.proc THEN e.proc[v] ELSE valid[v]
  BY DEF ProcessEnv, Over
<1>5. CASE v \in DOMAIN e.proc
  BY <1>4, <1>5 DEF Asked
<1>6. CASE v \in DOMAIN e.file \ DOMAIN e.proc
  <2>1. Asked(e, v) = e.file[v]
    BY <1>6 DEF Asked
  <2>2. QED BY <1>1, <1>3, <1>4, <1>6, <2>1 DEF Intended
<1>7. CASE v \in DOMAIN Default \ (DOMAIN e.proc \union DOMAIN e.file)
  <2>1. Asked(e, v) = Default[v]
    BY <1>7 DEF Asked
  <2>2. Intended(e, v) = Default[v]
    BY <1>7, <2>1, NumbersAssumption DEF Intended, Converted, ReadBy
  <2>3. QED BY <1>1, <1>3, <1>4, <1>7, <2>1, <2>2
<1>8. CASE v \notin DOMAIN Default \union DOMAIN e.proc \union DOMAIN e.file
  <2>1. Asked(e, v) = ""
    BY <1>8 DEF Asked
  <2>2. QED BY <1>1, <1>3, <1>4, <1>8, <2>1
<1>9. QED BY <1>5, <1>6, <1>7, <1>8

\* What a text means is a text like it, and one that parseInt reads as it is.
LEMMA IntendedValue ==
  ASSUME NEW e, NEW v
  PROVE  /\ Intended(e, v) = "" <=> Asked(e, v) = ""
         /\ v \in Numeric => ParseInt(Intended(e, v)) = Intended(e, v)
         /\ v \notin Numeric => Intended(e, v) = Asked(e, v)
BY NumbersAssumption DEF Intended, Converted, ReadBy, ParseInt

\* A setting that somebody asked for is taken as it was meant, unless it is misread
\* or replaced.
LEMMA TakenAsIntended ==
  ASSUME NEW e, NEW v \in Known \ FromProcessOnly, Asked(e, v) # "", ~Misread(e, v)
  PROVE  LET p == ProcessEnv(e)
         IN  /\ v \in DOMAIN p /\ Given(p, v)
             /\ v \notin Numeric => p[v] = Intended(e, v)
             /\ v \in Numeric => ParseInt(p[v]) = Intended(e, v)
<1> DEFINE p == ProcessEnv(e)
<1>1. /\ v \in DOMAIN p
      /\ p[v] = IF v \in DOMAIN e.proc THEN Asked(e, v) ELSE Intended(e, v)
  BY KnownVariable
<1> HIDE DEF p
<1>2. p[v] # ""
  BY <1>1, IntendedValue
<1>3. v \notin Numeric => p[v] = Intended(e, v)
  BY <1>1, IntendedValue
<1>4. v \in DOMAIN e.proc => Asked(e, v) = e.proc[v]
  BY DEF Asked
<1>5. v \in Numeric => ParseInt(p[v]) = Intended(e, v)
  BY <1>1, <1>4, IntendedValue DEF Misread
<1>6. QED BY <1>1, <1>2, <1>3, <1>5 DEF Given, p

\* A variable that may not be empty, and is required or has a default, is not.
LEMMA NeverEmpty ==
  ASSUME NEW e, Bootable(e), NEW v \in Known \ (Emptiable \union FromProcessOnly),
         v \in Required \/ (v \in DOMAIN Default /\ Default[v] # "")
  PROVE  Asked(e, v) # ""
<1>1. v \in DOMAIN Merged(e) => Merged(e)[v] # ""
  BY DEF Bootable, Accepts
<1>2. /\ DOMAIN Merged(e) = DOMAIN e.proc \union DOMAIN e.file
      /\ v \in DOMAIN Merged(e) =>
           Merged(e)[v] = IF v \in DOMAIN e.proc THEN e.proc[v] ELSE e.file[v]
  BY DEF Merged, Over
<1>3. CASE v \in DOMAIN Merged(e)
  BY <1>1, <1>2, <1>3 DEF Asked
<1>4. CASE v \notin DOMAIN Merged(e)
  <2>1. v \in DOMAIN Default /\ Default[v] # ""
    BY <1>4 DEF Bootable
  <2>2. QED BY <1>2, <1>4, <2>1 DEF Asked
<1>5. QED BY <1>3, <1>4

LEMMA VariableNames ==
  /\ DOMAIN Fallback \union {"CORS_ORIGINS", "PORT", "APP_PORT"} \subseteq Known \ FromProcessOnly
  /\ "CORS_ORIGINS" \notin DOMAIN Fallback
  /\ {"NODE_ENV", "DB_HOST", "DB_PORT", "DB_NAME"} \subseteq DOMAIN Fallback
  /\ DOMAIN BoardFallback \intersect DOMAIN Fallback = {}
  /\ {"DB_HOST", "DB_NAME"} \subseteq Required
  /\ {"DB_PORT", "APP_PORT"} \subseteq DOMAIN Default
  /\ Default["DB_PORT"] # "" /\ Default["APP_PORT"] # ""
  /\ {"DB_HOST", "DB_NAME", "DB_PORT", "APP_PORT"} \intersect Emptiable = {}
BY DEF Fallback, Known, Required, Optional, Default, FromProcessOnly, BoardFallback, Emptiable

LEMMA NumericNames ==
  /\ {"PORT", "APP_PORT", "DB_PORT"} \subseteq Numeric
  /\ Numeric \intersect {"NODE_ENV", "DB_HOST", "DB_NAME", "CORS_ORIGINS"} = {}
  /\ Numeric \intersect DOMAIN BoardFallback = {}
  /\ {"NODE_ENV", "DB_HOST", "DB_PORT", "DB_NAME"} \intersect DOMAIN ZeroFallback = {}
BY DEF Numeric, Optional, BoardFallback, ZeroFallback

\* What the program runs with is what was asked for, if anything was.
LEMMA PlainAsIntended ==
  ASSUME NEW e, NEW v \in DOMAIN Fallback \union DOMAIN BoardFallback \union {"CORS_ORIGINS"},
         Asked(e, v) # "", ~Misread(e, v), ~Replaced(e, v)
  PROVE  Plain(ProcessEnv(e))[v] = Intended(e, v)
<1> DEFINE p == ProcessEnv(e)
           own == [w \in DOMAIN Fallback |-> Taken(p, w)]
<1>1. /\ v \in DOMAIN Fallback => Plain(p)[v] = Taken(p, v)
      /\ v \notin DOMAIN Fallback /\ v \in DOMAIN p => Plain(p)[v] = p[v]
  <2> HIDE DEF p
  <2>1. DOMAIN own = DOMAIN Fallback
    OBVIOUS
  <2>2. v \in DOMAIN Fallback => own[v] = Taken(p, v)
    OBVIOUS
  <2>3. Plain(p) = Over(own, Over(p, BoardFallback))
    BY DEF Plain
  <2> HIDE DEF own
  <2>4. QED BY <2>1, <2>2, <2>3 DEF Over
<1>2. CASE v \in DOMAIN BoardFallback
  <2>1. v \notin DOMAIN Fallback /\ v \notin Numeric
    BY <1>2, VariableNames, NumericNames
  <2>2. v \notin DOMAIN Default
    BY <1>2 DEF BoardFallback, Default
  <2>3. v \in DOMAIN e.proc /\ Asked(e, v) = e.proc[v]
    BY <1>2, <2>2 DEF Asked, FromProcessOnly
  <2>4. v \in DOMAIN p /\ p[v] = e.proc[v]
    BY <2>3 DEF ProcessEnv, Over
  <2>5. QED BY <1>1, <2>1, <2>3, <2>4, IntendedValue
<1>3. CASE v \in DOMAIN Fallback
  <2>1. /\ Given(p, v)
        /\ v \notin Numeric => p[v] = Intended(e, v)
        /\ v \in Numeric => ParseInt(p[v]) = Intended(e, v)
    BY <1>3, VariableNames, TakenAsIntended
  <2>2. Taken(p, v) = Intended(e, v)
    <3> HIDE DEF p
    <3>1. QED BY <2>1 DEF Taken, Either, Replaced
  <2>3. QED BY <1>1, <1>3, <2>2
<1>4. CASE v = "CORS_ORIGINS"
  BY <1>1, <1>4, VariableNames, NumericNames, TakenAsIntended
<1>5. QED BY <1>2, <1>3, <1>4

LEMMA PortAsIntended ==
  ASSUME NEW e, Bootable(e), NEW v,
         v = IF Asked(e, "PORT") # "" THEN "PORT" ELSE "APP_PORT", ~Misread(e, v)
  PROVE  Port(ProcessEnv(e)) = Intended(e, v)
<1> DEFINE p == ProcessEnv(e)
<1>1. Asked(e, "APP_PORT") # ""
  BY VariableNames, NeverEmpty
<1>2. Given(p, v) /\ ParseInt(p[v]) = Intended(e, v)
  BY <1>1, VariableNames, NumericNames, TakenAsIntended
<1>3. Asked(e, "PORT") = "" => ~Given(p, "PORT")
  BY VariableNames, KnownVariable, IntendedValue DEF Given
<1> HIDE DEF p
<1>4. Port(p) = ParseInt(p[v])
  BY <1>2, <1>3 DEF Port, Either
<1>5. QED BY <1>2, <1>4 DEF p

\* Between the validation and the start the settings are those of the environment.
SettingsLoaded ==
  boot = "loaded" => Bootable(environ) /\ settings = Settings(ProcessEnv(environ))

LEMMA LoadedSettingsRight ==
  ASSUME SettingsLoaded
  PROVE  SettingsTakeEffect
<1> SUFFICES ASSUME boot = "loaded" PROVE SettingsTakeEffect
  BY DEF SettingsTakeEffect
<1> DEFINE p == ProcessEnv(environ)
<1>1. Bootable(environ) /\ settings = Settings(p)
  BY DEF SettingsLoaded
<1>2. /\ settings.plain = Plain(p) /\ settings.port = Port(p)
      /\ settings.database.synchronize = (Plain(p)["NODE_ENV"] # "production")
  BY <1>1 DEF Settings, Database
<1>3. settings.database.synchronize => Asked(environ, "NODE_ENV") # "production"
  <2>1. ~Misread(environ, "NODE_ENV") /\ ~Replaced(environ, "NODE_ENV")
    BY NumericNames DEF Misread, Replaced
  <2>2. Intended(environ, "NODE_ENV") = Asked(environ, "NODE_ENV")
    BY NumericNames, IntendedValue
  <2>3. QED BY <1>2, <2>1, <2>2, VariableNames, PlainAsIntended
<1>4. \A v \in DOMAIN Fallback \union DOMAIN BoardFallback \union {"CORS_ORIGINS"} :
        (Asked(environ, v) # "" /\ ~Misread(environ, v) /\ ~Replaced(environ, v))
           => settings.plain[v] = Intended(environ, v)
  BY <1>2, PlainAsIntended
<1> DEFINE own == IF Asked(environ, "PORT") # "" THEN "PORT" ELSE "APP_PORT"
<1>5. (~Misread(environ, own) /\ Intended(environ, own) # "0")
         => ListenPort(settings) = Intended(environ, own)
  <2>1. ~Misread(environ, own) => settings.port = Intended(environ, own)
    BY <1>1, <1>2, PortAsIntended
  <2>2. QED BY <2>1 DEF ListenPort
<1>6. \A v \in {"DB_HOST", "DB_PORT", "DB_NAME"} :
        ~Misread(environ, v) => settings.plain[v] = Intended(environ, v)
  <2>1. \A v \in {"DB_HOST", "DB_PORT", "DB_NAME"} : ~Replaced(environ, v)
    BY NumericNames DEF Replaced
  <2>2. QED BY <1>1, <1>4, <2>1, VariableNames, NeverEmpty
<1>7. \A x \in {<<"host", "DB_HOST">>, <<"port", "DB_PORT">>, <<"name", "DB_NAME">>} :
        ~Misread(environ, x[2]) => Shown(settings)[x[1]] = Intended(environ, x[2])
  BY <1>6 DEF Shown
<1> HIDE DEF p
<1>8. QED BY <1>3, <1>4, <1>5, <1>7 DEF SettingsTakeEffect

LEMMA SettingsStep ==
  ASSUME SettingsLoaded, [Next]_vars
  PROVE  SettingsLoaded'
<1>1. CASE Load
  BY <1>1 DEF Load, SettingsLoaded
<1>2. CASE Refuse \/ Listen
  BY <1>2 DEF Refuse, Listen, SettingsLoaded
<1>3. ASSUME UNCHANGED <<boot, environ, settings>> PROVE SettingsLoaded'
  BY <1>3 DEF SettingsLoaded
<1>4. QED
  BY <1>1, <1>2, <1>3
  DEF Next, Tick, Change, Arrive, Throttle, ValidateJwt, CheckRoles, Validate, Handle, Finish,
      vars, server

\* Whatever the .env file and the environment of the process hold, a server that
\* starts runs with what was asked for -- but for the numbers that parseInt misreads and
\* the zero that is replaced -- and never alters the tables of production.
THEOREM SettingsRight == Spec => []SettingsTakeEffect
<1>1. Init => SettingsLoaded
  BY DEF Init, SettingsLoaded
<1>2. SettingsLoaded /\ [Next]_vars => SettingsLoaded'
  BY SettingsStep
<1>3. SettingsLoaded => SettingsTakeEffect
  BY LoadedSettingsRight
<1>4. QED BY <1>1, <1>2, <1>3, PTL DEF Spec
=============================================================================
