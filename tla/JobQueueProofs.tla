--------------------------- MODULE JobQueueProofs ---------------------------
(***************************************************************************)
(* Theorems about JobQueue, for any jobs, options, limits and passes.      *)
(***************************************************************************)
EXTENDS JobQueue, FiniteSetTheorems, TLAPS

\* Every step keeps the types.
LEMMA TypeStep ==
  ASSUME IInv, [Next]_vars
  PROVE  TypeOK'
<1> USE QueueAssumption DEF IInv
<1>1. ASSUME NEW j \in Jobs, Add(j) PROVE TypeOK'
  BY <1>1 DEF Add, TypeOK, running, history
<1>2. ASSUME NEW j \in Jobs, Take(j) PROVE TypeOK'
  BY <1>2 DEF Take, TypeOK, times, history
<1>3. ASSUME NEW j \in Jobs, Promote(j) PROVE TypeOK'
  BY <1>3 DEF Promote, TypeOK, running, times, history
<1>4. ASSUME NEW j \in Jobs, Stall(j) PROVE TypeOK'
  BY <1>4 DEF Stall, TypeOK, running, history
<1>5. ASSUME Handle PROVE TypeOK'
  BY <1>5 DEF Handle, TypeOK, times
<1>6. ASSUME Complete PROVE TypeOK'
  BY <1>6 DEF Complete, CountAttempt, OnComplete, TypeOK, times, history
<1>7. ASSUME Fail PROVE TypeOK'
  BY <1>7 DEF Fail, CountAttempt, OnFail, TypeOK, history
<1>8. ASSUME LoseLock PROVE TypeOK'
  BY <1>8 DEF LoseLock, TypeOK, times
<1>9. ASSUME Crash PROVE TypeOK'
  <2>1. excused' \in [Jobs -> Nat]
    BY <1>9 DEF Crash, TypeOK
  <2>2. lock' \in {worker', None} /\ worker' \in Jobs \union {None}
    BY <1>9 DEF Crash
  <2>3. /\ DOMAIN found' = Passes
        /\ \A p \in Passes : /\ DOMAIN found'[p] \subseteq Jobs
                             /\ \A j \in DOMAIN found'[p] : found'[p][j] \in Nat
    BY <1>9 DEF Crash
  <2>4. lost' \in 0..MaxLost
    BY <1>9, QueueAssumption DEF Crash, TypeOK
  <2>5. /\ UNCHANGED <<state, made, stalls, born, ended, now, wstep, sends, revived, swept>>
    BY <1>9 DEF Crash, times
  <2>6. QED
    BY <2>1, <2>2, <2>3, <2>4, <2>5 DEF TypeOK
<1>10. ASSUME NEW p \in Passes, StartPass(p) PROVE TypeOK'
  BY <1>10 DEF StartPass, TypeOK, running, times, history, In
<1>11. ASSUME NEW p \in Passes, NEW j \in Jobs, Visit(p, j) PROVE TypeOK'
  BY <1>11 DEF Visit, Revivable, TypeOK, running, times
<1>12. ASSUME NEW g \in Nat, CleanFailedJobs(g) PROVE TypeOK'
  BY <1>12 DEF CleanFailedJobs, TypeOK, running, times, In, Overdue
<1>13. ASSUME Tick PROVE TypeOK'
  BY <1>13 DEF Tick, TypeOK, running, history
<1>14. CASE UNCHANGED vars
  BY <1>14 DEF vars, TypeOK
<1>15. QED
  BY <1>1, <1>2, <1>3, <1>4, <1>5, <1>6, <1>7, <1>8, <1>9, <1>10, <1>11, <1>12,
      <1>13, <1>14
  DEF Next, CleanupFailedJobs, CleanQueue

\* Every step keeps the account of messages that left, runs and excuses.
LEMMA RunsStep ==
  ASSUME IInv, [Next]_vars
  PROVE  RunsAccounted'
<1> USE QueueAssumption DEF IInv
<1>1. ASSUME NEW j \in Jobs, Add(j) PROVE RunsAccounted'
  BY <1>1 DEF Add, TypeOK, RunsAccounted, Owed, Settled, running, history
<1>2. ASSUME NEW j \in Jobs, Take(j) PROVE RunsAccounted'
  BY <1>2 DEF Take, TypeOK, RunsAccounted, Owed, Settled, times, history
<1>3. ASSUME NEW j \in Jobs, Promote(j) PROVE RunsAccounted'
  BY <1>3 DEF Promote, TypeOK, RunsAccounted, Owed, Settled, running, times, history
<1>4. ASSUME NEW j \in Jobs, Stall(j) PROVE RunsAccounted'
  BY <1>4 DEF Stall, TypeOK, RunsAccounted, Owed, Settled, running, history
<1>5. ASSUME Handle PROVE RunsAccounted'
  BY <1>5 DEF Handle, TypeOK, RunsAccounted, Owed, Settled, times
<1>6. ASSUME Complete PROVE RunsAccounted'
  BY <1>6
  DEF Complete, OnComplete, TypeOK, RunsAccounted, Owed, Settled, SweptAreGone, times,
      history
<1>7. ASSUME Fail PROVE RunsAccounted'
  BY <1>7 DEF Fail, OnFail, TypeOK, RunsAccounted, Owed, Settled, history
<1>8. ASSUME LoseLock PROVE RunsAccounted'
  BY <1>8 DEF LoseLock, TypeOK, RunsAccounted, Owed, Settled, times
<1>9. ASSUME Crash PROVE RunsAccounted'
  <2>1. CASE lock = None
    BY <1>9, <2>1 DEF Crash, TypeOK, RunsAccounted, Owed, Settled
  <2>2. CASE lock # None
    <3>1. /\ lock \in Jobs /\ worker = lock /\ worker' = None /\ lock' = None
          /\ UNCHANGED <<state, sends, swept>>
          /\ excused' = [excused EXCEPT ![lock] = @ + 1]
      BY <1>9, <2>2 DEF Crash, TypeOK
    <3>2. ASSUME NEW j \in Jobs
          PROVE  sends'[j] + Owed(j)' <= excused'[j] + Settled(j)'
      <4>1. sends[j] \in Nat /\ excused[j] \in Nat /\ None \notin Jobs
        BY DEF TypeOK
      <4>2. sends[j] + Owed(j) <= excused[j] + Settled(j)
        BY DEF RunsAccounted
      <4>3. CASE j = lock
        BY <3>1, <4>1, <4>2, <4>3 DEF TypeOK, Owed, Settled
      <4>4. CASE j # lock
        BY <3>1, <4>1, <4>2, <4>4 DEF TypeOK, Owed, Settled
      <4>5. QED
        BY <4>3, <4>4
    <3>3. QED
      BY <3>1, <3>2 DEF RunsAccounted
  <2>3. QED
    BY <2>1, <2>2
<1>10. ASSUME NEW p \in Passes, StartPass(p) PROVE RunsAccounted'
  BY <1>10
  DEF StartPass, TypeOK, RunsAccounted, Owed, Settled, running, times, history, In
<1>11. ASSUME NEW p \in Passes, NEW j \in Jobs, Visit(p, j) PROVE RunsAccounted'
  BY <1>11 DEF Visit, Revivable, TypeOK, RunsAccounted, Owed, Settled, running, times
<1>12. ASSUME NEW g \in Nat, CleanFailedJobs(g) PROVE RunsAccounted'
  BY <1>12
  DEF CleanFailedJobs, TypeOK, RunsAccounted, Owed, Settled, running, times, Overdue,
      In
<1>13. ASSUME Tick PROVE RunsAccounted'
  BY <1>13 DEF Tick, TypeOK, RunsAccounted, Owed, Settled, running, history
<1>14. CASE UNCHANGED vars
  BY <1>14 DEF vars, TypeOK, RunsAccounted, Owed, Settled
<1>15. QED
  BY <1>1, <1>2, <1>3, <1>4, <1>5, <1>6, <1>7, <1>8, <1>9, <1>10, <1>11, <1>12,
      <1>13, <1>14
  DEF Next, CleanupFailedJobs, CleanQueue

\* A job that goes had its message sent, or was cleaned.
LEMMA LossStep ==
  ASSUME IInv, [Next]_vars
  PROVE  NothingLost'
<1> USE QueueAssumption DEF IInv
<1>1. ASSUME NEW j \in Jobs, Add(j) PROVE NothingLost'
  BY <1>1 DEF Add, TypeOK, RunsAccounted, NothingLost, running, history
<1>2. ASSUME NEW j \in Jobs, Take(j) PROVE NothingLost'
  BY <1>2 DEF Take, TypeOK, RunsAccounted, NothingLost, times, history
<1>3. ASSUME NEW j \in Jobs, Promote(j) PROVE NothingLost'
  BY <1>3 DEF Promote, TypeOK, RunsAccounted, NothingLost, running, times, history
<1>4. ASSUME NEW j \in Jobs, Stall(j) PROVE NothingLost'
  BY <1>4 DEF Stall, TypeOK, RunsAccounted, NothingLost, running, history
<1>5. ASSUME Handle PROVE NothingLost'
  BY <1>5 DEF Handle, TypeOK, RunsAccounted, NothingLost, times
<1>6. ASSUME Complete PROVE NothingLost'
  BY <1>6 DEF Complete, OnComplete, TypeOK, RunsAccounted, NothingLost, times, history
<1>7. ASSUME Fail PROVE NothingLost'
  BY <1>7 DEF Fail, OnFail, TypeOK, RunsAccounted, NothingLost, history
<1>8. ASSUME LoseLock PROVE NothingLost'
  BY <1>8 DEF LoseLock, TypeOK, RunsAccounted, NothingLost, times
<1>9. ASSUME Crash PROVE NothingLost'
  BY <1>9 DEF Crash, TypeOK, RunsAccounted, NothingLost, times
<1>10. ASSUME NEW p \in Passes, StartPass(p) PROVE NothingLost'
  BY <1>10
  DEF StartPass, TypeOK, RunsAccounted, NothingLost, running, times, history, In
<1>11. ASSUME NEW p \in Passes, NEW j \in Jobs, Visit(p, j) PROVE NothingLost'
  BY <1>11 DEF Visit, Revivable, TypeOK, RunsAccounted, NothingLost, running, times
<1>12. ASSUME NEW g \in Nat, CleanFailedJobs(g) PROVE NothingLost'
  BY <1>12
  DEF CleanFailedJobs, TypeOK, RunsAccounted, NothingLost, running, times, Overdue,
      In
<1>13. ASSUME Tick PROVE NothingLost'
  BY <1>13 DEF Tick, TypeOK, RunsAccounted, NothingLost, running, history
<1>14. CASE UNCHANGED vars
  BY <1>14 DEF vars, TypeOK, RunsAccounted, NothingLost
<1>15. QED
  BY <1>1, <1>2, <1>3, <1>4, <1>5, <1>6, <1>7, <1>8, <1>9, <1>10, <1>11, <1>12,
      <1>13, <1>14
  DEF Next, CleanupFailedJobs, CleanQueue

\* What was cleaned stays gone.
LEMMA SweptStep ==
  ASSUME IInv, [Next]_vars
  PROVE  SweptAreGone'
<1> USE QueueAssumption DEF IInv, TypeOK, SweptAreGone
<1>1. ASSUME NEW j \in Jobs, Add(j) \/ Take(j) \/ Promote(j) \/ Stall(j) PROVE SweptAreGone'
  BY <1>1 DEF Add, Take, Promote, Stall, history
<1>2. CASE Handle \/ LoseLock \/ Crash \/ Tick
  BY <1>2 DEF Handle, LoseLock, Crash, Tick, history
<1>3. CASE Complete \/ Fail
  BY <1>3 DEF Complete, OnComplete, Fail, RunsAccounted, history
<1>4. ASSUME NEW p \in Passes, StartPass(p) PROVE SweptAreGone'
  BY <1>4 DEF StartPass, history
<1>5. ASSUME NEW p \in Passes, NEW j \in Jobs, Visit(p, j) PROVE SweptAreGone'
  BY <1>5 DEF Visit, Revivable
<1>6. ASSUME NEW g, CleanFailedJobs(g) PROVE SweptAreGone'
  BY <1>6 DEF CleanFailedJobs, Overdue, In
<1>7. CASE UNCHANGED vars
  BY <1>7 DEF vars
<1>8. QED
  BY <1>1, <1>2, <1>3, <1>4, <1>5, <1>6, <1>7 DEF Next, CleanupFailedJobs, CleanQueue

\* Every step keeps the order of the times.
LEMMA TimesStep ==
  ASSUME IInv, [Next]_vars
  PROVE  TimesOrdered'
<1> USE QueueAssumption DEF IInv
<1>1. ASSUME NEW j \in Jobs, Add(j) PROVE TimesOrdered'
  BY <1>1 DEF Add, TypeOK, TimesOrdered, running, history
<1>2. ASSUME NEW j \in Jobs, Take(j) PROVE TimesOrdered'
  BY <1>2 DEF Take, TypeOK, TimesOrdered, times, history
<1>3. ASSUME NEW j \in Jobs, Promote(j) PROVE TimesOrdered'
  BY <1>3 DEF Promote, TypeOK, TimesOrdered, running, times, history
<1>4. ASSUME NEW j \in Jobs, Stall(j) PROVE TimesOrdered'
  BY <1>4 DEF Stall, TypeOK, TimesOrdered, running, history
<1>5. ASSUME Handle PROVE TimesOrdered'
  BY <1>5 DEF Handle, TypeOK, TimesOrdered, times
<1>6. ASSUME Complete PROVE TimesOrdered'
  BY <1>6 DEF Complete, OnComplete, TypeOK, TimesOrdered, times, history
<1>7. ASSUME Fail PROVE TimesOrdered'
  BY <1>7 DEF Fail, OnFail, TypeOK, TimesOrdered, history
<1>8. ASSUME LoseLock PROVE TimesOrdered'
  BY <1>8 DEF LoseLock, TypeOK, TimesOrdered, times
<1>9. ASSUME Crash PROVE TimesOrdered'
  BY <1>9 DEF Crash, TypeOK, TimesOrdered, times
<1>10. ASSUME NEW p \in Passes, StartPass(p) PROVE TimesOrdered'
  BY <1>10 DEF StartPass, TypeOK, TimesOrdered, running, times, history, In
<1>11. ASSUME NEW p \in Passes, NEW j \in Jobs, Visit(p, j) PROVE TimesOrdered'
  BY <1>11 DEF Visit, Revivable, TypeOK, TimesOrdered, running, times
<1>12. ASSUME NEW g \in Nat, CleanFailedJobs(g) PROVE TimesOrdered'
  BY <1>12 DEF CleanFailedJobs, TypeOK, TimesOrdered, running, times, Overdue, In
<1>13. ASSUME Tick PROVE TimesOrdered'
  BY <1>13 DEF Tick, TypeOK, TimesOrdered, running, history
<1>14. CASE UNCHANGED vars
  BY <1>14 DEF vars, TypeOK, TimesOrdered
<1>15. QED
  BY <1>1, <1>2, <1>3, <1>4, <1>5, <1>6, <1>7, <1>8, <1>9, <1>10, <1>11, <1>12,
      <1>13, <1>14
  DEF Next, CleanupFailedJobs, CleanQueue

\* Sets of passes: sizes, and what leaving one out does to them.
LEMMA PassCount ==
  ASSUME NEW H, H \subseteq Passes
  PROVE  /\ Cardinality(H) \in Nat /\ Cardinality(Passes) \in Nat
         /\ Cardinality(H) <= Cardinality(Passes)
         /\ H # Passes => Cardinality(H) <= Cardinality(Passes) - 1
         /\ \A p \in H : Cardinality(H \ {p}) = Cardinality(H) - 1
<1>1. IsFiniteSet(Passes) /\ IsFiniteSet(H) /\ Cardinality(H) <= Cardinality(Passes)
  BY FS_Subset, QueueAssumption
<1>2. Cardinality(H) \in Nat /\ Cardinality(Passes) \in Nat
  BY <1>1, FS_CardinalityType
<1>3. H # Passes => Cardinality(H) # Cardinality(Passes)
  BY <1>1, FS_Subset
<1>4. \A p \in H : Cardinality(H \ {p}) = Cardinality(H) - 1
  BY <1>1, FS_RemoveElement
<1>5. QED
  BY <1>1, <1>2, <1>3, <1>4

\* The passes that hold a job are passes; one that holds it no more leaves a place.
LEMMA HoldingCount ==
  ASSUME NEW j \in Jobs
  PROVE  /\ Cardinality(Holding(j)) \in Nat /\ Cardinality(Passes) \in Nat
         /\ (\E p \in Passes : j \notin DOMAIN found[p]) =>
              Cardinality(Holding(j)) <= Cardinality(Passes) - 1
         /\ \A p \in Holding(j) : Cardinality(Holding(j) \ {p}) = Cardinality(Holding(j)) - 1
<1>1. Holding(j) \subseteq Passes
  BY DEF Holding
<1>2. (\E p \in Passes : j \notin DOMAIN found[p]) => Holding(j) # Passes
  BY DEF Holding
<1>3. QED
  BY <1>1, <1>2, PassCount

\* The limit is at least each of the two limits it is made of.
LEMMA LimitType == Limit \in Nat /\ Limit > 0 /\ Limit >= Attempts /\ Limit >= MaxRetries
BY QueueAssumption DEF Limit

\* A step that keeps attemptsMade and the passes, starts no new try of a failed job
\* and loses no lock but at the cost of lost, keeps the account.
LEMMA NoNewTry ==
  ASSUME IInv, NEW i \in Jobs, UNCHANGED found, made'[i] = made[i],
         lost' \in {lost, lost + 1}, Stray(i)' + lost <= Stray(i) + lost',
         worker' = i => worker = i \/ state'[i] = "active",
         \/ state'[i] = state[i]
         \/ state'[i] \in {"failed", "gone"}
         \/ state'[i] = "wait" /\ state[i] \in {"none", "active", "delayed"}
         \/ state'[i] = "active" /\ state[i] = "wait"
  PROVE  TriesAccounted(i)'
<1>1. /\ made[i] \in Nat /\ lost \in Nat /\ lost' \in Nat
      /\ state[i] \in {"none", "wait", "active", "delayed", "failed", "gone"}
  BY QueueAssumption DEF IInv, TypeOK
<1>2. TriesAccounted(i)
  BY DEF IInv, RetriesAccounted
<1>3. Holding(i)' = Holding(i)
  BY DEF Holding
<1>4. made[i] < Limit \/ Trying(i)' <= Trying(i)
  BY <1>1, <1>2, LimitType DEF TriesAccounted, Trying
<1>5. /\ Trying(i) \in 0..1 /\ Trying(i)' \in 0..1
      /\ Stray(i) \in 0..1 /\ Stray(i)' \in 0..1
  BY DEF Trying, Stray
<1>6. state'[i] = "none" => made'[i] = 0 /\ worker' # i
  BY <1>1, <1>2 DEF TriesAccounted
<1>7. state'[i] \notin {"failed", "gone"} => \E p \in Passes : i \notin DOMAIN found'[p]
  BY <1>2 DEF TriesAccounted
<1>8. Stray(i)' <= lost'
  BY <1>1, <1>2, <1>5 DEF TriesAccounted
<1>9. made'[i] >= Limit =>
        made'[i] + Cardinality(Holding(i)') + Trying(i)' + Stray(i)'
          <= Limit + Cardinality(Passes) - 1 + lost'
  BY <1>1, <1>2, <1>3, <1>4, <1>5, HoldingCount, LimitType DEF TriesAccounted
<1>10. QED
  BY <1>6, <1>7, <1>8, <1>9 DEF TriesAccounted, Limit

\* The attempt of a run without its lock is counted, and that run is a lost one.
LEMMA StrayAccounted ==
  ASSUME IInv, NEW i \in Jobs, worker = i, lock # i, worker' = None, CountAttempt,
         UNCHANGED <<state, found, lost>>
  PROVE  TriesAccounted(i)'
<1>1. /\ TriesAccounted(i) /\ lost \in Nat
      /\ made[i] \in Nat /\ made'[i] = made[i] + 1
  BY QueueAssumption DEF IInv, TypeOK, RetriesAccounted, CountAttempt
<1>2. Stray(i) = 1 /\ Stray(i)' = 0 /\ lost >= 1 /\ state'[i] # "none"
  BY <1>1, QueueAssumption DEF Stray, TriesAccounted
<1>3. Holding(i)' = Holding(i) /\ Trying(i)' = Trying(i) /\ Trying(i) \in 0..1
  BY DEF Holding, Trying
<1>4. Cardinality(Holding(i)) + Trying(i) <= Cardinality(Passes)
  <2>1. Cardinality(Holding(i)) <= Cardinality(Passes)
    BY PassCount DEF Holding
  <2>2. Trying(i) = 1 => Cardinality(Holding(i)) <= Cardinality(Passes) - 1
    BY <1>1, HoldingCount DEF TriesAccounted, Trying
  <2>3. QED
    BY <1>3, <2>1, <2>2, HoldingCount
<1>5. made'[i] >= Limit =>
        made'[i] + Cardinality(Holding(i)') + Trying(i)' + Stray(i)'
          <= Limit + Cardinality(Passes) - 1 + lost'
  <2>1. CASE made[i] >= Limit
    BY <1>1, <1>2, <1>3, <2>1, HoldingCount, LimitType DEF TriesAccounted
  <2>2. CASE made[i] < Limit
    BY <1>1, <1>2, <1>3, <1>4, <2>2, HoldingCount, LimitType
  <2>3. QED
    BY <1>1, <2>1, <2>2, LimitType
<1>6. QED
  BY <1>1, <1>2, <1>5 DEF TriesAccounted, Limit

\* A failed attempt turns the try under way into one that was made.
LEMMA FailAccounted ==
  ASSUME IInv, NEW i \in Jobs, Fail
  PROVE  TriesAccounted(i)'
<1>1. /\ TypeOK /\ TriesAccounted(i) /\ UNCHANGED <<found, lost>> /\ worker' = None
      /\ lost \in Nat /\ worker \in Jobs
  BY QueueAssumption DEF IInv, RetriesAccounted, Fail, TypeOK
<1>2. CASE i # worker
  <2>1. /\ made'[i] = made[i] /\ state'[i] = state[i]
        /\ Stray(i) = 0 /\ Stray(i)' = 0
    BY <1>1, <1>2, QueueAssumption DEF Fail, CountAttempt, TypeOK, Stray
  <2>2. QED
    BY <1>1, <2>1, NoNewTry, QueueAssumption
<1>3. CASE i = worker /\ lock # worker
  BY <1>1, <1>3, StrayAccounted DEF Fail
<1>4. CASE i = worker /\ lock = worker
  <2>1. /\ state[i] = "active"
        /\ made'[i] = made[i] + 1 /\ made[i] \in Nat
        /\ state'[i] = IF made[i] + 1 >= Attempts THEN "failed" ELSE "delayed"
    BY <1>1, <1>4, QueueAssumption
    DEF IInv, TypeOK, RunsAccounted, Fail, CountAttempt, OnFail
  <2>2. Holding(i)' = Holding(i)
    BY <1>1 DEF Holding
  <2>3. Stray(i) = 0 /\ Stray(i)' = 0
    BY <1>1, <1>4, QueueAssumption DEF Stray
  <2>4. /\ Cardinality(Holding(i)) <= Cardinality(Passes) - 1
        /\ Cardinality(Holding(i)) \in Nat /\ Cardinality(Passes) \in Nat
    BY <1>1, <2>1, HoldingCount DEF TriesAccounted
  <2>5. made[i] >= Limit =>
          made[i] + Cardinality(Holding(i)) + 1 <= Limit + Cardinality(Passes) - 1 + lost
    BY <1>1, <2>1, <2>3, HoldingCount, LimitType DEF TriesAccounted, Trying
  <2>6. made'[i] >= Limit => Trying(i)' = 0
    BY <2>1, LimitType, QueueAssumption DEF Trying
  <2>7. made'[i] >= Limit =>
          made'[i] + Cardinality(Holding(i)') + Trying(i)' + Stray(i)'
            <= Limit + Cardinality(Passes) - 1 + lost'
    BY <1>1, <2>1, <2>2, <2>3, <2>4, <2>5, <2>6, LimitType
  <2>8. QED
    BY <1>1, <2>1, <2>3, <2>7 DEF TriesAccounted, Limit
<1>5. QED
  BY <1>2, <1>3, <1>4

\* A run that ends well is no try any more, and one without its lock is a lost one.
LEMMA CompleteAccounted ==
  ASSUME IInv, NEW i \in Jobs, Complete
  PROVE  TriesAccounted(i)'
<1>1. /\ TypeOK /\ UNCHANGED <<found, lost>> /\ worker' = None /\ worker \in Jobs
      /\ lost \in Nat
  BY QueueAssumption DEF IInv, Complete, TypeOK, history
<1>2. CASE i = worker /\ lock # worker
  BY <1>1, <1>2, StrayAccounted DEF Complete
<1>3. CASE i # worker \/ lock = worker
  <2>1. /\ made'[i] = made[i] /\ (state'[i] = state[i] \/ state'[i] = "gone")
        /\ Stray(i) = 0 /\ Stray(i)' = 0
    BY <1>1, <1>3, QueueAssumption
    DEF Complete, CountAttempt, OnComplete, TypeOK, Stray
  <2>2. QED
    BY <1>1, <2>1, NoNewTry, QueueAssumption
<1>4. QED
  BY <1>2, <1>3

\* A crash ends the passes: what they held is retried no more.
LEMMA CrashAccounted ==
  ASSUME IInv, NEW i \in Jobs, Crash
  PROVE  TriesAccounted(i)'
<1>1. /\ TriesAccounted(i) /\ made[i] \in Nat /\ lost \in Nat /\ lost' = lost + 1
      /\ UNCHANGED <<state, made>> /\ \A p \in Passes : i \notin DOMAIN found'[p]
  BY QueueAssumption DEF IInv, TypeOK, RetriesAccounted, Crash
<1>2. Holding(i)' = {} /\ Trying(i)' = Trying(i) /\ Trying(i) \in 0..1
  BY <1>1 DEF Holding, Trying
<1>3. Stray(i)' = 0 /\ Stray(i) \in 0..1 /\ worker' # i
  BY QueueAssumption DEF Stray, Crash
<1>4. Cardinality(Holding(i)') = 0
  BY <1>2, FS_EmptySet
<1>5. made'[i] >= Limit =>
        made'[i] + Cardinality(Holding(i)') + Trying(i)' + Stray(i)'
          <= Limit + Cardinality(Passes) - 1 + lost'
  BY <1>1, <1>2, <1>3, <1>4, HoldingCount, LimitType DEF TriesAccounted
<1>6. QED
  BY <1>1, <1>3, <1>5, QueueAssumption DEF TriesAccounted, Limit

\* A pass that starts holds a failed job: no try is under way.
LEMMA StartPassAccounted ==
  ASSUME IInv, NEW i \in Jobs, NEW p \in Passes, StartPass(p)
  PROVE  TriesAccounted(i)'
<1>1. /\ TypeOK /\ TriesAccounted(i) /\ made[i] \in Nat
      /\ UNCHANGED <<state, made, worker, lock, lost>> /\ i \notin DOMAIN found[p]
      /\ found'[p] = [j \in In("failed") |-> made[j]]
      /\ \A q \in Passes \ {p} : found'[q] = found[q]
  BY DEF IInv, TypeOK, RetriesAccounted, StartPass, running
<1>2. Trying(i)' = Trying(i) /\ Trying(i) \in 0..1 /\ Stray(i)' = Stray(i)
  BY <1>1 DEF Trying, Stray
<1>3. made[i] >= Limit => Holding(i)' = Holding(i)
  BY <1>1, LimitType, QueueAssumption DEF Holding
<1>4. state[i] # "failed" => i \notin DOMAIN found'[p]
  BY <1>1 DEF In
<1>5. QED
  BY <1>1, <1>2, <1>3, <1>4 DEF TriesAccounted, Limit

\* A visit turns a pass that held the job into a try under way.
LEMMA VisitAccounted ==
  ASSUME IInv, NEW i \in Jobs, NEW p \in Passes, NEW j \in Jobs, Visit(p, j)
  PROVE  TriesAccounted(i)'
<1>1. /\ TypeOK /\ TriesAccounted(i) /\ made[i] \in Nat /\ lost \in Nat
      /\ UNCHANGED <<made, worker, lock, lost>>
      /\ Stray(i)' = Stray(i) /\ Stray(i) \in 0..1
      /\ j \in DOMAIN found[p]
      /\ found'[p] = [k \in DOMAIN found[p] \ {j} |-> found[p][k]]
      /\ \A q \in Passes \ {p} : found'[q] = found[q]
  BY QueueAssumption DEF IInv, TypeOK, RetriesAccounted, Visit, running, Stray
<1>2. (\E q \in Passes : i \notin DOMAIN found[q]) => \E q \in Passes : i \notin DOMAIN found'[q]
  BY <1>1
<1>3. Holding(i)' = IF i = j THEN Holding(i) \ {p} ELSE Holding(i)
  BY <1>1 DEF Holding
<1>4. Cardinality(Holding(i)') <= Cardinality(Holding(i)) /\ Cardinality(Holding(i)') \in Nat
  <2>1. Cardinality(Holding(i)') \in Nat
    BY <1>3, PassCount DEF Holding
  <2>2. CASE i = j /\ p \in Holding(i)
    BY <1>3, <2>1, <2>2, HoldingCount
  <2>3. CASE ~(i = j /\ p \in Holding(i))
    <3>1. Holding(i)' = Holding(i)
      BY <1>3, <2>3
    <3>2. QED
      BY <3>1, HoldingCount
  <2>4. QED
    BY <2>1, <2>2, <2>3
<1>5. CASE state'[i] = state[i]
  <2>1. Trying(i)' = Trying(i) /\ Trying(i) \in 0..1
    BY <1>5 DEF Trying
  <2>2. QED
    BY <1>1, <1>2, <1>4, <1>5, <2>1, HoldingCount, LimitType DEF TriesAccounted, Limit
<1>6. CASE state'[i] # state[i]
  <2>1. i = j /\ state[i] = "failed" /\ state'[i] = "wait" /\ found[p][i] < MaxRetries
    BY <1>1, <1>6 DEF Visit, Revivable, Retryable, TypeOK
  <2>2. p \in Holding(i)
    BY <1>1, <2>1 DEF Holding
  <2>3. Cardinality(Holding(i)') = Cardinality(Holding(i)) - 1
    BY <1>3, <2>1, <2>2, HoldingCount
  <2>4. Trying(i) = 0 /\ Trying(i)' = 1
    BY <2>1 DEF Trying
  <2>5. i \notin DOMAIN found'[p]
    BY <1>1, <2>1
  <2>6. QED
    BY <1>1, <2>1, <2>3, <2>4, <2>5, HoldingCount, LimitType DEF TriesAccounted, Limit
<1>7. QED
  BY <1>5, <1>6

\* Every step keeps the account of tries.
LEMMA RetriesStep ==
  ASSUME IInv, [Next]_vars
  PROVE  RetriesAccounted'
<1> SUFFICES ASSUME NEW i \in Jobs PROVE TriesAccounted(i)'
  BY DEF RetriesAccounted
<1>1. lost \in Nat /\ Stray(i) \in 0..1 /\ Stray(i)' \in 0..1
  BY QueueAssumption DEF IInv, TypeOK, Stray
<1>2. ASSUME NEW j \in Jobs, Add(j) \/ Promote(j) \/ Stall(j)
      PROVE  TriesAccounted(i)'
  <2>1. UNCHANGED <<worker, lock, found, made, lost>>
    BY <1>2 DEF Add, Promote, Stall, running
  <2>2. /\ Stray(i)' = Stray(i)
        /\ \/ state'[i] = state[i]
           \/ state'[i] = "failed"
           \/ state'[i] = "wait" /\ state[i] \in {"none", "active", "delayed"}
    BY <1>2, <2>1 DEF Add, Promote, Stall, IInv, TypeOK, Stray
  <2>3. QED
    BY <1>1, <2>1, <2>2, NoNewTry
<1>3. ASSUME NEW j \in Jobs, Take(j) PROVE TriesAccounted(i)'
  <2>1. /\ UNCHANGED <<found, made, lost>> /\ Stray(i)' = 0
        /\ worker' = i => state'[i] = "active"
        /\ state'[i] = state[i] \/ (state'[i] = "active" /\ state[i] = "wait")
    BY <1>3 DEF Take, IInv, TypeOK, Stray
  <2>2. QED
    BY <1>1, <2>1, NoNewTry
<1>4. CASE Handle \/ Tick \/ UNCHANGED vars
  <2>1. UNCHANGED <<state, worker, lock, found, made, lost>>
    BY <1>4 DEF Handle, Tick, running, vars
  <2>2. Stray(i)' = Stray(i)
    BY <2>1 DEF Stray
  <2>3. QED
    BY <1>1, <2>1, <2>2, NoNewTry
<1>5. CASE LoseLock
  <2>1. UNCHANGED <<state, worker, found, made>> /\ lost' = lost + 1
    BY <1>5 DEF LoseLock
  <2>2. QED
    BY <1>1, <2>1, NoNewTry
<1>6. ASSUME NEW g \in Nat, CleanFailedJobs(g) PROVE TriesAccounted(i)'
  <2>1. UNCHANGED <<worker, lock, found, made, lost>>
    BY <1>6 DEF CleanFailedJobs, running
  <2>2. Stray(i)' = Stray(i) /\ (state'[i] = state[i] \/ state'[i] = "gone")
    BY <1>6, <2>1 DEF CleanFailedJobs, Stray
  <2>3. QED
    BY <1>1, <2>1, <2>2, NoNewTry
<1>7. QED
  BY <1>2, <1>3, <1>4, <1>5, <1>6, FailAccounted, CompleteAccounted, CrashAccounted,
     StartPassAccounted, VisitAccounted, QueueAssumption
  DEF Next, CleanupFailedJobs, CleanQueue

\* An empty queue satisfies the invariant.
LEMMA InitInv == Init => IInv
<1> SUFFICES ASSUME Init PROVE IInv
  OBVIOUS
<1>1. TypeOK
  BY QueueAssumption DEF Init, TypeOK
<1>2. RunsAccounted
  BY DEF Init, RunsAccounted, Owed, Settled
<1>3. NothingLost /\ TimesOrdered
  BY DEF Init, NothingLost, TimesOrdered
<1>4. RetriesAccounted
  BY QueueAssumption, LimitType DEF Init, RetriesAccounted, TriesAccounted, Stray
<1>5. SweptAreGone
  BY DEF Init, SweptAreGone
<1>6. QED
  BY <1>1, <1>2, <1>3, <1>4, <1>5 DEF IInv

\* Every step keeps the invariant.
LEMMA NextInv == IInv /\ [Next]_vars => IInv'
BY TypeStep, RunsStep, LossStep, SweptStep, TimesStep, RetriesStep DEF IInv

\* The invariant of the queue, for any constants.
THEOREM QueueInvariant == Spec => []IInv
BY InitInv, NextInv, PTL DEF Spec

\* Every variable keeps its type.
THEOREM QueueType == Spec => []TypeOK
<1>1. IInv => TypeOK
  BY DEF IInv
<1>2. QED
  BY <1>1, QueueInvariant, PTL

\* A message leaves twice only when a run's outcome was lost.
THEOREM DuplicatesAreExcused == Spec => []DuplicatesExcused
<1>1. IInv => DuplicatesExcused
  BY DEF IInv, TypeOK, RunsAccounted, Owed, Settled, DuplicatesExcused
<1>2. QED
  BY <1>1, QueueInvariant, PTL

\* A job disappears only when its message has left or a cleaning took it.
THEOREM NoJobIsLost == Spec => []NothingLost
<1>1. IInv => NothingLost
  BY DEF IInv
<1>2. QED
  BY <1>1, QueueInvariant, PTL

\* Attempts stay within the limits, the number of overlapping passes and that of the
\* runs that lost their lock.
THEOREM AttemptsAreBounded == Spec => []AttemptsBounded
<1>1. IInv => AttemptsBounded
  <2> SUFFICES ASSUME IInv, NEW j \in Jobs
               PROVE  made[j] <= Limit + Cardinality(Passes) - 1 + lost
    BY DEF AttemptsBounded
  <2>1. /\ made[j] \in Nat /\ TriesAccounted(j)
        /\ Cardinality(Passes) \in Nat /\ Cardinality(Passes) >= 1
        /\ Cardinality(Holding(j)) \in Nat /\ Trying(j) \in Nat
        /\ Stray(j) \in Nat /\ lost \in Nat
    <3>1. /\ made[j] \in Nat /\ TriesAccounted(j) /\ Trying(j) \in Nat
          /\ Stray(j) \in Nat /\ lost \in Nat
      BY QueueAssumption DEF IInv, TypeOK, RetriesAccounted, Trying, Stray
    <3>2. Cardinality(Passes) \in Nat /\ Cardinality(Passes) # 0
      BY QueueAssumption, FS_CardinalityType, FS_EmptySet
    <3>3. QED
      BY <3>1, <3>2, HoldingCount
  <2>2. QED
    BY <2>1, LimitType DEF TriesAccounted
<1>2. QED
  BY <1>1, QueueInvariant, PTL

\* When the retry scheduler gives up on a job no later than the cleanup scheduler
\* takes it -- as for email and notification -- the two never want the same job.
THEOREM CleanupAndRetriesApart ==
  ASSUME MaxAge <= Grace
  PROVE  Spec => []CleanupSparesRetries
<1>1. IInv => CleanupSparesRetries
  BY QueueAssumption
  DEF IInv, TypeOK, TimesOrdered, CleanupSparesRetries, Overdue, In, Retryable
<1>2. QED
  BY <1>1, QueueInvariant, PTL

\* Every step keeps the reasons for which jobs failed.
LEMMA FailuresStep ==
  ASSUME IInv, FailuresExplained, [Next]_vars
  PROVE  FailuresExplained'
<1> USE QueueAssumption DEF IInv, TypeOK, FailuresExplained, Spent, In
<1>1. ASSUME NEW j \in Jobs, Add(j) \/ Take(j) \/ Promote(j) PROVE FailuresExplained'
  BY <1>1 DEF Add, Take, Promote, times, history
<1>2. ASSUME NEW j \in Jobs, Stall(j) PROVE FailuresExplained'
  BY <1>2 DEF Stall
<1>3. CASE Handle \/ LoseLock \/ Tick \/ UNCHANGED vars
  BY <1>3 DEF Handle, LoseLock, Tick, vars
<1>4. CASE Complete
  BY <1>4 DEF Complete, CountAttempt, OnComplete
<1>5. CASE Fail
  BY <1>5 DEF Fail, CountAttempt, OnFail
<1>6. CASE Crash
  BY <1>6 DEF Crash
<1>7. ASSUME NEW p \in Passes, StartPass(p) PROVE FailuresExplained'
  BY <1>7 DEF StartPass
<1>8. ASSUME NEW p \in Passes, NEW j \in Jobs, Visit(p, j) PROVE FailuresExplained'
  BY <1>8 DEF Visit
<1>9. ASSUME NEW g, CleanFailedJobs(g) PROVE FailuresExplained'
  BY <1>9 DEF CleanFailedJobs
<1>10. QED
  BY <1>1, <1>2, <1>3, <1>4, <1>5, <1>6, <1>7, <1>8, <1>9
  DEF Next, CleanupFailedJobs, CleanQueue

\* Every step keeps the account of stalls: a job goes astray with a crash or a lost
\* lock, and the stall that finds it astray brings it back.
LEMMA StallsStep ==
  ASSUME IInv, StallsCaused, [Next]_vars
  PROVE  StallsCaused'
<1> SUFFICES ASSUME NEW i \in Jobs PROVE stalls'[i] + Astray(i)' <= lost'
  BY DEF StallsCaused
<1>1. /\ stalls[i] + Astray(i) <= lost /\ Astray(i) \in 0..1 /\ Astray(i)' \in 0..1
      /\ TypeOK /\ RunsAccounted /\ stalls[i] \in Nat /\ lost \in Nat
  BY QueueAssumption DEF StallsCaused, Astray, IInv, TypeOK
<1>2. ASSUME NEW j \in Jobs, Add(j) \/ Take(j) \/ Promote(j)
      PROVE  stalls'[i] + Astray(i)' <= lost'
  <2>1. UNCHANGED <<stalls, lost>> /\ Astray(i)' <= Astray(i)
    <3>1. UNCHANGED <<stalls, lost>> /\ (lock' = lock \/ lock = None)
      BY <1>1, <1>2 DEF Add, Take, Promote, running, history, TypeOK
    <3>2. state'[i] = "active" => state[i] = "active" \/ lock' = i
      BY <1>1, <1>2 DEF Add, Take, Promote, TypeOK
    <3>3. QED BY <3>1, <3>2, QueueAssumption DEF Astray
  <2>2. QED BY <1>1, <2>1
<1>3. ASSUME NEW j \in Jobs, Stall(j) PROVE stalls'[i] + Astray(i)' <= lost'
  <2>1. CASE i = j
    <3>1. lost' = lost /\ stalls'[i] = stalls[i] + 1 /\ Astray(i) = 1 /\ Astray(i)' = 0
      BY <1>1, <1>3, <2>1 DEF Stall, Astray, TypeOK
    <3>2. QED BY <1>1, <3>1
  <2>2. CASE i # j
    <3>1. lost' = lost /\ stalls'[i] = stalls[i] /\ Astray(i)' = Astray(i)
      BY <1>1, <1>3, <2>2 DEF Stall, Astray, TypeOK, running
    <3>2. QED BY <1>1, <3>1
  <2>3. QED BY <2>1, <2>2
<1>4. CASE LoseLock \/ Crash
  <2>1. lost' = lost + 1 /\ stalls' = stalls
    BY <1>4 DEF LoseLock, Crash
  <2>2. QED BY <1>1, <2>1
<1>5. CASE Complete \/ Fail
  <2>1. UNCHANGED <<stalls, lost>> /\ Astray(i)' <= Astray(i)
    <3>1. /\ UNCHANGED <<stalls, lost>> /\ worker \in Jobs
          /\ i = lock => i = worker /\ lock = worker
      BY <1>1, <1>5, QueueAssumption DEF Complete, Fail, history, times, TypeOK
    <3>2. /\ i = lock => state'[i] # "active"
          /\ state'[i] = "active" => state[i] = "active"
      BY <1>1, <1>5, <3>1 DEF Complete, OnComplete, Fail, OnFail, TypeOK, RunsAccounted
    <3>3. QED BY <3>1, <3>2 DEF Astray
  <2>2. QED BY <1>1, <2>1
<1>6. ASSUME NEW p \in Passes, NEW j \in Jobs, Visit(p, j)
      PROVE  stalls'[i] + Astray(i)' <= lost'
  <2>1. UNCHANGED <<stalls, lost>> /\ Astray(i)' <= Astray(i)
    BY <1>1, <1>6 DEF Visit, running, Astray, TypeOK
  <2>2. QED BY <1>1, <2>1
<1>7. ASSUME NEW g, CleanFailedJobs(g) PROVE stalls'[i] + Astray(i)' <= lost'
  <2>1. UNCHANGED <<stalls, lost>> /\ Astray(i)' <= Astray(i)
    BY <1>1, <1>7 DEF CleanFailedJobs, running, Astray, TypeOK
  <2>2. QED BY <1>1, <2>1
<1>8. ASSUME UNCHANGED <<stalls, lost, state, lock>> PROVE stalls'[i] + Astray(i)' <= lost'
  BY <1>1, <1>8 DEF Astray
<1>9. ASSUME NEW p \in Passes, StartPass(p) PROVE UNCHANGED <<stalls, lost, state, lock>>
  BY <1>9 DEF StartPass, running
<1>10. CASE Handle \/ Tick \/ UNCHANGED vars
  BY <1>8, <1>10 DEF Handle, Tick, running, vars
<1>11. QED
  BY <1>2, <1>3, <1>4, <1>5, <1>6, <1>7, <1>8, <1>9, <1>10
  DEF Next, CleanupFailedJobs, CleanQueue

\* A visit that retries a job below the limit finds one that stalled too often.
LEMMA RevivedStep ==
  ASSUME MaxRetries <= Attempts, StallInv, StallsCaused', [Next]_vars
  PROVE  RetriesOnlyStalled'
<1>1. /\ TypeOK /\ StallsCaused /\ RetriesOnlyStalled /\ FailuresExplained
      /\ revived \subseteq Jobs /\ stalls \in [Jobs -> Nat] /\ lost \in Nat /\ lost' \in Nat
      /\ stalls' \in [Jobs -> Nat]
  BY TypeStep DEF StallInv, IInv, TypeOK
<1>2. \A i \in Jobs : stalls'[i] >= stalls[i]
  <2>1. stalls' = stalls \/ \E j \in Jobs : stalls' = [stalls EXCEPT ![j] = @ + 1]
    BY DEF Next, Add, Take, Promote, Stall, Handle, Complete, Fail, LoseLock, Crash,
           StartPass, Visit, CleanupFailedJobs, CleanQueue, CleanFailedJobs, Tick, vars
  <2>2. QED BY <1>1, <2>1
<1>3. \A i \in revived' \ revived : stalls[i] > MaxStalled
  <2>1. ASSUME NEW p \in Passes, NEW j \in Jobs, Visit(p, j), j \notin revived, j \in revived'
        PROVE  stalls[j] > MaxStalled
    <3>1. j \in DOMAIN found[p] /\ found[p][j] < MaxRetries /\ found[p][j] \in Nat
      BY <1>1, <2>1 DEF Visit, Revivable, Retryable, TypeOK
    <3>2. Spent(j, found[p][j])
      BY <1>1, <3>1 DEF FailuresExplained
    <3>3. QED BY <3>1, <3>2, QueueAssumption DEF Spent
  <2>2. revived' = revived \/ \E p \in Passes, j \in Jobs :
          Visit(p, j) /\ revived' \subseteq revived \union {j}
    BY DEF Next, Add, Take, Promote, Stall, Handle, Complete, Fail, LoseLock, Crash,
           StartPass, Visit, CleanupFailedJobs, CleanQueue, CleanFailedJobs, Tick, vars,
           history
  <2>3. QED BY <2>1, <2>2
<1>4. ASSUME NEW i \in revived' PROVE MaxStalled < stalls'[i] /\ stalls'[i] <= lost'
  <2>1. i \in Jobs
    BY <1>1, TypeStep DEF StallInv, TypeOK
  <2>2. stalls[i] > MaxStalled
    BY <1>1, <1>3, <1>4 DEF RetriesOnlyStalled
  <2>3. stalls'[i] <= lost'
    <3>1. stalls'[i] + Astray(i)' <= lost' /\ Astray(i)' \in 0..1
      BY <2>1 DEF StallsCaused, Astray
    <3>2. QED BY <1>1, <2>1, <3>1
  <2>4. QED BY <1>1, <1>2, <2>1, <2>2, <2>3, QueueAssumption
<1>5. QED BY <1>4 DEF RetriesOnlyStalled

\* Where the scheduler's limit is no more than the attempts of a job, as for email and
\* notification, it retries only jobs that crashes and lost locks made stall too often.
THEOREM OnlyStalledAreRetried ==
  ASSUME MaxRetries <= Attempts
  PROVE  Spec => []RetriesOnlyStalled
<1>1. Init => StallInv
  BY InitInv, QueueAssumption
  DEF Init, StallInv, FailuresExplained, StallsCaused, RetriesOnlyStalled, In, Astray
<1>2. StallInv /\ [Next]_vars => StallInv'
  BY NextInv, FailuresStep, StallsStep, RevivedStep DEF StallInv
<1>3. StallInv => RetriesOnlyStalled
  BY DEF StallInv
<1>4. QED
  BY <1>1, <1>2, <1>3, PTL DEF Spec

-----------------------------------------------------------------------------
(* The refinement.                                                            *)

OpenStates == {"wait", "active", "delayed", "failed"}

LEMMA SeenOpen ==
  ASSUME NEW j \in Jobs, state[j] \in OpenStates
  PROVE  seen[j] = "open"
BY DEF seen, OpenStates

\* A move between states of an open job is not seen.
LEMMA SeenKept ==
  ASSUME swept' = swept,
         \A j \in Jobs : state'[j] = state[j] \/ {state[j], state'[j]} \subseteq OpenStates
  PROVE  seen' = seen
<1>1. ASSUME NEW j \in Jobs PROVE seen'[j] = seen[j]
  BY <1>1 DEF seen, OpenStates
<1>2. QED BY <1>1 DEF seen

LEMMA ServiceInit == Init => Service!Init
BY DEF Init, Service!Init, seen

\* A message leaves: the run holds the lock, or it was given up and excused before.
LEMMA ServiceSend ==
  ASSUME IInv, Handle
  PROVE  Service!Next \/ UNCHANGED <<seen, sends, excused>>
<1>1. worker \in Jobs /\ wstep = "run" /\ UNCHANGED <<state, swept>>
  BY DEF Handle, IInv, TypeOK
<1>2. seen' = seen
  BY <1>1, SeenKept
<1>3. CASE UNCHANGED <<sends, excused>>
  BY <1>2, <1>3
<1>4. CASE /\ sends' = [sends EXCEPT ![worker] = @ + 1]
           /\ excused' \in {excused, [excused EXCEPT ![worker] = @ + 1]}
  <2>1. sends[worker] \in Nat /\ excused[worker] \in Nat
    BY <1>1 DEF IInv, TypeOK
  <2>2. sends[worker] + Owed(worker) <= excused[worker] + Settled(worker)
    BY <1>1 DEF IInv, RunsAccounted
  <2>3. /\ sends[worker] <= excused[worker]
        /\ seen[worker] = "open" \/ excused[worker] > 0
    <3>1. CASE lock = worker
      <4>1. state[worker] = "active"
        BY <1>1, <3>1, QueueAssumption DEF IInv, RunsAccounted
      <4>2. Owed(worker) = 0 /\ Settled(worker) = 0
        BY <1>1, <3>1, <4>1 DEF Owed, Settled
      <4>3. QED BY <1>1, <2>1, <2>2, <4>1, <4>2, SeenOpen DEF OpenStates
    <3>2. CASE lock # worker
      <4>1. Owed(worker) = 1
        BY <1>1, <3>2 DEF Owed
      <4>2. CASE state[worker] = "gone" /\ worker \notin swept
        <5>1. Settled(worker) = 1 /\ sends[worker] > 0
          BY <1>1, <4>2 DEF Settled, IInv, NothingLost
        <5>2. QED BY <2>1, <2>2, <4>1, <5>1
      <4>3. CASE ~(state[worker] = "gone" /\ worker \notin swept)
        <5>1. Settled(worker) = 0
          BY <1>1, <4>3 DEF Settled
        <5>2. QED BY <2>1, <2>2, <4>1, <5>1
      <4>4. QED BY <4>2, <4>3
    <3>3. QED BY <3>1, <3>2
  <2>4. Service!Send(worker)
    BY <1>2, <1>4, <2>3 DEF Service!Send
  <2>5. QED BY <1>1, <2>4 DEF Service!Next
<1>5. QED BY <1>3, <1>4 DEF Handle

\* Every step is a step of the service, or none.
LEMMA ServiceStep == IInv /\ [Next]_vars => [Service!Next]_<<seen, sends, excused>>
<1> SUFFICES ASSUME IInv, [Next]_vars PROVE Service!Next \/ UNCHANGED <<seen, sends, excused>>
  OBVIOUS
<1>1. ASSUME NEW j \in Jobs, Add(j) PROVE Service!Next
  <2>1. /\ state[j] = "none" /\ state' = [state EXCEPT ![j] = "wait"]
        /\ UNCHANGED <<swept, sends, excused>>
        /\ state = [i \in Jobs |-> state[i]]
    BY <1>1 DEF Add, history, IInv, TypeOK
  <2>2. seen[j] = "none" /\ seen' = [seen EXCEPT ![j] = "open"]
    BY <2>1 DEF seen
  <2>3. Service!Accept(j)
    BY <2>1, <2>2 DEF Service!Accept
  <2>4. QED BY <2>3 DEF Service!Next
<1>2. ASSUME NEW j \in Jobs, Take(j) \/ Promote(j) \/ Stall(j)
      PROVE  UNCHANGED <<seen, sends, excused>>
  <2>1. UNCHANGED <<swept, sends, excused>>
    BY <1>2 DEF Take, Promote, Stall, history
  <2>2. \A i \in Jobs : state'[i] = state[i] \/ {state[i], state'[i]} \subseteq OpenStates
    BY <1>2 DEF Take, Promote, Stall, OpenStates, IInv, TypeOK
  <2>3. QED BY <2>1, <2>2, SeenKept
<1>3. CASE Complete
  <2>1. CASE lock # worker
    <3>1. UNCHANGED <<state, swept, sends, excused>>
      BY <1>3, <2>1 DEF Complete, history
    <3>2. QED BY <3>1, SeenKept
  <2>2. CASE lock = worker
    <3>1. /\ worker \in Jobs /\ state[worker] = "active" /\ sends[worker] > 0
          /\ state' = [state EXCEPT ![worker] = "gone"]
          /\ UNCHANGED <<swept, sends, excused>>
          /\ state = [i \in Jobs |-> state[i]]
      BY <1>3, <2>2, QueueAssumption
      DEF Complete, OnComplete, history, IInv, TypeOK, RunsAccounted
    <3>2. worker \notin swept
      BY <3>1 DEF IInv, SweptAreGone
    <3>3. seen[worker] = "open" /\ seen' = [seen EXCEPT ![worker] = "delivered"]
      BY <3>1, <3>2 DEF seen
    <3>4. Service!Deliver(worker)
      BY <3>1, <3>3 DEF Service!Deliver
    <3>5. QED BY <3>1, <3>4 DEF Service!Next
  <2>3. QED BY <2>1, <2>2
<1>4. CASE Fail
  <2>1. UNCHANGED <<swept, sends, excused>>
    BY <1>4 DEF Fail, history
  <2>2. \A i \in Jobs : state'[i] = state[i] \/ {state[i], state'[i]} \subseteq OpenStates
    BY <1>4 DEF Fail, OnFail, OpenStates, IInv, TypeOK, RunsAccounted
  <2>3. QED BY <2>1, <2>2, SeenKept
<1>5. CASE LoseLock \/ Crash
  <2>1. UNCHANGED <<state, swept, sends>>
    BY <1>5 DEF LoseLock, Crash
  <2>2. seen' = seen
    BY <2>1, SeenKept
  <2>3. CASE lock = None
    BY <1>5, <2>1, <2>2, <2>3 DEF LoseLock, Crash
  <2>4. CASE lock # None
    <3>1. lock \in Jobs /\ excused' = [excused EXCEPT ![lock] = @ + 1]
      BY <1>5, <2>4 DEF LoseLock, Crash, IInv, TypeOK
    <3>2. seen[lock] = "open"
      BY <2>4, <3>1, SeenOpen DEF IInv, RunsAccounted, OpenStates
    <3>3. Service!Excuse(lock)
      BY <2>1, <2>2, <3>1, <3>2 DEF Service!Excuse
    <3>4. QED BY <3>1, <3>3 DEF Service!Next
  <2>5. QED BY <2>3, <2>4
<1>6. ASSUME NEW p \in Passes, NEW j \in Jobs, Visit(p, j)
      PROVE  UNCHANGED <<seen, sends, excused>>
  <2>1. UNCHANGED <<swept, sends, excused>>
    BY <1>6 DEF Visit
  <2>2. \A i \in Jobs : state'[i] = state[i] \/ {state[i], state'[i]} \subseteq OpenStates
    BY <1>6 DEF Visit, Revivable, OpenStates, IInv, TypeOK
  <2>3. QED BY <2>1, <2>2, SeenKept
<1>7. ASSUME NEW g, CleanFailedJobs(g) PROVE Service!Next
  <2> DEFINE S == Overdue(g)
  <2>1. /\ S # {} /\ S \subseteq Jobs /\ \A j \in S : state[j] = "failed"
        /\ state' = [j \in Jobs |-> IF j \in S THEN "gone" ELSE state[j]]
        /\ swept' = swept \union S /\ UNCHANGED <<sends, excused>>
    BY <1>7 DEF CleanFailedJobs, Overdue, In
  <2> HIDE DEF S
  <2>2. \A j \in S : seen[j] = "open"
    BY <2>1, SeenOpen DEF OpenStates
  <2>3. seen' = [j \in Jobs |-> IF j \in S THEN "dropped" ELSE seen[j]]
    BY <2>1 DEF seen
  <2>4. Service!Drop(S)
    BY <2>1, <2>2, <2>3 DEF Service!Drop
  <2>5. QED BY <2>1, <2>4 DEF Service!Next
<1>8. ASSUME UNCHANGED <<state, swept, sends, excused>>
      PROVE  UNCHANGED <<seen, sends, excused>>
  BY <1>8, SeenKept
<1>9. ASSUME NEW p \in Passes, StartPass(p) PROVE UNCHANGED <<seen, sends, excused>>
  BY <1>8, <1>9 DEF StartPass, history
<1>10. CASE Tick \/ UNCHANGED vars
  BY <1>8, <1>10 DEF Tick, history, vars
<1>11. QED
  BY <1>1, <1>2, <1>3, <1>4, <1>5, <1>6, <1>7, <1>9, <1>10, ServiceSend
  DEF Next, CleanupFailedJobs, CleanQueue

\* The queue implements the service: no closed job opens again, none closes unsent,
\* and its message leaves once but for the runs that were given up.
THEOREM QueueImplementsService == Spec => ImplementsService
<1>1. QED
  BY ServiceInit, ServiceStep, QueueInvariant, PTL
  DEF Spec, ImplementsService, Service!Spec
=============================================================================
