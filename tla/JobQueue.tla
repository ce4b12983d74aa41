------------------------------ MODULE JobQueue ------------------------------
(***************************************************************************)
(* One of the Bull queues (email, notification, default), its processor,   *)
(* the schedulers that retry and clean its failed jobs, and the            *)
(* administrator's clean request.  The jobs live in Redis and survive the  *)
(* process; the processor and the scheduler passes die with it.            *)
(*                                                                         *)
(* The queues differ in constants only.  Every job has the default options *)
(* (nothing in the code passes others): Attempts tries, removed when       *)
(* complete, so that the set of completed jobs stays empty and cleaning it *)
(* does nothing.  Waiting jobs are a set: their order matters to nothing   *)
(* below.                                                                  *)
(***************************************************************************)
EXTENDS Naturals, FiniteSets

CONSTANTS
  Jobs,        \* jobs that may be added
  Passes,      \* passes of the retry scheduler that may overlap
  Attempts,    \* option attempts
  MaxRetries,  \* retry scheduler: attempts from which a job is left alone
  MaxAge,      \* retry scheduler: age from which a job is left alone
  Grace,       \* cleanup scheduler: time a job stays failed
  Graces,      \* the graces an administrator's clean request may carry
  MaxStalled,  \* Bull: times a job may stall before it fails
  MaxNow,      \* the clock's last value (a bound)
  MaxLost,     \* crashes and lost locks (a bound)
  None

ASSUME QueueAssumption ==
  /\ Attempts \in Nat \ {0}
  /\ {MaxRetries, MaxAge, Grace, MaxStalled, MaxNow, MaxLost} \subseteq Nat
  /\ Graces \subseteq Nat
  /\ Passes # {} /\ IsFiniteSet(Passes)
  /\ None \notin Jobs

VARIABLES
  state,    \* where each job is
  made,     \* attemptsMade
  stalls,   \* stalledCounter
  born,     \* timestamp: when the job was added
  ended,    \* finishedOn: when it failed
  now,
  worker,   \* the job the processor runs, or None
  wstep,    \* where its handler is: "run", "sent" or "error"
  lock,     \* the job whose lock the processor holds, or None
  found,    \* per pass, the failed jobs still to visit, with attemptsMade as read
  lost,     \* crashes and lost locks so far
  sends,    \* history: messages that left, per job
  excused,  \* history: runs whose outcome the queue never learned, per job
  revived,  \* history: jobs a pass has retried
  swept     \* history: jobs removed by cleaning

vars == <<state, made, stalls, born, ended, now, worker, wstep, lock, found, lost,
          sends, excused, revived, swept>>
-----------------------------------------------------------------------------
In(s) == {j \in Jobs : state[j] = s}

\* Where removeOnComplete (true) and removeOnFail (false) leave a job; their mutants.
OnCompleteKept == "completed"
OnComplete     == "gone"
OnFailRemoved  == "gone"
OnFail         == "failed"

\* Mutant of Retryable: off by one.
RetryablePast(j, n) == n <= MaxRetries /\ now - born[j] < MaxAge

\* The retry scheduler's condition on a job whose attemptsMade it read as n.
Retryable(j, n) == n < MaxRetries /\ now - born[j] < MaxAge

\* Mutant of Overdue: the grace is ignored.
OverdueAtOnce(grace) == In("failed")

\* queue.clean(grace, 'failed') takes the jobs that failed at least grace ago.
Overdue(grace) == {j \in In("failed") : now - ended[j] >= grace}

Init ==
  /\ state = [j \in Jobs |-> "none"]
  /\ made = [j \in Jobs |-> 0]
  /\ stalls = [j \in Jobs |-> 0]
  /\ born = [j \in Jobs |-> 0]
  /\ ended = [j \in Jobs |-> 0]
  /\ now = 0
  /\ worker = None
  /\ wstep = "run"
  /\ lock = None
  /\ found = [p \in Passes |-> [j \in {} |-> 0]]
  /\ lost = 0
  /\ sends = [j \in Jobs |-> 0]
  /\ excused = [j \in Jobs |-> 0]
  /\ revived = {}
  /\ swept = {}

running == <<worker, wstep, lock>>
times   == <<born, ended, now>>
history == <<sends, excused, revived, swept>>

\* addJob, addEmailJob, addNotificationJob.
Add(j) ==
  /\ state[j] = "none"
  /\ state' = [state EXCEPT ![j] = "wait"]
  /\ born' = [born EXCEPT ![j] = now]
  /\ UNCHANGED <<made, stalls, ended, now, running, found, lost, history>>

\* The processor, idle, takes a waiting job and its lock.
Take(j) ==
  /\ worker = None /\ state[j] = "wait"
  /\ state' = [state EXCEPT ![j] = "active"]
  /\ worker' = j /\ lock' = j /\ wstep' = "run"
  /\ UNCHANGED <<made, stalls, times, found, lost, history>>

\* The handler sends: the message left, or an error is thrown -- which does not
\* say that the message did not leave.
Handle ==
  LET sent == sends' = [sends EXCEPT ![worker] = @ + 1]
  IN /\ worker # None /\ wstep = "run"
     /\ \/ sent /\ wstep' = "sent" /\ UNCHANGED excused
        \/ wstep' = "error" /\ UNCHANGED <<sends, excused>>
        \/ sent /\ wstep' = "error" /\ excused' = [excused EXCEPT ![worker] = @ + 1]
     /\ UNCHANGED <<state, made, stalls, times, worker, lock, found, lost, revived, swept>>

\* The attempt is counted in the job, whether or not the move that follows is allowed.
CountAttempt == made' = [made EXCEPT ![worker] = @ + 1]

\* The handler returned: the job is complete and removed.  If its lock is gone, Bull
\* refuses the move and takes the refusal for a failure, refused as well.
Complete ==
  /\ worker # None /\ wstep = "sent"
  /\ worker' = None /\ lock' = None
  /\ \/ /\ lock = worker
        /\ state' = [state EXCEPT ![worker] = OnComplete]
        /\ UNCHANGED made
     \/ /\ lock # worker
        /\ CountAttempt
        /\ UNCHANGED state
  /\ UNCHANGED <<stalls, times, wstep, found, lost, history>>

\* The handler threw: the job waits for its next attempt or has failed, unless its
\* lock is gone.
Fail ==
  LET last == made[worker] + 1 >= Attempts
  IN /\ worker # None /\ wstep = "error"
     /\ worker' = None /\ lock' = None
     /\ CountAttempt
     /\ \/ /\ lock = worker
           /\ state' = [state EXCEPT ![worker] = IF last THEN OnFail ELSE "delayed"]
           /\ ended' = IF last THEN [ended EXCEPT ![worker] = now] ELSE ended
        \/ /\ lock # worker
           /\ UNCHANGED <<state, ended>>
     /\ UNCHANGED <<stalls, born, now, wstep, found, lost, history>>

\* Mutant of Promote: the backoff of a second failure never ends.
PromoteOnce(j) ==
  /\ state[j] = "delayed" /\ made[j] < 2
  /\ state' = [state EXCEPT ![j] = "wait"]
  /\ UNCHANGED <<made, stalls, times, running, found, lost, history>>

\* The backoff has passed.
Promote(j) ==
  /\ state[j] = "delayed"
  /\ state' = [state EXCEPT ![j] = "wait"]
  /\ UNCHANGED <<made, stalls, times, running, found, lost, history>>

\* The process is too busy to renew the lock of the job it runs.
LoseLock ==
  /\ lock # None /\ lost < MaxLost
  /\ lost' = lost + 1
  /\ lock' = None
  /\ excused' = [excused EXCEPT ![lock] = @ + 1]
  /\ UNCHANGED <<state, made, stalls, times, worker, wstep, found, sends, revived, swept>>

\* The process dies and starts again: handlers and passes are gone.
Crash ==
  /\ lost < MaxLost
  /\ lost' = lost + 1
  /\ worker' = None /\ lock' = None
  /\ excused' = IF lock = None THEN excused ELSE [excused EXCEPT ![lock] = @ + 1]
  /\ found' = [p \in Passes |-> [j \in {} |-> 0]]
  /\ UNCHANGED <<state, made, stalls, times, wstep, sends, revived, swept>>

\* Bull finds an active job without a lock: it runs again, or has stalled too often.
Stall(j) ==
  LET failed == stalls[j] + 1 > MaxStalled
  IN /\ state[j] = "active" /\ lock # j
     /\ stalls' = [stalls EXCEPT ![j] = @ + 1]
     /\ state' = [state EXCEPT ![j] = IF failed THEN "failed" ELSE "wait"]
     /\ ended' = IF failed THEN [ended EXCEPT ![j] = now] ELSE ended
     /\ UNCHANGED <<made, born, now, running, found, lost, history>>

\* retryFailed*Jobs: a pass reads the failed jobs ...
StartPass(p) ==
  /\ DOMAIN found[p] = {}
  /\ found' = [found EXCEPT ![p] = [j \in In("failed") |-> made[j]]]
  /\ UNCHANGED <<state, made, stalls, times, running, lost, history>>

\* Mutant of Revivable: a job is put back whatever has become of it.
RevivableAlways(p, j) == Retryable(j, found[p][j])

\* job.retry() throws, and the pass goes on, when the job is no longer failed.
Revivable(p, j) == Retryable(j, found[p][j]) /\ state[j] = "failed"

\* ... and visits one after the other; a retry does not reset attemptsMade.
Visit(p, j) ==
  /\ j \in DOMAIN found[p]
  /\ found' = [found EXCEPT ![p] = [i \in DOMAIN @ \ {j} |-> @[i]]]
  /\ \/ /\ Revivable(p, j)
        /\ state' = [state EXCEPT ![j] = "wait"]
        /\ revived' = revived \union {j}
     \/ /\ ~Revivable(p, j)
        /\ UNCHANGED <<state, revived>>
  /\ UNCHANGED <<made, stalls, times, running, lost, sends, excused, swept>>

CleanFailedJobs(grace) ==
  /\ Overdue(grace) # {}
  /\ state' = [j \in Jobs |-> IF j \in Overdue(grace) THEN "gone" ELSE state[j]]
  /\ swept' = swept \union Overdue(grace)
  /\ UNCHANGED <<made, stalls, times, running, found, lost, sends, excused, revived>>

\* cleanupFailedJobs of the scheduler, and DELETE /queue/clean/:queueName.
CleanupFailedJobs == CleanFailedJobs(Grace)
CleanQueue        == \E grace \in Graces : CleanFailedJobs(grace)

Tick ==
  /\ now < MaxNow
  /\ now' = now + 1
  /\ UNCHANGED <<state, made, stalls, born, ended, running, found, lost, history>>

Next ==
  \/ \E j \in Jobs : Add(j) \/ Take(j) \/ Promote(j) \/ Stall(j)
  \/ Handle \/ Complete \/ Fail \/ LoseLock \/ Crash
  \/ \E p \in Passes : StartPass(p) \/ \E j \in Jobs : Visit(p, j)
  \/ CleanupFailedJobs \/ CleanQueue
  \/ Tick

Spec == Init /\ [][Next]_vars

\* Bull keeps working: it hands out waiting jobs, ends backoffs, finds stalled jobs;
\* a handler ends.  Nothing is promised of crashes, the schedulers or the clock.
FairSpec ==
  /\ Spec
  /\ WF_vars(\E j \in Jobs : Take(j))
  /\ WF_vars(Handle) /\ WF_vars(Complete) /\ WF_vars(Fail)
  /\ \A j \in Jobs : WF_vars(Promote(j)) /\ WF_vars(Stall(j))
-----------------------------------------------------------------------------
\* Every variable has its type.
TypeOK ==
  /\ state \in [Jobs -> {"none", "wait", "active", "delayed", "failed", "gone"}]
  /\ made \in [Jobs -> Nat]
  /\ stalls \in [Jobs -> Nat]
  /\ born \in [Jobs -> 0..MaxNow]
  /\ ended \in [Jobs -> 0..MaxNow]
  /\ now \in 0..MaxNow
  /\ worker \in Jobs \union {None}
  /\ wstep \in {"run", "sent", "error"}
  /\ lock \in {worker, None}
  /\ DOMAIN found = Passes
  /\ \A p \in Passes : /\ DOMAIN found[p] \subseteq Jobs
                       /\ \A j \in DOMAIN found[p] : found[p][j] \in Nat
  /\ lost \in 0..MaxLost
  /\ sends \in [Jobs -> Nat]
  /\ excused \in [Jobs -> Nat]
  /\ revived \subseteq Jobs /\ swept \subseteq Jobs

\* A message leaves more often than once only if as many runs were cut short or
\* ended in an error after it had left: neither the queue's retries nor the retry
\* scheduler's, on whatever it had read, repeat a message that was delivered.
DuplicatesExcused == \A j \in Jobs : sends[j] <= 1 + excused[j]

\* A job disappears only when its message has left or a cleaning took it.
NothingLost == \A j \in Jobs : state[j] = "gone" => sends[j] > 0 \/ j \in swept

\* The scheduler's retries, decided on attemptsMade as read at the start of the
\* pass, exceed the limits by no more than the passes that overlap and the runs that
\* lost their lock, whose attempts count although they decide nothing.
Limit == IF Attempts >= MaxRetries THEN Attempts ELSE MaxRetries

AttemptsBounded == \A j \in Jobs : made[j] <= Limit + Cardinality(Passes) - 1 + lost

\* The cleanup scheduler never takes a job that the retry scheduler would revive.
CleanupSparesRetries ==
  \A j \in Overdue(Grace) : ~Retryable(j, made[j])

\* When the limit of the retry scheduler is no more than the queue's attempts -- it is
\* 3 of 3 for email and notification -- a pass retries only jobs whose runs were lost
\* too often, each time by a crash or a lost lock: never one that failed by its errors.
RetriesOnlyStalled == \A j \in revived : MaxStalled < stalls[j] /\ stalls[j] <= lost

\* Whatever fails, stalls or is retried, every job that was added comes to rest:
\* it is gone, or it has failed for good.
JobsSettle == <>[](\A j \in Jobs : state[j] \in {"none", "failed", "gone"})

\* What a client of the queue sees of a job.
seen == [j \in Jobs |-> CASE state[j] = "none" -> "none"
                          [] state[j] = "gone" -> IF j \in swept THEN "dropped" ELSE "delivered"
                          [] OTHER             -> "open"]

Service == INSTANCE JobService WITH status <- seen, copies <- sends, excuses <- excused

\* The queue is a JobService: through crashes, stalls, retries by passes that read
\* the jobs long ago, and cleanings, no job that was delivered or dropped opens
\* again, none is closed unsent, and none sends after it is closed but from a run
\* that was given up before.
ImplementsService == Service!Spec

(* The inductive invariant.                                                  *)

\* A run that still holds its lock is the only one that may have sent without an
\* excuse; a run that has lost it is excused before it sends.
Owed(j)    == IF worker = j /\ lock # j /\ wstep = "run" THEN 1 ELSE 0
Settled(j) == IF (state[j] = "gone" /\ j \notin swept) \/ (worker = j /\ lock = j /\ wstep = "sent")
                THEN 1 ELSE 0

RunsAccounted ==
  /\ lock # None => state[lock] = "active"
  /\ worker # None /\ wstep = "sent" => sends[worker] > 0
  /\ \A j \in Jobs : sends[j] + Owed(j) <= excused[j] + Settled(j)

SweptAreGone == \A j \in swept : state[j] = "gone"

\* A job has failed no earlier than it was added.
TimesOrdered ==
  \A j \in Jobs : /\ born[j] <= now
                  /\ state[j] = "failed" => born[j] <= ended[j]

\* The passes that would still retry a job, and whether a try is under way.
Holding(j) == {p \in Passes : j \in DOMAIN found[p] /\ found[p][j] < MaxRetries}
Trying(j)  == IF state[j] \in {"wait", "active", "delayed"} THEN 1 ELSE 0

\* A run without its lock: its attempt is still to be counted.
Stray(j)   == IF worker = j /\ lock # j THEN 1 ELSE 0

\* The pass that revived a job holds it no more; past the limit, tries made, tries
\* under way and tries still to come are accounted for, those of lost runs by lost.
TriesAccounted(j) ==
  /\ state[j] = "none" => made[j] = 0 /\ worker # j
  /\ Stray(j) <= lost
  /\ state[j] \notin {"failed", "gone"} => \E p \in Passes : j \notin DOMAIN found[p]
  /\ made[j] >= Limit =>
       made[j] + Cardinality(Holding(j)) + Trying(j) + Stray(j)
         <= Limit + Cardinality(Passes) - 1 + lost

RetriesAccounted == \A j \in Jobs : TriesAccounted(j)

IInv == TypeOK /\ RunsAccounted /\ SweptAreGone /\ NothingLost /\ TimesOrdered /\ RetriesAccounted

\* A job fails with its attempts used up or stalled too often, also as a pass read it.
Spent(j, n) == n >= Attempts \/ stalls[j] > MaxStalled

FailuresExplained ==
  /\ \A j \in In("failed") : Spent(j, made[j])
  /\ \A p \in Passes : \A j \in DOMAIN found[p] : Spent(j, found[p][j])

\* A job has stalled, or will be found to, once for each crash and lost lock at most.
Astray(j) == IF state[j] = "active" /\ lock # j THEN 1 ELSE 0

StallsCaused == \A j \in Jobs : stalls[j] + Astray(j) <= lost

StallInv == IInv /\ FailuresExplained /\ StallsCaused /\ RetriesOnlyStalled
-----------------------------------------------------------------------------
\* retry.scheduler.ts:19 "Retry failed email jobs every 30 minutes" -- a pass that
\* comes to a failed job, young enough and never retried by a pass before, retries
\* it.  A job that has used up its attempts already has as many as the limit.
FailedJobsAreRetried ==
  [][\A p \in Passes, j \in Jobs :
       (Visit(p, j) /\ state[j] = "failed" /\ now - born[j] < MaxAge /\ j \notin revived)
         => state'[j] = "wait"]_vars
=============================================================================
