----------------------------- MODULE JobService ------------------------------
(* What a queue promises of its jobs, seen from outside: an accepted job stays *)
(* open until its message has left or someone gives it up, and never opens     *)
(* again; its message leaves once, and once more for each run that ended       *)
(* without the queue's knowledge.  JobQueue implements this with the states of *)
(* Bull, locks, retries and cleanings.                                         *)
EXTENDS Naturals

CONSTANT Jobs

VARIABLES
  status,   \* "none", "open", "delivered" or "dropped"
  copies,   \* messages that left
  excuses   \* runs the queue does not know the end of

Init ==
  /\ status = [j \in Jobs |-> "none"]
  /\ copies = [j \in Jobs |-> 0]
  /\ excuses = [j \in Jobs |-> 0]

Accept(j) ==
  /\ status[j] = "none"
  /\ status' = [status EXCEPT ![j] = "open"]
  /\ UNCHANGED <<copies, excuses>>

\* After the job is closed only a run that was given up may still send.
Send(j) ==
  /\ copies[j] <= excuses[j]
  /\ status[j] = "open" \/ excuses[j] > 0
  /\ copies' = [copies EXCEPT ![j] = @ + 1]
  /\ excuses' \in {excuses, [excuses EXCEPT ![j] = @ + 1]}
  /\ UNCHANGED status

Excuse(j) ==
  /\ status[j] = "open"
  /\ excuses' = [excuses EXCEPT ![j] = @ + 1]
  /\ UNCHANGED <<status, copies>>

Deliver(j) ==
  /\ status[j] = "open" /\ copies[j] > 0
  /\ status' = [status EXCEPT ![j] = "delivered"]
  /\ UNCHANGED <<copies, excuses>>

Drop(S) ==
  /\ S # {} /\ \A j \in S : status[j] = "open"
  /\ status' = [j \in Jobs |-> IF j \in S THEN "dropped" ELSE status[j]]
  /\ UNCHANGED <<copies, excuses>>

Next ==
  \/ \E j \in Jobs : Accept(j) \/ Send(j) \/ Excuse(j) \/ Deliver(j)
  \/ \E S \in SUBSET Jobs : Drop(S)

Spec == Init /\ [][Next]_<<status, copies, excuses>>
=============================================================================
