----------------------------- MODULE MCJobQueue -----------------------------
(* Small instances of JobQueue.  The clock counts half days for the email     *)
(* queue and days for the default queue.                                      *)
EXTENDS JobQueue, TLC

JobSymmetry == Permutations(Jobs) \union Permutations(Passes)
=============================================================================
