--------------------------- MODULE MCAuthSessions ---------------------------
(* Small instances of AuthSessions.                                          *)
EXTENDS AuthSessions, TLC

CONSTANTS u1, u2, t1, t2, t3, r1, r2, r3

AllKinds == Kinds

\* One live session of u1.
OneSession == { [t \in Tokens |-> IF t = t1 THEN u1 ELSE None] }

SlotSymmetry == Permutations(Reqs)
=============================================================================
