--------------------------- MODULE SessionRegistry --------------------------
(***************************************************************************)
(* What the refresh tokens promise, seen from outside: a token is issued   *)
(* once, to one account, and from then on it can only die -- nothing gives *)
(* a dead token back its power or moves it to another account.  AuthSessions *)
(* implements this with a cache of token payloads.                         *)
(***************************************************************************)
CONSTANTS Users, Tokens, NoOwner

VARIABLES
  owner,   \* the account each token was issued to
  state    \* "fresh" (never issued), "live" or "dead"

Init ==
  /\ owner \in [Tokens -> Users \union {NoOwner}]
  /\ state = [t \in Tokens |-> IF owner[t] = NoOwner THEN "fresh" ELSE "live"]

\* A fresh token is issued; it may be born dead, when storing it fails.
Issue(t, u) ==
  /\ state[t] = "fresh"
  /\ owner' = [owner EXCEPT ![t] = u]
  /\ \E s \in {"live", "dead"} : state' = [state EXCEPT ![t] = s]

\* A live token dies: logout, exchange, expiry or loss of the cache.
Die(t) ==
  /\ state[t] = "live"
  /\ state' = [state EXCEPT ![t] = "dead"]
  /\ UNCHANGED owner

Next == \E t \in Tokens : Die(t) \/ \E u \in Users : Issue(t, u)

Spec == Init /\ [][Next]_<<owner, state>>
=============================================================================
