--------------------------- MODULE MCResponseCache --------------------------
(* Small instances of ResponseCache.                                         *)
EXTENDS ResponseCache, TLC

CONSTANTS u1, u2, a1, r1, r2, w1, w2

List(a)   == [route |-> "list", id |-> u1, caller |-> a]
One(u, a) == [route |-> "one", id |-> u, caller |-> a]
Write(op, u, a, channel) == [op |-> op, id |-> u, caller |-> a, channel |-> channel]

\* The list, and two accounts' own entries.
SomeGets == {List(a1), One(u1, a1), One(u2, a1)}

\* Writes to one account that evict the list, and one that evicts nothing.
SomeWrites == {Write("update", u1, a1, "users"), Write("update", u1, a1, "admin"),
               Write("remove", u1, a1, "users"), Write("create", u1, a1, "users")}
OneUpdate  == {Write("update", u1, a1, "users")}
=============================================================================
