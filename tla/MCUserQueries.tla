---------------------------- MODULE MCUserQueries ----------------------------
(* Small instances of UserQueries: pages of one or two accounts.             *)
EXTENDS UserQueries, TLC

CONSTANTS u1, u2, u3, u4, r1, r2

Nothing == [kind |-> "walk", page |-> None, limit |-> None, sort |-> None,
            order |-> None, term |-> None, role |-> None, active |-> None]
Walk(limit) == [Nothing EXCEPT !.limit = limit]
Reader(kind) == [Nothing EXCEPT !.kind = kind]

\* Three accounts, of which one is an administrator and one inactive.
ThreeAccounts ==
  { [u \in Ids |->
       CASE u = u1 -> [role |-> "admin", active |-> TRUE, born |-> 1, touched |-> 2]
         [] u = u2 -> [role |-> "user", active |-> TRUE, born |-> 2, touched |-> 3]
         [] u = u3 -> [role |-> "user", active |-> FALSE, born |-> 3, touched |-> 1]
         [] OTHER -> None] }

\* Lists and searches with every parameter, absent, sensible and not.
AllAsks ==
  { Nothing, Walk(1), Walk(0),
    [Nothing EXCEPT !.page = 0],
    [Nothing EXCEPT !.page = 2, !.sort = "role"],
    [Walk(1) EXCEPT !.sort = "password", !.order = "asc"],
    [Walk(1) EXCEPT !.active = "true"],
    [Walk(1) EXCEPT !.active = "no", !.sort = "updatedAt"],
    [Walk(1) EXCEPT !.role = "user", !.order = "ASC"],
    [Walk(2) EXCEPT !.term = {u1, u2, u4}, !.sort = "isActive"],
    Reader("dashboard"), Reader("sync") }
=============================================================================
