----------------------------- MODULE MCAccounts -----------------------------
(* Small instances of Accounts: an administrator, a second account and room  *)
(* for new ones.                                                             *)
EXTENDS Accounts, TLC

CONSTANTS a, b, c, d, e1, e2, e3, p1, p2, r1, r2, r3

Row(e, role, status, age) ==
  [email |-> e, role |-> role, status |-> status, pwd |-> p1, age |-> age]

Table(rows) == [u \in Ids |-> IF u \in DOMAIN rows THEN rows[u] ELSE None]

NoBody == [email |-> Keep, role |-> Keep, status |-> Keep, pwd |-> Keep, name |-> Keep]

Job(kind, actor, target, body) ==
  [kind |-> kind, actor |-> actor, target |-> target, body |-> body]

SlotSymmetry == Permutations(Reqs)

\* a is an admin; b is an admin, a user, or an inactive account almost due.
Dbs == { Table(a :> Row(e1, "admin", "active", "recent") @@
               b :> Row(e2, "admin", "active", "recent")),
         Table(a :> Row(e1, "admin", "active", "recent") @@
               b :> Row(e2, "user", "inactive", "old")) }

\* Saves over stale entities: updates, profile changes and removals of b and a.
FieldJobs ==
  { Job("update", a, b, [NoBody EXCEPT !.status = "inactive"]),
    Job("update", a, b, [NoBody EXCEPT !.status = "active"]),
    Job("update", a, b, [NoBody EXCEPT !.role = "user", !.pwd = p2]),
    Job("update", b, a, [NoBody EXCEPT !.status = "inactive"]),
    Job("profile", b, b, [NoBody EXCEPT !.name = "new"]),
    Job("profile", b, b, [NoBody EXCEPT !.pwd = p2]),
    Job("remove", a, b, NoBody) }

\* Everything that takes an email: two new ones, and changes to a taken one.
EmailJobs ==
  { Job("create", a, a, [NoBody EXCEPT !.email = e3, !.pwd = p1, !.role = "admin"]),
    Job("register", a, a, [NoBody EXCEPT !.email = e3, !.pwd = p2]),
    Job("register", a, a, [NoBody EXCEPT !.email = e3, !.pwd = p2, !.role = "admin"]),
    Job("google", a, a, [NoBody EXCEPT !.email = e3, !.pwd = p1]),
    Job("google", a, a, [NoBody EXCEPT !.email = e2, !.pwd = p1]),
    Job("seed", a, a, [NoBody EXCEPT !.email = e2, !.pwd = p1, !.status = "inactive"]),
    Job("update", a, b, [NoBody EXCEPT !.email = e3]),
    Job("update", a, a, [NoBody EXCEPT !.email = e2]),
    Job("update", a, c, [NoBody EXCEPT !.email = e2]),
    Job("update", a, a, [NoBody EXCEPT !.status = "inactive"]),
    Job("profile", a, a, NoBody),
    Job("profile", b, b, [NoBody EXCEPT !.name = "new", !.role = "admin"]),
    Job("remove", a, b, NoBody) }
=============================================================================
