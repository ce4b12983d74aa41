------------------------------ MODULE Accounts ------------------------------
(***************************************************************************)
(* User accounts: UsersService, its repository and the TypeORM/Postgres    *)
(* table behind it, the admin user service, the registration half of       *)
(* AuthService, the database seeder and the monthly cleanup.               *)
(*                                                                         *)
(* Every request runs on one event loop but gives it up at each await, so  *)
(* a request is a sequence of steps, one per database call, and requests   *)
(* interleave between them.  What a request read stays in its entity       *)
(* (snap) and is written back by save, however old it is by then.          *)
(*                                                                         *)
(* Names carry no meaning here beyond "changed or not"; a password is a    *)
(* member of Passwords; updatedAt is "recent" or "old" (over six months).  *)
(***************************************************************************)
EXTENDS Naturals

CONSTANTS
  Ids,          \* uuids of accounts; creations stop when all are issued (a bound)
  Emails,
  Passwords,
  Reqs,         \* request slots, each serves one request (a bound)
  Jobs,         \* the requests that may arrive
  InitialDbs,   \* the tables the system may start with
  None,         \* no row with this id, no entity read, no account
  Keep          \* "this field is not in the request body" (undefined)

Roles    == {"user", "admin"}
Statuses == {"active", "inactive"}
Ages     == {"recent", "old"}

Rows == [email: Emails, role: Roles, status: Statuses, pwd: Passwords, age: Ages]

\* An entity in memory; a column that was not selected is undefined (Keep).
Entities == [email: Emails, role: Roles, status: Statuses,
             pwd: Passwords \union {Keep}, age: Ages]

Bodies == [email: Emails \union {Keep}, role: Roles \union {Keep},
           status: Statuses \union {Keep}, pwd: Passwords \union {Keep},
           name: {"new", Keep}]

CreateKinds == {"create", "register", "google", "seed"}
AdminKinds  == {"create", "update", "remove"}
Kinds       == CreateKinds \union {"update", "profile", "remove"}

\* actor is the subject of the JWT; public kinds ignore actor and target.
JobType == [kind: Kinds, actor: Ids, target: Ids, body: Bodies]

NoDuplicates(table) ==
  \A u, v \in Ids : /\ table[u] # None
                    /\ table[v] # None
                    /\ table[u].email = table[v].email
                    => u = v

ASSUME ConstantsAssumption ==
  /\ Keep \notin Emails /\ Keep \notin Passwords
  /\ Keep \notin Roles /\ Keep \notin Statuses /\ Keep # "new"
  /\ None \notin Entities /\ None \notin Ids
  /\ \A j \in Jobs : j \in JobType
  /\ \A j \in Jobs : j.kind \in CreateKinds => j.body.email # Keep /\ j.body.pwd # Keep
  /\ \A table \in InitialDbs : table \in [Ids -> Rows \union {None}] /\ NoDuplicates(table)

VARIABLES
  db,       \* the users table
  issued,   \* ids ever given to a row: uuids are not reused
  pc,       \* where each request is
  job,      \* what each request asks for
  snap,     \* the entity each request has read
  answer,   \* how each request ended
  given,    \* history: values creation or an admin gave each account's fields
  lastPwd,  \* history: the last password anyone set on each account
  made,     \* history: the account each registration inserted
  bearer    \* the account a registration's tokens were issued for

vars == <<db, issued, pc, job, snap, answer, given, lastPwd, made, bearer>>
history == <<given, lastPwd>>
-----------------------------------------------------------------------------
Present(u) == db[u] # None

\* findByEmail / emailExists
HasEmail(u, e) == Present(u) /\ db[u].email = e
EmailExists(e) == \E u \in Ids : HasEmail(u, e)

\* Mutant of UniqueViolation: a column without the constraint.
NoConstraint(u, e) == FALSE

\* @Column({ unique: true }): the database refuses a second row with this email.
\* (u is None for a row that has no id yet.)
UniqueViolation(u, e) == \E v \in Ids \ {u} : HasEmail(v, e)

\* Mutant of Selected: the password is selected too.
SelectedWithPassword(row) == row

\* findByIdWithoutPassword: every column but the password.
Selected(row) == [row EXCEPT !.pwd = Keep]

Given(value, default) == IF value = Keep THEN default ELSE value

\* Mutant of Declared: the validation pipe is not installed.
DeclaredAny(kind, body) == TRUE

\* forbidNonWhitelisted: a body with a field its DTO does not declare is refused.
\* RegisterDto and CreateUserDto have no isActive, RegisterDto no role either, and
\* UpdateProfileDto has names and a password only.
Declared(kind, body) ==
  /\ kind \in {"create", "register", "profile"} => body.status = Keep
  /\ kind \in {"register", "profile"} => body.role = Keep
  /\ kind = "profile" => body.email = Keep

\* The fields a handler takes: updateProfile and findOrCreateGoogleUser pick them
\* by hand, the mapper's toEntity leaves isActive out.
Allowed(kind, body) ==
  [email  |-> IF kind = "profile" THEN Keep ELSE body.email,
   role   |-> IF kind \in {"profile", "google"} THEN Keep ELSE body.role,
   status |-> IF kind \in {"seed", "update"} THEN body.status ELSE Keep,
   pwd    |-> body.pwd,
   name   |-> body.name]

Updates(r) == Allowed(job[r].kind, job[r].body)

\* Object.keys(updates).length === 0
NothingToDo(upd) ==
  /\ upd.email = Keep /\ upd.role = Keep /\ upd.status = Keep
  /\ upd.pwd = Keep /\ upd.name = Keep

\* Mutant of Assign: undefined fields of the body are assigned as well.
AssignUndefined(entity, upd) ==
  [email |-> upd.email, role |-> upd.role, status |-> upd.status,
   pwd |-> upd.pwd, age |-> entity.age]

\* Object.assign(user, updates)
Assign(entity, upd) ==
  [email  |-> Given(upd.email, entity.email),
   role   |-> Given(upd.role, entity.role),
   status |-> Given(upd.status, entity.status),
   pwd    |-> Given(upd.pwd, entity.pwd),
   age    |-> entity.age]

\* The row save writes: every defined column of the entity.  When some column
\* differs from the stored row, updatedAt becomes now if the entity holds its
\* stored value, else the entity's older value overwrites it.
SavedRow(stored, entity, upd) ==
  LET changed == upd.name # Keep \/ upd.pwd # Keep \/ Selected(stored) # Selected(entity)
  IN [email  |-> entity.email,
      role   |-> entity.role,
      status |-> entity.status,
      pwd    |-> Given(entity.pwd, stored.pwd),
      age    |-> IF changed /\ entity.age = stored.age THEN "recent" ELSE entity.age]

\* The row an insert writes; role and isActive have column defaults.
NewRow(upd) ==
  [email |-> upd.email, role |-> Given(upd.role, "user"),
   status |-> Given(upd.status, "active"), pwd |-> upd.pwd, age |-> "recent"]

\* Who makes an account for himself gets the defaults, whatever he asks for.
Entitled(kind, row) ==
  IF kind \in {"register", "google"}
    THEN [row EXCEPT !.role = "user", !.status = "active"]
    ELSE row

\* History: values (of a new row, or of an admin's update) are given to u.
Grant(u, values) ==
  given' = [given EXCEPT ![u] =
              [email  |-> @.email  \union ({values.email}  \ {Keep}),
               role   |-> @.role   \union ({values.role}   \ {Keep}),
               status |-> @.status \union ({values.status} \ {Keep})]]

Finish(r, how) == /\ pc' = [pc EXCEPT ![r] = "done"]
                  /\ answer' = [answer EXCEPT ![r] = how]

Goto(r, step) == pc' = [pc EXCEPT ![r] = step] /\ UNCHANGED answer
-----------------------------------------------------------------------------
Init ==
  /\ db \in InitialDbs
  /\ issued = {u \in Ids : Present(u)}
  /\ pc = [r \in Reqs |-> "idle"]
  /\ job \in [Reqs -> Jobs]
  /\ snap = [r \in Reqs |-> None]
  /\ answer = [r \in Reqs |-> "none"]
  /\ given = [u \in Ids |-> IF Present(u)
                            THEN [email |-> {db[u].email}, role |-> {db[u].role},
                                  status |-> {db[u].status}]
                            ELSE [email |-> {}, role |-> {}, status |-> {}]]
  /\ lastPwd = [u \in Ids |-> IF Present(u) THEN db[u].pwd ELSE Keep]
  /\ made = [r \in Reqs |-> None]
  /\ bearer = [r \in Reqs |-> None]
-----------------------------------------------------------------------------
Subject(r) == IF job[r].kind = "profile" THEN job[r].actor ELSE job[r].target

\* JwtAuthGuard (JwtStrategy.validate reads the account of the token's subject),
\* RolesGuard on the role just read, the validation of the body, and the
\* self-deactivation test at the head of both admin update handlers.
Authenticate(r) ==
  LET me        == db[job[r].actor]
      forbidden == \/ job[r].kind \in AdminKinds /\ me.role # "admin"
                   \/ /\ job[r].kind = "update"
                      /\ job[r].target = job[r].actor
                      /\ job[r].body.status = "inactive"
  IN /\ pc[r] = "idle"
     /\ job[r].kind \in AdminKinds \union {"profile"}
     /\ \/ me = None /\ Finish(r, "notFound")
        \/ me # None /\ me.status = "inactive" /\ Finish(r, "unauthorized")
        \/ me # None /\ me.status = "active" /\ forbidden /\ Finish(r, "forbidden")
        \/ /\ me # None /\ me.status = "active" /\ ~forbidden
           /\ ~Declared(job[r].kind, job[r].body) /\ Finish(r, "badRequest")
        \/ /\ me # None /\ me.status = "active" /\ ~forbidden
           /\ Declared(job[r].kind, job[r].body)
           /\ Goto(r, IF job[r].kind = "create" THEN "check" ELSE "read")
     /\ UNCHANGED <<db, issued, job, snap, history, made, bearer>>

\* findByIdWithoutPassword / findById at the head of update, updateProfile and
\* removeById: the entity stays in the request from here on.
ReadSubject(r) ==
  LET row == db[Subject(r)]
      upd == Updates(r)
  IN /\ pc[r] = "read"
     /\ \/ row = None /\ Finish(r, "notFound") /\ UNCHANGED snap
        \/ /\ row # None
           /\ snap' = [snap EXCEPT ![r] = Selected(row)]
           /\ \/ job[r].kind = "remove" /\ Goto(r, "delete")
              \/ job[r].kind # "remove" /\ NothingToDo(upd) /\ Finish(r, "ok")
              \/ /\ job[r].kind # "remove" /\ ~NothingToDo(upd)
                 /\ Goto(r, IF upd.email \notin {Keep, row.email} THEN "check" ELSE "save")
     /\ UNCHANGED <<db, issued, job, history, made, bearer>>

\* update: findByEmail when the new email differs from the one read.
CheckNewEmail(r) ==
  /\ pc[r] = "check" /\ job[r].kind = "update"
  /\ IF \E u \in Ids \ {Subject(r)} : HasEmail(u, Updates(r).email)
       THEN Finish(r, "conflict")
       ELSE Goto(r, "save")
  /\ UNCHANGED <<db, issued, job, snap, history, made, bearer>>

\* create / seedUsers / findOrCreateGoogleUser: look the email up first.
LookUpEmail(r) ==
  LET e == Updates(r).email
  IN /\ job[r].kind \in CreateKinds
     /\ pc[r] = IF job[r].kind = "create" THEN "check" ELSE "idle"
     /\ Declared(job[r].kind, job[r].body)
     /\ \/ ~EmailExists(e) /\ Goto(r, "insert")
        \/ EmailExists(e) /\ job[r].kind \in {"create", "register"} /\ Finish(r, "conflict")
        \/ EmailExists(e) /\ job[r].kind = "seed" /\ Finish(r, "ok")
        \/ \E u \in Ids : /\ HasEmail(u, e) /\ job[r].kind = "google"
                         /\ Finish(r, IF db[u].status = "active" THEN "ok"
                                      ELSE "unauthorized")
     /\ UNCHANGED <<db, issued, job, snap, history, made, bearer>>

\* The body of a registration is validated before anything else.
RefuseBody(r) ==
  /\ pc[r] = "idle" /\ job[r].kind = "register"
  /\ ~Declared(job[r].kind, job[r].body)
  /\ Finish(r, "badRequest")
  /\ UNCHANGED <<db, issued, job, snap, history, made, bearer>>

\* save of an entity without an id: INSERT with a new uuid.
Insert(r) ==
  LET row == NewRow(Updates(r))
  IN /\ pc[r] = "insert"
     /\ \/ /\ UniqueViolation(None, row.email) /\ Finish(r, "serverError")
           /\ UNCHANGED <<db, issued, history, made>>
        \/ /\ ~UniqueViolation(None, row.email)
           /\ \E u \in Ids \ issued :
                /\ db' = [db EXCEPT ![u] = row]
                /\ issued' = issued \union {u}
                /\ Grant(u, Entitled(job[r].kind, row))
                /\ lastPwd' = [lastPwd EXCEPT ![u] = row.pwd]
                /\ made' = [made EXCEPT ![r] = u]
           /\ IF job[r].kind = "register" THEN Goto(r, "reread") ELSE Finish(r, "ok")
     /\ UNCHANGED <<job, snap, bearer>>

\* AuthService.register looks the new account up again by its email.
RereadRegistered(r) ==
  /\ pc[r] = "reread"
  /\ \/ /\ ~EmailExists(Updates(r).email) /\ Finish(r, "serverError")
        /\ UNCHANGED bearer
     \/ \E u \in Ids : /\ HasEmail(u, Updates(r).email)
                      /\ bearer' = [bearer EXCEPT ![r] = u]
                      /\ Finish(r, "ok")
  /\ UNCHANGED <<db, issued, job, snap, history, made>>

\* save of an entity that was read: TypeORM selects the row by id again and
\* updates the columns that differ; if the row is gone it inserts the entity,
\* which the NOT NULL password column refuses unless this request set one.
Save(r) ==
  LET u      == Subject(r)
      upd    == Updates(r)
      entity == Assign(snap[r], upd)
      row    == IF Present(u)
                THEN SavedRow(db[u], entity, upd)
                ELSE entity
      refused == UniqueViolation(u, entity.email) \/ (~Present(u) /\ entity.pwd = Keep)
  IN /\ pc[r] = "save"
     /\ \/ refused /\ Finish(r, "serverError") /\ UNCHANGED <<db, history>>
        \/ /\ ~refused
           /\ db' = [db EXCEPT ![u] = row]
           /\ IF job[r].kind = "update" THEN Grant(u, upd) ELSE UNCHANGED given
           /\ lastPwd' = [lastPwd EXCEPT ![u] = Given(upd.pwd, lastPwd[u])]
           /\ Finish(r, "ok")
     /\ UNCHANGED <<issued, job, snap, made, bearer>>

\* repository.remove(entity): DELETE by id, silent when the row is gone.
Remove(r) ==
  /\ pc[r] = "delete"
  /\ db' = [db EXCEPT ![Subject(r)] = None]
  /\ Finish(r, "ok")
  /\ UNCHANGED <<issued, job, snap, history, made, bearer>>

\* Six months go by without a write to the row; no request lasts that long.
Age(u) ==
  /\ Present(u) /\ db[u].age = "recent"
  /\ \A r \in Reqs : pc[r] \in {"idle", "done"}
  /\ db' = [db EXCEPT ![u].age = "old"]
  /\ UNCHANGED <<issued, pc, job, snap, answer, history, made, bearer>>

\* Mutant of Expired: the flag is tested the wrong way round.
ExpiredActive(u) == Present(u) /\ db[u].status = "active" /\ db[u].age = "old"

\* The cleanup's condition on a row.
Expired(u) == Present(u) /\ db[u].status = "inactive" /\ db[u].age = "old"

\* cleanupInactiveUsers: one DELETE statement.
CleanupInactiveUsers ==
  /\ \E u \in Ids : Expired(u)
  /\ db' = [u \in Ids |-> IF Expired(u) THEN None ELSE db[u]]
  /\ UNCHANGED <<issued, pc, job, snap, answer, history, made, bearer>>

Step(r) ==
  \/ Authenticate(r) \/ RefuseBody(r) \/ ReadSubject(r) \/ CheckNewEmail(r)
  \/ LookUpEmail(r) \/ Insert(r) \/ RereadRegistered(r) \/ Save(r) \/ Remove(r)

\* Every request has been answered (or waits for an id past the bound Ids).
AllAnswered ==
  /\ \A r \in Reqs : pc[r] = "done" \/ (pc[r] = "insert" /\ issued = Ids)
  /\ UNCHANGED vars

Next ==
  \/ \E r \in Reqs : Step(r)
  \/ \E u \in Ids : Age(u)
  \/ CleanupInactiveUsers
  \/ AllAnswered

Spec == Init /\ [][Next]_vars

\* The event loop serves every request that has come in, time passes, and cron
\* fires every month.
FairSpec ==
  /\ Spec
  /\ \A r \in Reqs : WF_vars(Step(r))
  /\ \A u \in Ids : WF_vars(Age(u))
  /\ WF_vars(CleanupInactiveUsers)
-----------------------------------------------------------------------------
\* Every variable has its type.
TypeOK ==
  /\ db \in [Ids -> Rows \union {None}]
  /\ issued \in SUBSET Ids
  /\ pc \in [Reqs -> {"idle", "read", "check", "save", "insert", "reread",
                     "delete", "done"}]
  /\ job \in [Reqs -> Jobs]
  /\ snap \in [Reqs -> Entities \union {None}]
  /\ answer \in [Reqs -> {"none", "ok", "notFound", "unauthorized", "forbidden",
                         "badRequest", "conflict", "serverError"}]
  /\ given \in [Ids -> [email: SUBSET Emails, role: SUBSET Roles,
                        status: SUBSET Statuses]]
  /\ lastPwd \in [Ids -> Passwords \union {Keep}]
  /\ made \in [Reqs -> Ids \union {None}]
  /\ bearer \in [Reqs -> Ids \union {None}]

\* Two accounts never share an email, however creations, Google logins, seeding
\* and email changes race between their look-up and their write: the look-ups
\* alone do not give this, the column's unique constraint does.
UniqueEmails == NoDuplicates(db)

\* A password, once set, is what the account has until a request that carries
\* another one: no save of a stale entity brings an old password back, though
\* it does bring back every other column.
PasswordKept == \A u \in Ids : Present(u) => db[u].pwd = lastPwd[u]

\* An account's email, role and active flag are always ones that its creation
\* (by an administrator or the seeder; else the defaults) or an administrator's
\* update gave to that very account: requests' bodies, stale entities,
\* self-service profile updates and resurrected rows may restore such values,
\* but nobody becomes admin, or gets locked out, who was never made so.
NoForgedFields ==
  \A u \in Ids : Present(u) => /\ db[u].email \in given[u].email
                              /\ db[u].role \in given[u].role
                              /\ db[u].status \in given[u].status

\* An account that is inactive is in the end removed or made active again: the
\* monthly cleanup catches every one, whatever writes postponed it.
InactiveEventuallyGone ==
  \A u \in Ids : (Present(u) /\ db[u].status = "inactive")
                   ~> (Present(u) => db[u].status = "active")

\* What makes NoForgedFields and PasswordKept inductive: an entity read in a
\* request holds only values given to that account, and no password; a request
\* is only at a step its kind goes through.
EntitiesGiven ==
  \A r \in Reqs : snap[r] # None =>
     /\ snap[r].email \in given[Subject(r)].email
     /\ snap[r].role \in given[Subject(r)].role
     /\ snap[r].status \in given[Subject(r)].status
     /\ snap[r].pwd = Keep

StepsFit ==
  \A r \in Reqs :
     /\ pc[r] = "save" => snap[r] # None /\ job[r].kind \in {"update", "profile"}
     /\ pc[r] = "check" => \/ job[r].kind = "create"
                          \/ (job[r].kind = "update" /\ snap[r] # None)
     /\ pc[r] \in {"insert", "reread"} => job[r].kind \in CreateKinds
     /\ pc[r] = "insert" => Declared(job[r].kind, job[r].body)
     /\ pc[r] = "read" => job[r].kind \notin CreateKinds

IInv == TypeOK /\ UniqueEmails /\ PasswordKept /\ NoForgedFields
        /\ EntitiesGiven /\ StepsFit
-----------------------------------------------------------------------------
(* What a comment in the code says and the interleavings refute.              *)

\* users.service.ts:77 -- a profile update does not change email, role, isActive.
ProfileKeepsProtected ==
  [][\A r \in Reqs :
       (Save(r) /\ job[r].kind = "profile" /\ Present(Subject(r)) /\ answer'[r] = "ok")
       => LET u == Subject(r)
          IN /\ db'[u].email = db[u].email
             /\ db'[u].role = db[u].role
             /\ db'[u].status = db[u].status]_vars
=============================================================================
