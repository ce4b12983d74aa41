--------------------------- MODULE AccountsProofs ---------------------------
(***************************************************************************)
(* Theorems about Accounts, for any ids, emails, passwords, requests and   *)
(* initial table.  The inductive invariant is IInv.                        *)
(***************************************************************************)
EXTENDS Accounts, TLAPS

\* The fields of Given are those of the body, or the default.
LEMMA JobTyping ==
  ASSUME TypeOK, NEW r \in Reqs
  PROVE  /\ job[r] \in JobType
         /\ job[r].kind \in Kinds /\ job[r].actor \in Ids /\ job[r].body \in Bodies
         /\ Subject(r) \in Ids
         /\ Updates(r) \in Bodies
         /\ job[r].kind \in CreateKinds =>
              Updates(r).email \in Emails /\ Updates(r).pwd \in Passwords
<1>1. job[r] \in JobType
  BY ConstantsAssumption DEF TypeOK
<1>2. /\ job[r].kind \in Kinds /\ job[r].actor \in Ids /\ job[r].target \in Ids
      /\ job[r].body \in Bodies
  BY <1>1 DEF JobType
<1>3. Subject(r) \in Ids
  BY <1>2 DEF Subject
<1>4. Updates(r) \in Bodies
  BY <1>2 DEF Updates, Allowed, Bodies
<1>5. ASSUME job[r].kind \in CreateKinds
      PROVE  Updates(r).email \in Emails /\ Updates(r).pwd \in Passwords
  <2>1. job[r] \in Jobs
    BY DEF TypeOK
  <2>2. job[r].body.email # Keep /\ job[r].body.pwd # Keep
    BY <1>5, <2>1, ConstantsAssumption
  <2>3. job[r].kind # "profile"
    BY <1>5 DEF CreateKinds
  <2>4. QED
    BY <1>2, <2>2, <2>3 DEF Updates, Allowed, Bodies
<1>6. QED
  BY <1>1, <1>2, <1>3, <1>4, <1>5

\* Reading, assigning, saving and inserting keep entities and rows well formed.
LEMMA EntityTyping ==
  /\ \A row \in Rows : Selected(row) \in Entities
  /\ \A entity \in Entities, upd \in Bodies : Assign(entity, upd) \in Entities
  /\ \A stored \in Rows, entity \in Entities, upd \in Bodies :
        SavedRow(stored, entity, upd) \in Rows
  /\ \A entity \in Entities : entity.pwd # Keep => entity \in Rows
  /\ \A upd \in Bodies : (upd.email # Keep /\ upd.pwd # Keep) => NewRow(upd) \in Rows
<1>1. \A row \in Rows : Selected(row) \in Entities
  BY DEF Rows, Entities, Selected
<1>2. \A entity \in Entities, upd \in Bodies : Assign(entity, upd) \in Entities
  BY DEF Entities, Bodies, Assign, Given
<1>3. \A stored \in Rows, entity \in Entities, upd \in Bodies :
        SavedRow(stored, entity, upd) \in Rows
  BY DEF Rows, Entities, SavedRow, Given, Ages
<1>4. \A entity \in Entities : entity.pwd # Keep => entity \in Rows
  BY DEF Rows, Entities
<1>5. \A upd \in Bodies : (upd.email # Keep /\ upd.pwd # Keep) => NewRow(upd) \in Rows
  BY DEF Rows, Bodies, NewRow, Given, Roles, Statuses, Ages
<1>6. QED
  BY <1>1, <1>2, <1>3, <1>4, <1>5

\* The history only grows, and records the values it is given.
LEMMA GrantGrows ==
  ASSUME TypeOK, NEW u \in Ids, NEW values,
         values.email \in Emails \union {Keep}, values.role \in Roles \union {Keep},
         values.status \in Statuses \union {Keep}, Grant(u, values)
  PROVE  /\ given' \in [Ids -> [email: SUBSET Emails, role: SUBSET Roles,
                                status: SUBSET Statuses]]
         /\ \A v \in Ids : /\ given[v].email \subseteq given'[v].email
                           /\ given[v].role \subseteq given'[v].role
                           /\ given[v].status \subseteq given'[v].status
         /\ values.email # Keep => values.email \in given'[u].email
         /\ values.role # Keep => values.role \in given'[u].role
         /\ values.status # Keep => values.status \in given'[u].status
<1> DEFINE G == [email: SUBSET Emails, role: SUBSET Roles, status: SUBSET Statuses]
           g == [email  |-> given[u].email  \union ({values.email}  \ {Keep}),
                 role   |-> given[u].role   \union ({values.role}   \ {Keep}),
                 status |-> given[u].status \union ({values.status} \ {Keep})]
<1>1. given \in [Ids -> G]
  BY DEF TypeOK
<1>2. g \in G
  BY <1>1
<1>3. given' = [given EXCEPT ![u] = g]
  BY DEF Grant
<1>4. given'[u] = g /\ \A v \in Ids : v # u => given'[v] = given[v]
  BY <1>1, <1>3
<1>5. QED
  BY <1>1, <1>2, <1>3, <1>4
-----------------------------------------------------------------------------
\* The initial databases, with nothing requested yet, satisfy the invariant.
LEMMA InitInv == Init => IInv
<1> SUFFICES ASSUME Init PROVE IInv
  OBVIOUS
<1> USE ConstantsAssumption
<1>1. db \in [Ids -> Rows \union {None}] /\ NoDuplicates(db)
  BY DEF Init
<1>2. \A u \in Ids : Present(u) => db[u] \in Rows
  BY <1>1 DEF Present
<1>3. \A u \in Ids : Present(u) =>
        /\ db[u].email \in Emails /\ db[u].role \in Roles
        /\ db[u].status \in Statuses /\ db[u].pwd \in Passwords
  BY <1>2 DEF Rows
<1>4. TypeOK
  <2>1. given \in [Ids -> [email: SUBSET Emails, role: SUBSET Roles,
                           status: SUBSET Statuses]]
    BY <1>3 DEF Init
  <2>2. lastPwd \in [Ids -> Passwords \union {Keep}]
    BY <1>3 DEF Init
  <2>3. QED
    BY <1>1, <2>1, <2>2 DEF Init, TypeOK
<1>5. UniqueEmails
  BY <1>1 DEF UniqueEmails
<1>6. PasswordKept
  BY DEF Init, PasswordKept
<1>7. NoForgedFields
  BY DEF Init, NoForgedFields
<1>8. EntitiesGiven /\ StepsFit
  BY DEF Init, EntitiesGiven, StepsFit
<1>9. QED
  BY <1>4, <1>5, <1>6, <1>7, <1>8 DEF IInv

\* Finish and Goto move one request to a step and record its answer.
LEMMA ControlTyping ==
  ASSUME TypeOK, NEW r \in Reqs,
         NEW how \in {"ok", "notFound", "unauthorized", "forbidden",
                      "badRequest", "conflict", "serverError"},
         NEW step \in {"read", "check", "save", "insert", "reread", "delete"},
         Finish(r, how) \/ Goto(r, step)
  PROVE  /\ pc' \in [Reqs -> {"idle", "read", "check", "save", "insert", "reread",
                             "delete", "done"}]
         /\ answer' \in [Reqs -> {"none", "ok", "notFound", "unauthorized",
                                 "forbidden", "badRequest", "conflict",
                                 "serverError"}]
         /\ \A q \in Reqs : q # r => pc'[q] = pc[q]
         /\ Finish(r, how) => pc'[r] = "done"
         /\ Goto(r, step) => pc'[r] = step
BY DEF TypeOK, Finish, Goto

\* A step that touches neither the table, the entities nor the history only has
\* to keep the requests at steps that fit them.
LEMMA ControlStep ==
  ASSUME IInv, TypeOK', StepsFit', UNCHANGED <<db, job, snap, history>>
  PROVE  IInv'
<1>1. UniqueEmails' /\ PasswordKept' /\ NoForgedFields'
  BY DEF IInv, UniqueEmails, NoDuplicates, PasswordKept, NoForgedFields, Present, history
<1>2. EntitiesGiven'
  BY DEF IInv, EntitiesGiven, Subject, history
<1>3. QED
  BY <1>1, <1>2 DEF IInv

\* Arriving -- with its job and its caller -- disturbs no row.
LEMMA AuthenticateInv ==
  ASSUME IInv, NEW r \in Reqs, Authenticate(r) PROVE IInv'
<1>1. TypeOK
  BY DEF IInv
<1>2. job[r].kind \in AdminKinds \union {"profile"}
  BY DEF Authenticate
<1>3. PICK how \in {"notFound", "unauthorized", "forbidden", "badRequest"},
           step \in {"check", "read"} :
        /\ Finish(r, how) \/ Goto(r, step)
        /\ step = IF job[r].kind = "create" THEN "check" ELSE "read"
  BY DEF Authenticate
<1>4. TypeOK'
  BY <1>1, <1>3, ControlTyping DEF Authenticate, TypeOK, history
<1>5. StepsFit'
  <2>1. pc'[r] \in {"done", step} /\ \A q \in Reqs : q # r => pc'[q] = pc[q]
    BY <1>1, <1>3, ControlTyping
  <2>2. QED
    BY <1>2, <1>3, <2>1 DEF Authenticate, IInv, StepsFit, AdminKinds, CreateKinds
<1>6. QED
  BY <1>4, <1>5, ControlStep DEF Authenticate

\* A body that is refused changes nothing.
LEMMA RefuseBodyInv ==
  ASSUME IInv, NEW r \in Reqs, RefuseBody(r) PROVE IInv'
<1>1. TypeOK /\ Finish(r, "badRequest")
  BY DEF IInv, RefuseBody
<1>2. pc'[r] = "done" /\ \A q \in Reqs : q # r => pc'[q] = pc[q]
  BY <1>1, ControlTyping
<1>3. TypeOK'
  BY <1>1, ControlTyping DEF RefuseBody, TypeOK, history
<1>4. StepsFit'
  BY <1>2 DEF RefuseBody, IInv, StepsFit
<1>5. QED
  BY <1>3, <1>4, ControlStep DEF RefuseBody

\* Looking up the email an update asks for leaves the rows alone.
LEMMA CheckNewEmailInv ==
  ASSUME IInv, NEW r \in Reqs, CheckNewEmail(r) PROVE IInv'
<1>1. TypeOK
  BY DEF IInv
<1>2. Finish(r, "conflict") \/ Goto(r, "save")
  BY DEF CheckNewEmail
<1>3. TypeOK'
  BY <1>1, <1>2, ControlTyping DEF CheckNewEmail, TypeOK, history
<1>4. StepsFit'
  <2>1. pc'[r] \in {"done", "save"} /\ \A q \in Reqs : q # r => pc'[q] = pc[q]
    BY <1>1, <1>2, ControlTyping
  <2>2. QED
    BY <2>1 DEF CheckNewEmail, IInv, StepsFit
<1>5. QED
  BY <1>3, <1>4, ControlStep DEF CheckNewEmail

\* So does the lookup before a row is created.
LEMMA LookUpEmailInv ==
  ASSUME IInv, NEW r \in Reqs, LookUpEmail(r) PROVE IInv'
<1>1. TypeOK
  BY DEF IInv
<1>2. PICK how \in {"conflict", "ok", "unauthorized"} :
        Finish(r, how) \/ Goto(r, "insert")
  BY DEF LookUpEmail
<1>3. TypeOK'
  BY <1>1, <1>2, ControlTyping DEF LookUpEmail, TypeOK, history
<1>4. StepsFit'
  <2>1. pc'[r] \in {"done", "insert"} /\ \A q \in Reqs : q # r => pc'[q] = pc[q]
    BY <1>1, <1>2, ControlTyping
  <2>2. QED
    BY <2>1 DEF LookUpEmail, IInv, StepsFit
<1>5. QED
  BY <1>3, <1>4, ControlStep DEF LookUpEmail

\* So does reading a registered account a second time.
LEMMA RereadRegisteredInv ==
  ASSUME IInv, NEW r \in Reqs, RereadRegistered(r) PROVE IInv'
<1>1. TypeOK
  BY DEF IInv
<1>2. PICK how \in {"serverError", "ok"} : Finish(r, how)
  BY DEF RereadRegistered
<1>3. pc'[r] = "done" /\ \A q \in Reqs : q # r => pc'[q] = pc[q]
  BY <1>1, <1>2, ControlTyping
<1>4. bearer' \in [Reqs -> Ids \union {None}]
  BY <1>1 DEF RereadRegistered, TypeOK
<1>5. TypeOK'
  BY <1>1, <1>2, <1>4, ControlTyping DEF RereadRegistered, TypeOK, history
<1>6. StepsFit'
  BY <1>3 DEF RereadRegistered, IInv, StepsFit
<1>7. QED
  BY <1>5, <1>6, ControlStep DEF RereadRegistered

\* Reading the subject: the values read are the row's, which were given to it.
LEMMA ReadSubjectInv ==
  ASSUME IInv, NEW r \in Reqs, ReadSubject(r) PROVE IInv'
<1> DEFINE s == Subject(r)
<1>1. TypeOK /\ s \in Ids
  BY JobTyping DEF IInv
<1>2. PICK how \in {"notFound", "ok"}, step \in {"delete", "check", "save"} :
        Finish(r, how) \/ Goto(r, step)
  BY DEF ReadSubject
<1>3. pc'[r] \in {"done", step} /\ \A q \in Reqs : q # r => pc'[q] = pc[q]
  BY <1>1, <1>2, ControlTyping
<1>4. \/ snap' = snap /\ Finish(r, "notFound")
      \/ snap' = [snap EXCEPT ![r] = Selected(db[s])] /\ Present(s)
  BY DEF ReadSubject, Present
<1>5. Present(s) => Selected(db[s]) \in Entities /\ db[s] \in Rows
  BY <1>1, EntityTyping DEF TypeOK, Present
<1>6. TypeOK'
  <2>1. snap' \in [Reqs -> Entities \union {None}]
    BY <1>1, <1>4, <1>5 DEF TypeOK
  <2>2. QED
    BY <1>1, <1>2, <2>1, ControlTyping DEF ReadSubject, TypeOK, history
<1>7. UniqueEmails' /\ PasswordKept' /\ NoForgedFields'
  BY DEF ReadSubject, IInv, UniqueEmails, NoDuplicates, PasswordKept, NoForgedFields,
         Present, history
<1>8. EntitiesGiven'
  <2>1. ASSUME NEW q \in Reqs, snap'[q] # None
        PROVE  /\ snap'[q].email \in given[Subject(q)].email
               /\ snap'[q].role \in given[Subject(q)].role
               /\ snap'[q].status \in given[Subject(q)].status
               /\ snap'[q].pwd = Keep
    <3>1. CASE q = r /\ snap' # snap
      <4>1. snap'[r] = Selected(db[s]) /\ Present(s)
        BY <1>1, <1>4, <3>1 DEF TypeOK
      <4>2. /\ snap'[r].email = db[s].email /\ snap'[r].role = db[s].role
            /\ snap'[r].status = db[s].status /\ snap'[r].pwd = Keep
        BY <1>5, <4>1 DEF Selected, Rows
      <4>3. QED
        BY <1>1, <3>1, <4>1, <4>2 DEF IInv, NoForgedFields
    <3>2. CASE ~(q = r /\ snap' # snap)
      <4>1. snap'[q] = snap[q]
        BY <1>1, <1>4, <3>2 DEF TypeOK
      <4>2. QED
        BY <2>1, <4>1 DEF IInv, EntitiesGiven
    <3>3. QED
      BY <3>1, <3>2
  <2>2. given' = given /\ \A q \in Reqs : Subject(q)' = Subject(q)
    BY DEF ReadSubject, history, Subject
  <2>3. QED
    BY <2>1, <2>2 DEF EntitiesGiven
<1>9. StepsFit'
  <2>1. job[r].kind \notin CreateKinds /\ job' = job
    BY DEF ReadSubject, IInv, StepsFit
  <2>2. \A q \in Reqs : q # r => snap'[q] = snap[q]
    BY <1>1, <1>4 DEF TypeOK
  <2>3. pc'[r] \in {"save", "check"} => snap'[r] # None
    <3>1. CASE snap' = snap /\ Finish(r, "notFound")
      BY <1>1, <3>1, ControlTyping
    <3>2. CASE snap' = [snap EXCEPT ![r] = Selected(db[s])] /\ Present(s)
      <4>1. snap'[r] = Selected(db[s])
        BY <1>1, <3>2 DEF TypeOK
      <4>2. QED
        BY <1>5, <3>2, <4>1, ConstantsAssumption
    <3>3. QED
      BY <1>4, <3>1, <3>2
  <2>4. pc'[r] \in {"save", "check"} => job[r].kind \in {"update", "profile"}
    <3>1. job[r].kind = "remove" => pc'[r] \in {"done", "delete"}
      BY <1>1, ControlTyping DEF ReadSubject, Finish, Goto, TypeOK
    <3>2. job[r].kind \in Kinds
      BY <1>1, JobTyping
    <3>3. QED
      BY <2>1, <3>1, <3>2 DEF Kinds
  <2>5. pc'[r] = "check" => job[r].kind = "update"
    <3>1. Updates(r).email # Keep => job[r].kind # "profile"
      BY DEF Updates, Allowed
    <3>2. pc'[r] = "check" => Updates(r).email # Keep
      BY <1>1 DEF ReadSubject, Finish, Goto, TypeOK
    <3>3. QED
      BY <2>4, <3>1, <3>2
  <2>6. QED
    BY <1>2, <1>3, <2>1, <2>2, <2>3, <2>4, <2>5 DEF IInv, StepsFit
<1>10. QED
  BY <1>6, <1>7, <1>8, <1>9 DEF IInv

\* A write of one row keeps emails unique when no other row has its email.
LEMMA WriteKeepsUnique ==
  ASSUME UniqueEmails, db \in [Ids -> Rows \union {None}], NEW u \in Ids, NEW row,
         db' = [db EXCEPT ![u] = row], \A v \in Ids \ {u} : ~HasEmail(v, row.email)
  PROVE  UniqueEmails'
BY DEF UniqueEmails, NoDuplicates, HasEmail, Present

\* The row a request inserts holds only values its maker is entitled to.
LEMMA InsertEntitled ==
  ASSUME IInv, NEW r \in Reqs, Insert(r)
  PROVE  Entitled(job[r].kind, NewRow(Updates(r))) = NewRow(Updates(r))
<1>1. Declared(job[r].kind, job[r].body)
  BY DEF IInv, StepsFit, Insert
<1>2. CASE job[r].kind \in {"register", "google"}
  <2>1. Updates(r).role = Keep /\ Updates(r).status = Keep
    BY <1>1, <1>2 DEF Declared, Updates, Allowed
  <2>2. QED
    BY <1>2, <2>1 DEF Entitled, NewRow, Given
<1>3. CASE job[r].kind \notin {"register", "google"}
  BY <1>3 DEF Entitled
<1>4. QED
  BY <1>2, <1>3

\* A row is inserted only under an email no row has.
LEMMA InsertInv ==
  ASSUME IInv, NEW r \in Reqs, Insert(r) PROVE IInv'
<1> DEFINE row == NewRow(Updates(r))
<1>1. TypeOK /\ job[r].kind \in CreateKinds
  BY DEF IInv, Insert, StepsFit
<1>2. /\ Updates(r) \in Bodies /\ Updates(r).email # Keep /\ Updates(r).pwd # Keep
  BY <1>1, JobTyping, ConstantsAssumption
<1>3. row \in Rows
  BY <1>2, EntityTyping
<1>4. /\ row.email \in Emails /\ row.email # Keep /\ row.role \in Roles /\ row.role # Keep
      /\ row.status \in Statuses /\ row.status # Keep /\ row.pwd \in Passwords
  BY <1>3, ConstantsAssumption DEF Rows
<1>5. Finish(r, "serverError") \/ Finish(r, "ok") \/ Goto(r, "reread")
  BY DEF Insert
<1>6. pc'[r] \in {"done", "reread"} /\ \A q \in Reqs : q # r => pc'[q] = pc[q]
  BY <1>1, <1>5, ControlTyping
<1>7. StepsFit'
  BY <1>1, <1>6 DEF Insert, IInv, StepsFit
<1>8. CASE UNCHANGED <<db, issued, history, made>>
  <2>1. TypeOK'
    BY <1>1, <1>5, <1>8, ControlTyping DEF Insert, TypeOK, history
  <2>2. QED
    BY <1>7, <1>8, <2>1, ControlStep DEF Insert
<1>9. ASSUME NEW u \in Ids \ issued,
             ~UniqueViolation(None, row.email),
             db' = [db EXCEPT ![u] = row], issued' = issued \union {u},
             Grant(u, Entitled(job[r].kind, row)),
             lastPwd' = [lastPwd EXCEPT ![u] = row.pwd], made' = [made EXCEPT ![r] = u]
      PROVE  IInv'
  <2>1. /\ given' \in [Ids -> [email: SUBSET Emails, role: SUBSET Roles,
                               status: SUBSET Statuses]]
        /\ \A v \in Ids : /\ given[v].email \subseteq given'[v].email
                          /\ given[v].role \subseteq given'[v].role
                          /\ given[v].status \subseteq given'[v].status
        /\ row.email \in given'[u].email /\ row.role \in given'[u].role
        /\ row.status \in given'[u].status
    <3>1. Grant(u, row)
      BY <1>9, InsertEntitled
    <3>2. QED
      BY <1>1, <1>4, <1>9, <3>1, GrantGrows
  <2>2. TypeOK'
    BY <1>1, <1>3, <1>4, <1>5, <1>9, <2>1, ControlTyping DEF Insert, TypeOK
  <2>3. UniqueEmails'
    <3>1. \A v \in Ids \ {u} : ~HasEmail(v, row.email)
      BY <1>9, ConstantsAssumption DEF UniqueViolation
    <3>2. QED
      BY <1>1, <1>9, <3>1, WriteKeepsUnique DEF IInv, TypeOK
  <2>4. PasswordKept'
    BY <1>1, <1>9 DEF IInv, TypeOK, PasswordKept, Present
  <2>5. NoForgedFields'
    BY <1>1, <1>9, <2>1 DEF IInv, TypeOK, NoForgedFields, Present
  <2>6. EntitiesGiven'
    <3>1. \A q \in Reqs : Subject(q)' = Subject(q) /\ Subject(q) \in Ids
      BY <1>1, JobTyping DEF Insert, Subject
    <3>2. QED
      BY <2>1, <3>1 DEF IInv, Insert, EntitiesGiven
  <2>7. QED
    BY <1>7, <2>2, <2>3, <2>4, <2>5, <2>6 DEF IInv
<1>10. QED
  BY <1>8, <1>9 DEF Insert

\* The row a save writes holds the entity's values, which the history allows.
LEMMA SaveInv ==
  ASSUME IInv, NEW r \in Reqs, Save(r) PROVE IInv'
<1> DEFINE u == Subject(r)
           upd == Updates(r)
           entity == Assign(snap[r], upd)
           row == IF Present(u) THEN SavedRow(db[u], entity, upd) ELSE entity
<1>1. /\ TypeOK /\ u \in Ids /\ upd \in Bodies
      /\ job[r].kind \in {"update", "profile"} /\ snap[r] # None
  BY JobTyping DEF IInv, Save, StepsFit
<1>2. snap[r] \in Entities /\ entity \in Entities
  BY <1>1, EntityTyping DEF TypeOK
<1>3. Finish(r, "serverError") \/ Finish(r, "ok")
  BY DEF Save
<1>4. pc'[r] = "done" /\ \A q \in Reqs : q # r => pc'[q] = pc[q]
  BY <1>1, <1>3, ControlTyping
<1>5. StepsFit'
  BY <1>4 DEF Save, IInv, StepsFit
<1>6. CASE UNCHANGED <<db, history>>
  <2>1. TypeOK'
    BY <1>1, <1>3, <1>6, ControlTyping DEF Save, TypeOK, history
  <2>2. QED
    BY <1>5, <1>6, <2>1, ControlStep DEF Save
<1>7. ASSUME ~UniqueViolation(u, entity.email), Present(u) \/ entity.pwd # Keep,
             db' = [db EXCEPT ![u] = row],
             IF job[r].kind = "update" THEN Grant(u, upd) ELSE UNCHANGED given,
             lastPwd' = [lastPwd EXCEPT ![u] = Given(upd.pwd, lastPwd[u])]
      PROVE  IInv'
  <2>1. row \in Rows
    <3>1. CASE Present(u)
      BY <1>1, <1>2, <3>1, EntityTyping DEF TypeOK, Present
    <3>2. CASE ~Present(u)
      BY <1>2, <1>7, <3>2, EntityTyping
    <3>3. QED
      BY <3>1, <3>2
  <2>2. /\ row.email = Given(upd.email, snap[r].email)
        /\ row.role = Given(upd.role, snap[r].role)
        /\ row.status = Given(upd.status, snap[r].status)
    BY DEF SavedRow, Assign
  <2>3. row.email = entity.email
    BY DEF SavedRow
  <2>4. /\ given' \in [Ids -> [email: SUBSET Emails, role: SUBSET Roles,
                               status: SUBSET Statuses]]
        /\ \A v \in Ids : /\ given[v].email \subseteq given'[v].email
                          /\ given[v].role \subseteq given'[v].role
                          /\ given[v].status \subseteq given'[v].status
        /\ upd.email # Keep => upd.email \in given'[u].email
        /\ upd.role # Keep => upd.role \in given'[u].role
        /\ upd.status # Keep => upd.status \in given'[u].status
    <3>1. CASE job[r].kind = "update"
      <4>1. /\ upd.email \in Emails \union {Keep} /\ upd.role \in Roles \union {Keep}
            /\ upd.status \in Statuses \union {Keep}
        BY <1>1 DEF Bodies
      <4>2. Grant(u, upd)
        BY <1>7, <3>1
      <4>3. QED
        BY <1>1, <4>1, <4>2, GrantGrows
    <3>2. CASE job[r].kind = "profile"
      <4>1. upd.email = Keep /\ upd.role = Keep /\ upd.status = Keep
        BY <3>2 DEF Updates, Allowed
      <4>2. given' = given
        BY <1>7, <3>2
      <4>3. QED
        BY <1>1, <4>1, <4>2 DEF TypeOK
    <3>3. QED
      BY <1>1, <3>1, <3>2
  <2>5. lastPwd' \in [Ids -> Passwords \union {Keep}]
    BY <1>1, <1>7 DEF TypeOK, Bodies, Given
  <2>6. TypeOK'
    BY <1>1, <1>3, <1>7, <2>1, <2>4, <2>5, ControlTyping DEF Save, TypeOK
  <2>7. UniqueEmails'
    <3>1. \A v \in Ids \ {u} : ~HasEmail(v, row.email)
      BY <1>7, <2>3 DEF UniqueViolation
    <3>2. QED
      BY <1>1, <1>7, <3>1, WriteKeepsUnique DEF IInv, TypeOK
  <2>8. PasswordKept'
    <3>1. snap[r].pwd = Keep
      BY <1>1 DEF IInv, EntitiesGiven
    <3>2. entity.pwd = upd.pwd
      BY <3>1 DEF Assign, Given
    <3>3. row.pwd = Given(upd.pwd, lastPwd[u])
      BY <1>1, <1>7, <3>2 DEF IInv, PasswordKept, SavedRow, Given
    <3>4. QED
      BY <1>1, <1>7, <3>3 DEF IInv, TypeOK, PasswordKept, Present
  <2>9. NoForgedFields'
    <3>1. /\ row.email \in given'[u].email /\ row.role \in given'[u].role
          /\ row.status \in given'[u].status
      BY <1>1, <2>2, <2>4 DEF IInv, EntitiesGiven, Given
    <3>2. QED
      BY <1>1, <1>7, <2>4, <3>1 DEF IInv, TypeOK, NoForgedFields, Present
  <2>10. EntitiesGiven'
    <3>1. \A q \in Reqs : Subject(q)' = Subject(q) /\ Subject(q) \in Ids
      BY <1>1, JobTyping DEF Save, Subject
    <3>2. QED
      BY <2>4, <3>1 DEF IInv, Save, EntitiesGiven
  <2>11. QED
    BY <1>5, <2>6, <2>7, <2>8, <2>9, <2>10 DEF IInv
<1>8. QED
  BY <1>6, <1>7 DEF Save

\* Deleting rows, or letting their updatedAt grow old, disturbs nothing else.
LEMMA ShrinkInv ==
  ASSUME IInv, UNCHANGED <<job, snap, history>>, TypeOK', StepsFit',
         \A u \in Ids : \/ db'[u] = None
                        \/ /\ Present(u) /\ db'[u].email = db[u].email
                           /\ db'[u].role = db[u].role /\ db'[u].status = db[u].status
                           /\ db'[u].pwd = db[u].pwd
  PROVE  IInv'
<1>1. UniqueEmails'
  BY DEF IInv, UniqueEmails, NoDuplicates, Present
<1>2. PasswordKept'
  BY DEF IInv, PasswordKept, Present, history
<1>3. NoForgedFields'
  BY DEF IInv, NoForgedFields, Present, history
<1>4. EntitiesGiven'
  BY DEF IInv, EntitiesGiven, Subject, history
<1>5. QED
  BY <1>1, <1>2, <1>3, <1>4 DEF IInv

\* Removing the entity that was read removes at most its row.
LEMMA RemoveInv ==
  ASSUME IInv, NEW r \in Reqs, Remove(r) PROVE IInv'
<1>1. TypeOK /\ Subject(r) \in Ids
  BY JobTyping DEF IInv
<1>2. pc'[r] = "done" /\ \A q \in Reqs : q # r => pc'[q] = pc[q]
  BY <1>1, ControlTyping DEF Remove
<1>3. TypeOK'
  BY <1>1, ControlTyping DEF Remove, TypeOK, history
<1>4. StepsFit'
  BY <1>2 DEF Remove, IInv, StepsFit
<1>5. \A u \in Ids : db'[u] = None \/ db'[u] = db[u]
  BY <1>1 DEF Remove, TypeOK
<1>6. QED
  BY <1>3, <1>4, <1>5, ShrinkInv DEF Remove, Present

\* A row whose updatedAt grows old keeps everything else.
LEMMA AgeInv ==
  ASSUME IInv, NEW u \in Ids, Age(u) PROVE IInv'
<1>1. TypeOK
  BY DEF IInv
<1>2. db[u] \in Rows
  BY <1>1 DEF Age, Present, TypeOK
<1>3. [db[u] EXCEPT !.age = "old"] \in Rows
  BY <1>2 DEF Rows, Ages
<1>4. db' = [db EXCEPT ![u] = [db[u] EXCEPT !.age = "old"]]
  BY DEF Age
<1>5. TypeOK'
  BY <1>1, <1>3, <1>4 DEF Age, TypeOK, history
<1>6. StepsFit'
  BY DEF Age, IInv, StepsFit
<1>7. /\ db'[u].email = db[u].email /\ db'[u].role = db[u].role
      /\ db'[u].status = db[u].status /\ db'[u].pwd = db[u].pwd
  BY <1>1, <1>2, <1>4 DEF TypeOK, Rows
<1>8. \A v \in Ids : v # u => db'[v] = db[v]
  BY <1>1, <1>4 DEF TypeOK
<1>9. QED
  BY <1>5, <1>6, <1>7, <1>8, ShrinkInv DEF Age, Present

\* The cleanup deletes rows and changes none.
LEMMA CleanupInv ==
  ASSUME IInv, CleanupInactiveUsers PROVE IInv'
<1>1. TypeOK
  BY DEF IInv
<1>2. \A u \in Ids : db'[u] = None \/ db'[u] = db[u]
  BY DEF CleanupInactiveUsers
<1>3. TypeOK'
  BY <1>1 DEF CleanupInactiveUsers, TypeOK, history
<1>4. StepsFit'
  BY DEF CleanupInactiveUsers, IInv, StepsFit
<1>5. QED
  BY <1>2, <1>3, <1>4, ShrinkInv DEF CleanupInactiveUsers, Present

\* Every step keeps the invariant.
LEMMA NextInv == IInv /\ [Next]_vars => IInv'
<1> SUFFICES ASSUME IInv, [Next]_vars PROVE IInv'
  OBVIOUS
<1>1. ASSUME NEW r \in Reqs, Step(r) PROVE IInv'
  BY <1>1, AuthenticateInv, RefuseBodyInv, ReadSubjectInv, CheckNewEmailInv, LookUpEmailInv,
     InsertInv, RereadRegisteredInv, SaveInv, RemoveInv DEF Step
<1>2. ASSUME NEW u \in Ids, Age(u) PROVE IInv'
  BY <1>2, AgeInv
<1>3. CASE CleanupInactiveUsers
  BY <1>3, CleanupInv
<1>4. CASE UNCHANGED vars
  <2>1. TypeOK' /\ StepsFit'
    BY <1>4 DEF vars, history, IInv, TypeOK, StepsFit
  <2>2. QED
    BY <1>4, <2>1, ControlStep DEF vars, history
<1>5. QED
  BY <1>1, <1>2, <1>3, <1>4 DEF Next, AllAnswered
-----------------------------------------------------------------------------
\* IInv holds in every reachable state.
THEOREM AccountsInvariant == Spec => []IInv
<1>1. QED
  BY InitInv, NextInv, PTL DEF Spec

\* Every variable keeps its type.
THEOREM AccountsType == Spec => []TypeOK
<1>1. IInv => TypeOK
  BY DEF IInv
<1>2. QED
  BY <1>1, AccountsInvariant, PTL

\* No interleaving of creations, logins, seeding and updates duplicates an email.
THEOREM EmailsUnique == Spec => []UniqueEmails
<1>1. IInv => UniqueEmails
  BY DEF IInv
<1>2. QED
  BY <1>1, AccountsInvariant, PTL

\* No save of a stale entity brings an old password back.
THEOREM PasswordsKept == Spec => []PasswordKept
<1>1. IInv => PasswordKept
  BY DEF IInv
<1>2. QED
  BY <1>1, AccountsInvariant, PTL

\* An account only ever has an email, role and active flag given to it by its
\* creation or by an administrator.
THEOREM FieldsNotForged == Spec => []NoForgedFields
<1>1. IInv => NoForgedFields
  BY DEF IInv
<1>2. QED
  BY <1>1, AccountsInvariant, PTL
=============================================================================
