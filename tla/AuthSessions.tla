---------------------------- MODULE AuthSessions ----------------------------
(***************************************************************************)
(* AuthService and RefreshTokenService: registration, password and Google  *)
(* logins, refreshing and logging out, over the refresh tokens kept in the *)
(* cache and the account status kept in the database.                      *)
(*                                                                         *)
(* A request is a sequence of steps, one per cache or database call, that  *)
(* interleave with those of other requests, with administrators changing   *)
(* accounts and with tokens expiring.  A cache call may fail; CacheService *)
(* swallows the error, so the caller goes on as if nothing had happened.   *)
(*                                                                         *)
(* Emails are left out: administrators may give any account another email   *)
(* at any moment, so a look-up by email may find any account or none.       *)
(*                                                                         *)
(* A token is a model value: generateRefreshToken draws a new uuid, so no  *)
(* two mints return the same.  Access tokens are signed, not stored, and   *)
(* are represented by the answer "ok".  When an entry expires is left open *)
(* here (any moment).                                                      *)
(***************************************************************************)
EXTENDS Naturals

CONSTANTS
  Users,
  Tokens,        \* mints stop when all are drawn (a bound)
  Reqs,          \* request slots, each serves one request (a bound)
  Offers,        \* the kinds of request that may arrive
  MaxFaults,     \* failing cache calls (a bound)
  InitialOwners, \* the sessions the system may start with
  None

Kinds    == {"register", "login", "google", "refresh", "logout"}
Statuses == {"absent", "active", "inactive", "deleted"}
Steps    == {"idle", "create", "guard", "validate", "load", "mint", "revoke", "done"}
Answers  == {"none", "ok", "unauthorized", "notFound", "conflict", "serverError"}

ASSUME SessionsAssumption ==
  /\ Offers \subseteq Kinds
  /\ MaxFaults \in Nat
  /\ None \notin Users /\ None \notin Tokens
  /\ \A owners \in InitialOwners : owners \in [Tokens -> Users \union {None}]

VARIABLES
  status,   \* each account's row: not created yet, active, inactive or deleted
  cache,    \* the account a token's cache entry names, None without an entry
  owner,    \* history: the account a token was minted for
  faults,   \* cache calls that have failed
  pc, kind, \* where each request is and what it is
  who,      \* the account a request acts for
  tok,      \* the refresh token a request presents
  new,      \* the refresh token a request has minted
  answer,
  held,     \* the refresh tokens clients have been given
  retired,  \* history: tokens whose logout or exchange was answered with success
  late,     \* history: requests that came in with a token already retired
  hope      \* history: requests whose account was active at some moment since they came in
            \* (of a registration, an account it acted for)

vars == <<status, cache, owner, faults, pc, kind, who, tok, new, answer,
          held, retired, late, hope>>
request == <<kind, tok>>
-----------------------------------------------------------------------------
\* A cache call: either it takes effect, or it fails silently and changes nothing.
Attempt(effect, nothing) ==
  \/ effect /\ UNCHANGED faults
  \/ faults < MaxFaults /\ faults' = faults + 1 /\ nothing

Goto(r, step) == pc' = [pc EXCEPT ![r] = step] /\ UNCHANGED answer

Finish(r, how) == /\ pc' = [pc EXCEPT ![r] = "done"]
                  /\ answer' = [answer EXCEPT ![r] = how]

Reject(r, how) == Finish(r, how) /\ UNCHANGED <<held, retired>>

\* Mutant of Succeed: a token reaches the client even when none was minted.
SucceedAlways(r) ==
  /\ Finish(r, "ok")
  /\ held' = held \union {new[r]}
  /\ retired' = retired \union ({tok[r]} \ {None})

\* The token of a request that succeeds reaches the client; the one it
\* presented is, as far as the client was told, no longer valid.
Succeed(r) ==
  /\ Finish(r, "ok")
  /\ held' = held \union ({new[r]} \ {None})
  /\ retired' = retired \union ({tok[r]} \ {None})

Init ==
  /\ status \in [Users -> Statuses]
  /\ owner \in InitialOwners
  /\ \A t \in Tokens : owner[t] # None => status[owner[t]] # "absent"
  /\ cache = owner
  /\ faults = 0
  /\ pc = [r \in Reqs |-> "idle"]
  /\ kind \in [Reqs -> Offers]
  /\ who = [r \in Reqs |-> None]
  /\ tok = [r \in Reqs |-> None]
  /\ new = [r \in Reqs |-> None]
  /\ answer = [r \in Reqs |-> "none"]
  /\ held = {t \in Tokens : owner[t] # None}
  /\ retired = {}
  /\ late = {}
  /\ hope = {}

\* The requests that act, or ask to act, for account u.
Concerned(u) == {r \in Reqs : who[r] = u \/ (tok[r] # None /\ owner[tok[r]] = u)}

\* POST /auth/register, POST /auth/login or the Google callback, for account u.
\* Registration and a first Google login come in while u does not exist.
ArriveLogin(r, u) ==
  /\ pc[r] = "idle" /\ kind[r] \in {"register", "login", "google"}
  /\ kind[r] = "register" => status[u] = "absent"
  /\ kind[r] = "login" => status[u] # "absent"
  /\ Goto(r, IF status[u] = "absent" THEN "create"
             ELSE IF kind[r] = "login" THEN "guard" ELSE "validate")
  /\ who' = [who EXCEPT ![r] = u]
  /\ hope' = IF status[u] = "active" THEN hope \union {r} ELSE hope
  /\ UNCHANGED <<status, cache, owner, faults, request, new, held, retired, late>>

\* POST /auth/refresh or /auth/logout with a token some client holds.
ArriveToken(r, t) ==
  /\ pc[r] = "idle" /\ kind[r] \in {"refresh", "logout"}
  /\ t \in held
  /\ Goto(r, IF kind[r] = "refresh" THEN "validate" ELSE "revoke")
  /\ tok' = [tok EXCEPT ![r] = t]
  /\ late' = IF t \in retired THEN late \union {r} ELSE late
  /\ hope' = IF status[owner[t]] = "active" THEN hope \union {r} ELSE hope
  /\ UNCHANGED <<status, cache, owner, faults, kind, who, new, held, retired>>

\* The insert of registration or of a first Google login; whoever took the email
\* in the meantime makes it a conflict, or a unique violation.
CreateAccount(r) ==
  /\ pc[r] = "create"
  /\ \/ /\ status[who[r]] = "absent"
        /\ status' = [status EXCEPT ![who[r]] = "active"]
        /\ hope' = hope \union Concerned(who[r])
        /\ Goto(r, IF kind[r] = "register" THEN "load" ELSE "mint")
        /\ UNCHANGED <<held, retired>>
     \/ /\ \E u \in Users : status[u] # "absent"
        /\ \E how \in {"conflict", "serverError"} : Reject(r, how)
        /\ UNCHANGED <<status, hope>>
  /\ UNCHANGED <<cache, owner, faults, request, who, new, late>>

\* validateUser, once in LocalStrategy and once more in AuthService.login, each
\* time by email: an inactive account is refused, and so is an unknown email or
\* wrong password.
ValidateUser(r) ==
  /\ kind[r] = "login" /\ pc[r] \in {"guard", "validate"}
  /\ \/ Reject(r, "unauthorized") /\ UNCHANGED <<who, hope>>
     \/ /\ \E u \in Users : status[u] = "active" /\ who' = [who EXCEPT ![r] = u]
        /\ hope' = hope \union {r}
        /\ Goto(r, IF pc[r] = "guard" THEN "validate" ELSE "load")
        /\ UNCHANGED <<held, retired>>
  /\ UNCHANGED <<status, cache, owner, faults, request, new, late>>

\* googleLogin: one look at the account (findOrCreateGoogleUser) and its flag.
\* The email of a deleted account is free: a new account is made for it.
ValidateGoogle(r) ==
  /\ kind[r] = "google" /\ pc[r] = "validate"
  /\ \/ /\ status[who[r]] = "inactive" /\ Reject(r, "unauthorized")
        /\ UNCHANGED who
     \/ /\ status[who[r]] = "active" /\ Goto(r, "mint")
        /\ UNCHANGED <<held, retired, who>>
     \/ /\ status[who[r]] = "deleted" /\ Goto(r, "create")
        /\ \E u \in Users : status[u] = "absent" /\ who' = [who EXCEPT ![r] = u]
        /\ UNCHANGED <<held, retired>>
  /\ UNCHANGED <<status, cache, owner, faults, request, new, late, hope>>

\* validateRefreshToken: the cache entry names the account; a failed get looks
\* like a missing entry.
ValidateRefresh(r) ==
  /\ kind[r] = "refresh" /\ pc[r] = "validate"
  /\ Attempt(\/ /\ cache[tok[r]] # None /\ Goto(r, "load")
                /\ who' = [who EXCEPT ![r] = cache[tok[r]]]
                /\ UNCHANGED <<held, retired>>
             \/ cache[tok[r]] = None /\ Reject(r, "unauthorized") /\ UNCHANGED who,
             Reject(r, "unauthorized") /\ UNCHANGED who)
  /\ UNCHANGED <<status, cache, owner, request, new, late, hope>>

\* Mutant of LoadUser: refresh does not look at isActive.
LoadUserUnchecked(r) ==
  /\ pc[r] = "load" /\ kind[r] # "register"
  /\ IF status[who[r]] = "deleted" THEN Reject(r, "notFound")
                                  ELSE Goto(r, "mint") /\ UNCHANGED <<held, retired>>
  /\ UNCHANGED <<status, cache, owner, faults, request, who, new, late, hope>>

\* findOne, of login and of refresh: only refresh looks at isActive again.
LoadUser(r) ==
  LET s == status[who[r]]
  IN /\ pc[r] = "load" /\ kind[r] # "register"
     /\ \/ s = "deleted" /\ Reject(r, "notFound")
        \/ s = "inactive" /\ kind[r] = "refresh" /\ Reject(r, "unauthorized")
        \/ /\ s = "active" \/ (s = "inactive" /\ kind[r] # "refresh")
           /\ Goto(r, "mint") /\ UNCHANGED <<held, retired>>
     /\ UNCHANGED <<status, cache, owner, faults, request, who, new, late, hope>>

\* register looks up the email it has just inserted: that finds its own account,
\* whichever account holds the email by then, active or not, or none.
LoadRegistered(r) ==
  /\ pc[r] = "load" /\ kind[r] = "register"
  /\ \/ Reject(r, "serverError") /\ UNCHANGED <<who, hope>>
     \/ \E u \in Users :
          /\ status[u] \in {"active", "inactive"}
          /\ who' = [who EXCEPT ![r] = u]
          /\ hope' = IF status[u] = "active" THEN hope \union {r} ELSE hope
          /\ Goto(r, "mint") /\ UNCHANGED <<held, retired>>
  /\ UNCHANGED <<status, cache, owner, faults, request, new, late>>

\* Mutant of GenerateTokens: tokens are not unique, a draw may repeat an old one.
GenerateTokensAgain(r) ==
  /\ pc[r] = "mint"
  /\ \E t \in Tokens :
       /\ owner' = [owner EXCEPT ![t] = who[r]]
       /\ new' = [new EXCEPT ![r] = t]
       /\ Attempt(cache' = [cache EXCEPT ![t] = who[r]], UNCHANGED cache)
       /\ IF kind[r] = "refresh"
            THEN Goto(r, "revoke") /\ UNCHANGED <<held, retired>>
            ELSE Finish(r, "ok") /\ held' = held \union {t} /\ UNCHANGED retired
  /\ UNCHANGED <<status, request, who, late, hope>>

\* generateTokens: sign the access token, draw a uuid and set its cache entry.
\* A login is answered now; a refresh goes on to revoke the old token.
GenerateTokens(r) ==
  /\ pc[r] = "mint"
  /\ \E t \in Tokens :
       /\ owner[t] = None
       /\ owner' = [owner EXCEPT ![t] = who[r]]
       /\ new' = [new EXCEPT ![r] = t]
       /\ Attempt(cache' = [cache EXCEPT ![t] = who[r]], UNCHANGED cache)
       /\ IF kind[r] = "refresh"
            THEN Goto(r, "revoke") /\ UNCHANGED <<held, retired>>
            ELSE Finish(r, "ok") /\ held' = held \union {t} /\ UNCHANGED retired
  /\ UNCHANGED <<status, request, who, late, hope>>

\* Mutant of RevokeRefreshToken: the entry of the old token is kept.
RevokeNothing(r) ==
  /\ pc[r] = "revoke" /\ Succeed(r)
  /\ UNCHANGED <<status, cache, owner, faults, request, who, new, late, hope>>

\* revokeRefreshToken: the last step of both refresh and logout.
RevokeRefreshToken(r) ==
  /\ pc[r] = "revoke"
  /\ Attempt(cache' = [cache EXCEPT ![tok[r]] = None], UNCHANGED cache)
  /\ Succeed(r)
  /\ UNCHANGED <<status, owner, request, who, new, late, hope>>

\* An entry reaches its time to live (or Redis evicts it).
Expire(t) ==
  /\ cache[t] # None
  /\ cache' = [cache EXCEPT ![t] = None]
  /\ UNCHANGED <<status, owner, faults, pc, request, who, new, answer, held,
                 retired, late, hope>>

\* An administrator activates, deactivates or deletes an account, or a stale
\* save brings a deleted one back (see Accounts); refresh tokens are left alone.
ChangeStatus(u, s) ==
  /\ status[u] # "absent" /\ s \notin {"absent", status[u]}
  /\ status' = [status EXCEPT ![u] = s]
  /\ hope' = IF s = "active" THEN hope \union Concerned(u) ELSE hope
  /\ UNCHANGED <<cache, owner, faults, pc, request, who, new, answer, held,
                 retired, late>>

Step(r) ==
  \/ CreateAccount(r) \/ ValidateUser(r) \/ ValidateGoogle(r) \/ ValidateRefresh(r)
  \/ LoadUser(r) \/ LoadRegistered(r) \/ GenerateTokens(r) \/ RevokeRefreshToken(r)

Next ==
  \/ \E r \in Reqs, u \in Users : ArriveLogin(r, u)
  \/ \E r \in Reqs, t \in Tokens : ArriveToken(r, t)
  \/ \E r \in Reqs : Step(r)
  \/ \E t \in Tokens : Expire(t)
  \/ \E u \in Users, s \in Statuses : ChangeStatus(u, s)

Spec == Init /\ [][Next]_vars
-----------------------------------------------------------------------------
\* Every variable has its type.
TypeOK ==
  /\ status \in [Users -> Statuses]
  /\ cache \in [Tokens -> Users \union {None}]
  /\ owner \in [Tokens -> Users \union {None}]
  /\ faults \in 0..MaxFaults
  /\ pc \in [Reqs -> Steps]
  /\ kind \in [Reqs -> Offers]
  /\ who \in [Reqs -> Users \union {None}]
  /\ tok \in [Reqs -> Tokens \union {None}]
  /\ new \in [Reqs -> Tokens \union {None}]
  /\ answer \in [Reqs -> Answers]
  /\ held \in SUBSET Tokens
  /\ retired \in SUBSET Tokens
  /\ late \in SUBSET Reqs
  /\ hope \in SUBSET Reqs

\* A refresh token opens a session of the account it was minted for and of no
\* other, and an exchange hands the session on to the same account.
SessionKeepsAccount ==
  /\ \A t \in Tokens : cache[t] # None => cache[t] = owner[t]
  /\ \A r \in Reqs : (kind[r] = "refresh" /\ new[r] # None) => owner[new[r]] = owner[tok[r]]

\* As long as no cache call has failed, a token whose logout or exchange was answered with
\* success is spent: no refresh that comes in afterwards with it succeeds, even
\* if other requests with the same token are still under way.
SpentTokensRefused ==
  faults = 0 => \A r \in Reqs : (kind[r] = "refresh" /\ r \in late) => answer[r] # "ok"

\* Nobody gets tokens from a login or an exchange for an account that was inactive
\* or gone during the whole request, although the flag is read before the tokens
\* are made, and not in the same step.  Of a registration this is not true: it
\* mints for whoever holds its email by then and never reads isActive.
TokensNeedActiveAccount ==
  \A r \in Reqs : new[r] # None /\ kind[r] # "register" => r \in hope

\* What a token is worth.
tokenState == [t \in Tokens |-> IF owner[t] = None THEN "fresh"
                               ELSE IF cache[t] # None THEN "live" ELSE "dead"]

Registry == INSTANCE SessionRegistry WITH NoOwner <- None, state <- tokenState

\* The refresh tokens are a SessionRegistry: each is issued once, to one account,
\* and never comes back to life, through any race of logins, exchanges, logouts,
\* expiries and failing cache calls.
ImplementsRegistry == Registry!Spec

(* What makes the invariants above inductive.                                *)

\* A request's account and tokens are set by the steps it has been through.
StepsFit ==
  \A r \in Reqs :
    /\ pc[r] # "done" => answer[r] = "none"
    /\ pc[r] = "idle" => who[r] = None /\ tok[r] = None /\ new[r] = None
    /\ kind[r] \in {"refresh", "logout"} =>
         /\ pc[r] # "idle" => tok[r] # None
         /\ pc[r] \notin {"create", "guard"}
    /\ kind[r] \notin {"refresh", "logout"} => tok[r] = None /\ pc[r] # "revoke"
    /\ kind[r] = "logout" => pc[r] \notin {"validate", "load", "mint"} /\ new[r] = None
    /\ tok[r] # None => tok[r] \in held /\ owner[tok[r]] # None
    /\ new[r] # None => owner[new[r]] # None
    /\ pc[r] \in {"create", "guard", "load", "mint"} => who[r] # None
    /\ (kind[r] = "refresh" /\ pc[r] \in {"load", "mint"}) => who[r] = owner[tok[r]]
    /\ pc[r] \in {"create", "guard", "validate", "load", "mint"} => new[r] = None
    /\ (kind[r] \in {"login", "google"} /\ pc[r] # "idle") => who[r] # None

HeldWereMinted == held \subseteq {t \in Tokens : owner[t] # None}

\* Once a token is retired its entry is gone, and a late request cannot get
\* past the look-up.
RetiredAreGone ==
  faults = 0 =>
    /\ \A t \in retired : t \in held /\ cache[t] = None
    /\ \A r \in late : kind[r] = "refresh" =>
         tok[r] \in retired /\ pc[r] \in {"validate", "done"} /\ answer[r] # "ok"

\* A request is hopeful as soon as its account is active, and past the checks
\* it is hopeful for good.
HopeIsKept ==
  \A r \in Reqs :
    /\ (who[r] # None /\ status[who[r]] = "active") => r \in hope
    /\ (tok[r] # None /\ status[owner[tok[r]]] = "active") => r \in hope
    /\ (pc[r] = "mint" /\ kind[r] # "register") => r \in hope
    /\ (pc[r] = "load" /\ kind[r] \notin {"register", "refresh"}) => r \in hope

IInv ==
  /\ TypeOK /\ SessionKeepsAccount /\ TokensNeedActiveAccount
  /\ StepsFit /\ HeldWereMinted /\ RetiredAreGone /\ HopeIsKept
=============================================================================
