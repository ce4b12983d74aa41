------------------------- MODULE AuthSessionsProofs -------------------------
(***************************************************************************)
(* Theorems about AuthSessions, for any accounts, tokens, requests and     *)
(* initial sessions, and that it implements SessionRegistry.               *)
(***************************************************************************)
EXTENDS AuthSessions, TLAPS

\* A login that arrives is recorded with whom it names.
LEMMA ArriveLoginInv ==
  ASSUME IInv, NEW r \in Reqs, NEW u \in Users, ArriveLogin(r, u)
  PROVE  IInv'
<1> USE SessionsAssumption
    DEF IInv, ArriveLogin, request, Goto, Finish, Statuses, Steps, Answers
<1>1. TypeOK'
  BY DEF TypeOK
<1>2. SessionKeepsAccount'
  BY DEF TypeOK, SessionKeepsAccount, StepsFit, HeldWereMinted
<1>3. TokensNeedActiveAccount'
  BY DEF TypeOK, TokensNeedActiveAccount, StepsFit, HeldWereMinted, HopeIsKept
<1>4. StepsFit'
  BY DEF TypeOK, StepsFit, HeldWereMinted, SessionKeepsAccount
<1>5. HeldWereMinted'
  BY DEF TypeOK, HeldWereMinted, StepsFit
<1>6. RetiredAreGone'
  BY DEF TypeOK, RetiredAreGone, StepsFit, HeldWereMinted
<1>7. HopeIsKept'
  BY DEF TypeOK, HopeIsKept, StepsFit, HeldWereMinted
<1>8. QED
  BY <1>1, <1>2, <1>3, <1>4, <1>5, <1>6, <1>7

\* A refresh or logout that arrives is recorded with its token.
LEMMA ArriveTokenInv ==
  ASSUME IInv, NEW r \in Reqs, NEW t \in Tokens, ArriveToken(r, t)
  PROVE  IInv'
<1> USE SessionsAssumption DEF IInv, ArriveToken, Goto, Finish, Statuses, Steps, Answers
<1>1. TypeOK'
  BY DEF TypeOK
<1>2. SessionKeepsAccount'
  BY DEF TypeOK, SessionKeepsAccount, StepsFit, HeldWereMinted
<1>3. TokensNeedActiveAccount'
  BY DEF TypeOK, TokensNeedActiveAccount, StepsFit, HeldWereMinted, HopeIsKept
<1>4. StepsFit'
  BY DEF TypeOK, StepsFit, HeldWereMinted, SessionKeepsAccount
<1>5. HeldWereMinted'
  BY DEF TypeOK, HeldWereMinted, StepsFit
<1>6. RetiredAreGone'
  BY DEF TypeOK, RetiredAreGone, StepsFit, HeldWereMinted
<1>7. HopeIsKept'
  BY DEF TypeOK, HopeIsKept, StepsFit, HeldWereMinted
<1>8. QED
  BY <1>1, <1>2, <1>3, <1>4, <1>5, <1>6, <1>7

\* Registration makes the account it will mint for.
LEMMA CreateAccountInv ==
  ASSUME IInv, NEW r \in Reqs, CreateAccount(r)
  PROVE  IInv'
<1> USE SessionsAssumption
    DEF IInv, CreateAccount, request, Goto, Finish, Reject, Concerned, Statuses,
        Steps, Answers
<1>1. TypeOK'
  BY DEF TypeOK
<1>2. SessionKeepsAccount'
  BY DEF TypeOK, SessionKeepsAccount, StepsFit, HeldWereMinted
<1>3. TokensNeedActiveAccount'
  BY DEF TypeOK, TokensNeedActiveAccount, StepsFit, HeldWereMinted, HopeIsKept
<1>4. StepsFit'
  BY DEF TypeOK, StepsFit, HeldWereMinted, SessionKeepsAccount
<1>5. HeldWereMinted'
  BY DEF TypeOK, HeldWereMinted, StepsFit
<1>6. RetiredAreGone'
  BY DEF TypeOK, RetiredAreGone, StepsFit, HeldWereMinted
<1>7. HopeIsKept'
  BY DEF TypeOK, HopeIsKept, StepsFit, HeldWereMinted
<1>8. QED
  BY <1>1, <1>2, <1>3, <1>4, <1>5, <1>6, <1>7

\* A password login keeps the status it read.
LEMMA ValidateUserInv ==
  ASSUME IInv, NEW r \in Reqs, ValidateUser(r)
  PROVE  IInv'
<1> USE SessionsAssumption
    DEF IInv, ValidateUser, request, Goto, Finish, Reject, Statuses, Steps, Answers
<1>1. TypeOK'
  BY DEF TypeOK
<1>2. SessionKeepsAccount'
  BY DEF TypeOK, SessionKeepsAccount, StepsFit, HeldWereMinted
<1>3. TokensNeedActiveAccount'
  BY DEF TypeOK, TokensNeedActiveAccount, StepsFit, HeldWereMinted, HopeIsKept
<1>4. StepsFit'
  BY DEF TypeOK, StepsFit, HeldWereMinted, SessionKeepsAccount
<1>5. HeldWereMinted'
  BY DEF TypeOK, HeldWereMinted, StepsFit
<1>6. RetiredAreGone'
  BY DEF TypeOK, RetiredAreGone, StepsFit, HeldWereMinted
<1>7. HopeIsKept'
  BY DEF TypeOK, HopeIsKept, StepsFit, HeldWereMinted
<1>8. QED
  BY <1>1, <1>2, <1>3, <1>4, <1>5, <1>6, <1>7

\* A Google login finds, links or makes its account.
LEMMA ValidateGoogleInv ==
  ASSUME IInv, NEW r \in Reqs, ValidateGoogle(r)
  PROVE  IInv'
<1> USE SessionsAssumption
    DEF IInv, ValidateGoogle, request, Goto, Finish, Reject, Statuses, Steps, Answers
<1>1. TypeOK'
  BY DEF TypeOK
<1>2. SessionKeepsAccount'
  BY DEF TypeOK, SessionKeepsAccount, StepsFit, HeldWereMinted
<1>3. TokensNeedActiveAccount'
  BY DEF TypeOK, TokensNeedActiveAccount, StepsFit, HeldWereMinted, HopeIsKept
<1>4. StepsFit'
  BY DEF TypeOK, StepsFit, HeldWereMinted, SessionKeepsAccount
<1>5. HeldWereMinted'
  BY DEF TypeOK, HeldWereMinted, StepsFit
<1>6. RetiredAreGone'
  BY DEF TypeOK, RetiredAreGone, StepsFit, HeldWereMinted
<1>7. HopeIsKept'
  BY DEF TypeOK, HopeIsKept, StepsFit, HeldWereMinted
<1>8. QED
  BY <1>1, <1>2, <1>3, <1>4, <1>5, <1>6, <1>7

\* Reading a token from the cache changes no token.
LEMMA ValidateRefreshInv ==
  ASSUME IInv, NEW r \in Reqs, ValidateRefresh(r)
  PROVE  IInv'
<1> USE SessionsAssumption
    DEF IInv, ValidateRefresh, request, Attempt, Goto, Finish, Reject, Statuses,
        Steps, Answers
<1>1. TypeOK'
  BY DEF TypeOK, StepsFit
<1>2. SessionKeepsAccount'
  BY DEF TypeOK, SessionKeepsAccount, StepsFit, HeldWereMinted
<1>3. TokensNeedActiveAccount'
  BY DEF TypeOK, TokensNeedActiveAccount, StepsFit, HeldWereMinted, HopeIsKept
<1>4. StepsFit'
  BY DEF TypeOK, StepsFit, HeldWereMinted, SessionKeepsAccount
<1>5. HeldWereMinted'
  BY DEF TypeOK, HeldWereMinted, StepsFit
<1>6. RetiredAreGone'
  BY DEF TypeOK, RetiredAreGone, StepsFit, HeldWereMinted
<1>7. HopeIsKept'
  BY DEF TypeOK, HopeIsKept, SessionKeepsAccount, StepsFit, HeldWereMinted
<1>8. QED
  BY <1>1, <1>2, <1>3, <1>4, <1>5, <1>6, <1>7

\* The account of a login or an exchange is read once more before the minting.
LEMMA LoadUserInv ==
  ASSUME IInv, NEW r \in Reqs, LoadUser(r)
  PROVE  IInv'
<1> USE SessionsAssumption
    DEF IInv, LoadUser, request, Goto, Finish, Reject, Statuses, Steps, Answers
<1>1. TypeOK'
  BY DEF TypeOK
<1>2. SessionKeepsAccount'
  BY DEF TypeOK, SessionKeepsAccount, StepsFit, HeldWereMinted
<1>3. TokensNeedActiveAccount'
  BY DEF TypeOK, TokensNeedActiveAccount, StepsFit, HeldWereMinted, HopeIsKept
<1>4. StepsFit'
  BY DEF TypeOK, StepsFit, HeldWereMinted, SessionKeepsAccount
<1>5. HeldWereMinted'
  BY DEF TypeOK, HeldWereMinted, StepsFit
<1>6. RetiredAreGone'
  BY DEF TypeOK, RetiredAreGone, StepsFit, HeldWereMinted
<1>7. HopeIsKept'
  BY DEF TypeOK, HopeIsKept, StepsFit, HeldWereMinted
<1>8. QED
  BY <1>1, <1>2, <1>3, <1>4, <1>5, <1>6, <1>7

\* A registration mints for whichever account it finds under its email.
LEMMA LoadRegisteredInv ==
  ASSUME IInv, NEW r \in Reqs, LoadRegistered(r)
  PROVE  IInv'
<1> USE SessionsAssumption
    DEF IInv, LoadRegistered, request, Goto, Finish, Reject, Statuses, Steps, Answers
<1>1. TypeOK'
  BY DEF TypeOK
<1>2. SessionKeepsAccount'
  BY DEF TypeOK, SessionKeepsAccount, StepsFit, HeldWereMinted
<1>3. TokensNeedActiveAccount'
  BY DEF TypeOK, TokensNeedActiveAccount, StepsFit, HeldWereMinted, HopeIsKept
<1>4. StepsFit'
  BY DEF TypeOK, StepsFit, HeldWereMinted, SessionKeepsAccount
<1>5. HeldWereMinted'
  BY DEF TypeOK, HeldWereMinted, StepsFit
<1>6. RetiredAreGone'
  BY DEF TypeOK, RetiredAreGone, StepsFit, HeldWereMinted
<1>7. HopeIsKept'
  BY DEF TypeOK, HopeIsKept, StepsFit, HeldWereMinted
<1>8. QED
  BY <1>1, <1>2, <1>3, <1>4, <1>5, <1>6, <1>7

\* A new token belongs to the account of its request.
LEMMA GenerateTokensInv ==
  ASSUME IInv, NEW r \in Reqs, GenerateTokens(r)
  PROVE  IInv'
<1> USE SessionsAssumption
    DEF IInv, GenerateTokens, request, Attempt, Goto, Finish, Statuses, Steps,
        Answers
<1>1. TypeOK'
  BY DEF TypeOK
<1>2. SessionKeepsAccount'
  BY DEF TypeOK, SessionKeepsAccount, StepsFit, HeldWereMinted
<1>3. TokensNeedActiveAccount'
  BY DEF TypeOK, TokensNeedActiveAccount, StepsFit, HeldWereMinted, HopeIsKept
<1>4. StepsFit'
  BY DEF TypeOK, StepsFit, HeldWereMinted, SessionKeepsAccount
<1>5. HeldWereMinted'
  BY DEF TypeOK, HeldWereMinted, StepsFit
<1>6. RetiredAreGone'
  BY DEF TypeOK, RetiredAreGone, StepsFit, HeldWereMinted
<1>7. HopeIsKept'
  BY DEF TypeOK, HopeIsKept, StepsFit, HeldWereMinted
<1>8. QED
  BY <1>1, <1>2, <1>3, <1>4, <1>5, <1>6, <1>7

\* Revoking retires the token: it is gone unless the cache failed.
LEMMA RevokeRefreshTokenInv ==
  ASSUME IInv, NEW r \in Reqs, RevokeRefreshToken(r)
  PROVE  IInv'
<1> USE SessionsAssumption
    DEF IInv, RevokeRefreshToken, request, Attempt, Finish, Succeed, Statuses, Steps,
        Answers
<1>1. TypeOK'
  BY DEF TypeOK
<1>2. SessionKeepsAccount'
  BY DEF TypeOK, SessionKeepsAccount, StepsFit, HeldWereMinted
<1>3. TokensNeedActiveAccount'
  BY DEF TypeOK, TokensNeedActiveAccount, StepsFit, HeldWereMinted, HopeIsKept
<1>4. StepsFit'
  BY DEF TypeOK, StepsFit, HeldWereMinted, SessionKeepsAccount
<1>5. HeldWereMinted'
  BY DEF TypeOK, HeldWereMinted, StepsFit
<1>6. RetiredAreGone'
  BY DEF TypeOK, RetiredAreGone, StepsFit, HeldWereMinted
<1>7. HopeIsKept'
  BY DEF TypeOK, HopeIsKept, StepsFit, HeldWereMinted
<1>8. QED
  BY <1>1, <1>2, <1>3, <1>4, <1>5, <1>6, <1>7

\* Expiry removes a token and brings none back.
LEMMA ExpireInv ==
  ASSUME IInv, NEW t \in Tokens, Expire(t)
  PROVE  IInv'
<1> USE SessionsAssumption DEF IInv, Expire, request, Finish, Statuses, Steps, Answers
<1>1. TypeOK'
  BY DEF TypeOK
<1>2. SessionKeepsAccount'
  BY DEF TypeOK, SessionKeepsAccount, StepsFit, HeldWereMinted
<1>3. TokensNeedActiveAccount'
  BY DEF TypeOK, TokensNeedActiveAccount, StepsFit, HeldWereMinted, HopeIsKept
<1>4. StepsFit'
  BY DEF TypeOK, StepsFit, HeldWereMinted, SessionKeepsAccount
<1>5. HeldWereMinted'
  BY DEF TypeOK, HeldWereMinted, StepsFit
<1>6. RetiredAreGone'
  BY DEF TypeOK, RetiredAreGone, StepsFit, HeldWereMinted
<1>7. HopeIsKept'
  BY DEF TypeOK, HopeIsKept, StepsFit, HeldWereMinted
<1>8. QED
  BY <1>1, <1>2, <1>3, <1>4, <1>5, <1>6, <1>7

\* An administrator disturbs only the accounts.
LEMMA ChangeStatusInv ==
  ASSUME IInv, NEW u \in Users, NEW s \in Statuses, ChangeStatus(u, s)
  PROVE  IInv'
<1> USE SessionsAssumption
    DEF IInv, ChangeStatus, request, Finish, Concerned, Statuses, Steps, Answers
<1>1. TypeOK'
  BY DEF TypeOK
<1>2. SessionKeepsAccount'
  BY DEF TypeOK, SessionKeepsAccount, StepsFit, HeldWereMinted
<1>3. TokensNeedActiveAccount'
  BY DEF TypeOK, TokensNeedActiveAccount, StepsFit, HeldWereMinted, HopeIsKept
<1>4. StepsFit'
  BY DEF TypeOK, StepsFit, HeldWereMinted, SessionKeepsAccount
<1>5. HeldWereMinted'
  BY DEF TypeOK, HeldWereMinted, StepsFit
<1>6. RetiredAreGone'
  BY DEF TypeOK, RetiredAreGone, StepsFit, HeldWereMinted
<1>7. HopeIsKept'
  BY DEF TypeOK, HopeIsKept, StepsFit, HeldWereMinted
<1>8. QED
  BY <1>1, <1>2, <1>3, <1>4, <1>5, <1>6, <1>7

\* One session or none, and no request: the invariant holds.
LEMMA InitInv == Init => IInv
<1> SUFFICES ASSUME Init PROVE IInv
  OBVIOUS
<1>1. TypeOK
  BY SessionsAssumption DEF Init, TypeOK, Steps, Answers, Statuses
<1>2. SessionKeepsAccount /\ TokensNeedActiveAccount
  BY DEF Init, SessionKeepsAccount, TokensNeedActiveAccount
<1>3. StepsFit
  BY DEF Init, StepsFit
<1>4. HeldWereMinted /\ RetiredAreGone /\ HopeIsKept
  BY DEF Init, HeldWereMinted, RetiredAreGone, HopeIsKept
<1>5. QED
  BY <1>1, <1>2, <1>3, <1>4 DEF IInv

\* Every step keeps the invariant.
LEMMA NextInv == IInv /\ [Next]_vars => IInv'
<1> SUFFICES ASSUME IInv, [Next]_vars PROVE IInv'
  OBVIOUS
<1>1. ASSUME NEW r \in Reqs, NEW u \in Users, ArriveLogin(r, u) PROVE IInv'
  BY <1>1, ArriveLoginInv
<1>2. ASSUME NEW r \in Reqs, NEW t \in Tokens, ArriveToken(r, t) PROVE IInv'
  BY <1>2, ArriveTokenInv
<1>3. ASSUME NEW r \in Reqs, Step(r) PROVE IInv'
  BY <1>3, CreateAccountInv, ValidateUserInv, ValidateGoogleInv, ValidateRefreshInv,
     LoadUserInv, LoadRegisteredInv, GenerateTokensInv, RevokeRefreshTokenInv DEF Step
<1>4. ASSUME NEW t \in Tokens, Expire(t) PROVE IInv'
  BY <1>4, ExpireInv
<1>5. ASSUME NEW u \in Users, NEW s \in Statuses, ChangeStatus(u, s) PROVE IInv'
  BY <1>5, ChangeStatusInv
<1>6. CASE UNCHANGED vars
  BY <1>6
  DEF vars, IInv, TypeOK, SessionKeepsAccount, TokensNeedActiveAccount, StepsFit,
               HeldWereMinted, RetiredAreGone, HopeIsKept
<1>7. QED
  BY <1>1, <1>2, <1>3, <1>4, <1>5, <1>6 DEF Next
-----------------------------------------------------------------------------
\* IInv holds in every reachable state.
THEOREM SessionsInvariant == Spec => []IInv
<1>1. QED
  BY InitInv, NextInv, PTL DEF Spec

\* Every variable keeps its type.
THEOREM SessionsType == Spec => []TypeOK
<1>1. IInv => TypeOK
  BY DEF IInv
<1>2. QED
  BY <1>1, SessionsInvariant, PTL

\* A session never moves to another account, not even through an exchange.
THEOREM SessionsKeepAccount == Spec => []SessionKeepsAccount
<1>1. IInv => SessionKeepsAccount
  BY DEF IInv
<1>2. QED
  BY <1>1, SessionsInvariant, PTL

\* A login or an exchange makes tokens only for an account that was active at some
\* moment of the request, whatever administrators do between the checks and the
\* minting; a registration, which does not check, is left out.
THEOREM TokensOnlyForActive == Spec => []TokensNeedActiveAccount
<1>1. IInv => TokensNeedActiveAccount
  BY DEF IInv
<1>2. QED
  BY <1>1, SessionsInvariant, PTL

\* With a working cache, a token whose logout or exchange has been answered
\* opens no session for a request that comes in later.
THEOREM SpentTokensAreRefused == Spec => []SpentTokensRefused
<1>1. IInv => SpentTokensRefused
  BY DEF IInv, RetiredAreGone, SpentTokensRefused
<1>2. QED
  BY <1>1, SessionsInvariant, PTL
-----------------------------------------------------------------------------
(* The refinement: every step of AuthSessions issues one token, kills one    *)
(* token, or leaves the registry as it is.                                   *)

\* The sessions at the start are live sessions of the registry.
LEMMA RegistryInit == Init => Registry!Init
<1> SUFFICES ASSUME Init PROVE Registry!Init
  OBVIOUS
<1>1. owner \in [Tokens -> Users \union {None}] /\ cache = owner
  BY SessionsAssumption DEF Init
<1>2. QED
  BY <1>1 DEF Registry!Init, tokenState

\* Removing a cache entry lets the token die.
LEMMA RegistryDie ==
  ASSUME IInv, NEW t \in Tokens, owner' = owner, cache' = [cache EXCEPT ![t] = None]
  PROVE  [Registry!Next]_<<owner, tokenState>>
<1>1. /\ cache \in [Tokens -> Users \union {None}]
      /\ cache[t] # None => owner[t] # None
  BY DEF IInv, TypeOK, SessionKeepsAccount
<1>2. CASE cache[t] = None
  BY <1>1, <1>2 DEF tokenState
<1>3. CASE cache[t] # None
  <2>1. tokenState[t] = "live"
    BY <1>1, <1>3 DEF tokenState
  <2>2. tokenState' = [tokenState EXCEPT ![t] = "dead"]
    BY <1>1, <1>3 DEF tokenState
  <2>3. Registry!Die(t)
    BY <2>1, <2>2 DEF Registry!Die
  <2>4. QED
    BY <2>3 DEF Registry!Next
<1>4. QED
  BY <1>2, <1>3

\* Drawing a uuid issues its token, live or, if the set failed, dead.
LEMMA RegistryIssue ==
  ASSUME IInv, NEW t \in Tokens, NEW u \in Users, owner[t] = None,
         owner' = [owner EXCEPT ![t] = u],
         cache' = cache \/ cache' = [cache EXCEPT ![t] = u]
  PROVE  Registry!Next
<1>1. /\ cache \in [Tokens -> Users \union {None}]
      /\ owner \in [Tokens -> Users \union {None}]
      /\ cache[t] = None /\ u # None
  BY SessionsAssumption DEF IInv, TypeOK, SessionKeepsAccount
<1>2. tokenState[t] = "fresh"
  BY DEF tokenState
<1>3. PICK s \in {"live", "dead"} : tokenState' = [tokenState EXCEPT ![t] = s]
  <2>1. CASE cache' = cache
    <3>1. tokenState' = [tokenState EXCEPT ![t] = "dead"]
      BY <1>1, <2>1 DEF tokenState
    <3>2. QED
      BY <3>1
  <2>2. CASE cache' = [cache EXCEPT ![t] = u]
    <3>1. tokenState' = [tokenState EXCEPT ![t] = "live"]
      BY <1>1, <2>2 DEF tokenState
    <3>2. QED
      BY <3>1
  <2>3. QED
    BY <2>1, <2>2
<1>4. Registry!Issue(t, u)
  BY <1>2, <1>3 DEF Registry!Issue
<1>5. QED
  BY <1>4 DEF Registry!Next

\* Every step is a step of the registry, or none.
LEMMA RegistryStep == IInv /\ [Next]_vars => [Registry!Next]_<<owner, tokenState>>
<1> SUFFICES ASSUME IInv, [Next]_vars PROVE [Registry!Next]_<<owner, tokenState>>
  OBVIOUS
<1>1. CASE UNCHANGED <<owner, cache>>
  BY <1>1 DEF tokenState
<1>2. ASSUME NEW t \in Tokens, Expire(t) PROVE [Registry!Next]_<<owner, tokenState>>
  BY <1>2, RegistryDie DEF Expire
<1>3. ASSUME NEW r \in Reqs, GenerateTokens(r)
      PROVE  [Registry!Next]_<<owner, tokenState>>
  <2>1. who[r] \in Users
    BY <1>3 DEF IInv, TypeOK, StepsFit, GenerateTokens
  <2>2. QED
    BY <1>3, <2>1, RegistryIssue DEF GenerateTokens, Attempt
<1>4. ASSUME NEW r \in Reqs, RevokeRefreshToken(r)
      PROVE  [Registry!Next]_<<owner, tokenState>>
  <2>1. tok[r] \in Tokens
    BY <1>4, SessionsAssumption
    DEF IInv, TypeOK, StepsFit, RevokeRefreshToken
  <2>2. owner' = owner
    BY <1>4 DEF RevokeRefreshToken
  <2>3. cache' = [cache EXCEPT ![tok[r]] = None] \/ UNCHANGED <<owner, cache>>
    BY <1>4, <2>2 DEF RevokeRefreshToken, Attempt
  <2>4. QED
    BY <1>1, <2>1, <2>2, <2>3, RegistryDie
<1>5. QED
  <2>1. ASSUME NEW r \in Reqs, Step(r), ~GenerateTokens(r), ~RevokeRefreshToken(r)
        PROVE  UNCHANGED <<owner, cache>>
    BY <2>1
    DEF Step, CreateAccount, ValidateUser, ValidateGoogle, ValidateRefresh, LoadUser,
        LoadRegistered
  <2>2. QED
    BY <1>1, <1>2, <1>3, <1>4, <2>1
    DEF Next, ArriveLogin, ArriveToken, ChangeStatus, vars

\* The tokens implement the registry: issued once, to one account, never revived.
THEOREM TokensImplementRegistry == Spec => ImplementsRegistry
<1>1. QED
  BY RegistryInit, RegistryStep, SessionsInvariant, PTL
  DEF Spec, ImplementsRegistry, Registry!Spec
=============================================================================
