-------------------------- MODULE MCRequestPipeline --------------------------
(* Small instances of RequestPipeline.  The clock counts in tens of seconds   *)
(* for the shortest throttler; limits and ttls keep the order and the slack   *)
(* of 10 per 10 s, 100 per 60 s, 1000 per 600 s.                              *)
EXTENDS RequestPipeline, TLC

CONSTANTS u1, c1, c2, r1, r2, short, default, long

Origins == ("http://localhost:3000,http://localhost:3001" :> {"o1", "o2"}) @@
           ("http://app" :> {"o3"}) @@ ("x" :> {"x"})

\* Two numbers with an exponent: 10 is no file size, 10000 no number of a Redis database.
Numbers    == "1e1" :> "10" @@ "1e4" :> "10000"
Prefixes   == "1e1" :> "1" @@ "1e4" :> "1"
Narrow     == [STORAGE_MAX_FILE_SIZE |-> {"0", "10"}, REDIS_DB |-> {"10000"}]

Limits == short :> 1 @@ default :> 2 @@ long :> 3
Ttls   == short :> 1 @@ default :> 2 @@ long :> 3

Needed == [DB_HOST |-> "db", DB_USER |-> "dbuser", DB_PASSWORD |-> "secret", DB_NAME |-> "name",
           JWT_SECRET |-> "a long enough secret", GOOGLE_CLIENT_ID |-> "id"]
Nothing == [v \in {} |-> ""]
Env(file, proc) == [file |-> Over(file, Needed), proc |-> proc]
Set(v, x) == v :> x

Variables == Known \union DOMAIN BoardFallback
Samples(v) ==
  CASE v = "CORS_ORIGINS"          -> {""}
    [] v = "BULL_BOARD_ENABLED"    -> {"", "false"}
    [] v = "BULL_BOARD_SECRET_KEY" -> {""}
    [] v \in Numeric               -> {"", "?", "x", "0", "1e1", "1e4"}
    [] OTHER                       -> {"", "?", "x"}
ChoiceOf(v) == IF v \in DOMAIN Choices THEN Choices[v] ELSE {}

\* One variable at a time, in the file, in the process or in both; a variable that
\* is missing; and the combinations that several settings are made of.
SomeEnvironments ==
  UNION { UNION { {Env(Set(v, x), Nothing), Env(Nothing, Set(v, x)), Env(Set(v, "x"), Set(v, x))} :
            x \in Samples(v) } : v \in Variables }
  \union { Env(Set(v[1], v[2]), Nothing) :
             v \in UNION {{<<w, x>> : x \in ChoiceOf(w)} : w \in Variables} }
  \union { [file |-> [w \in DOMAIN Needed \ {v} |-> Needed[w]], proc |-> Nothing] :
             v \in DOMAIN Needed }
  \union { Env(Set("APP_PORT", "0"), Set("PORT", "8080")),
           Env(Set("BULL_BOARD_SECRET_KEY", "x"), Nothing),
           Env(Nothing, "BULL_BOARD_SECRET_KEY" :> "x" @@ "CORS_ORIGINS" :> "http://app"),
           Env(Nothing, "NODE_ENV" :> "production" @@ "DB_SSL" :> "true"),
           Env(Set("MAIL_USER", "me"), Set("MAIL_FROM", "")) }

\* Requests of two clients with and without what they need.
Ask(c, route) == [client |-> c, route |-> route, origin |-> None, bearer |-> u1,
                  body |-> "valid", key |-> ""]
SomeRequests ==
  { Ask(c1, "health"), [Ask(c2, "health") EXCEPT !.origin = "o3"],
    [Ask(c1, "users") EXCEPT !.origin = "o1"],
    [Ask(c1, "users") EXCEPT !.body = "invalid"],
    [Ask(c2, "profile") EXCEPT !.bearer = None],
    [Ask(c1, "board") EXCEPT !.key = "x"] }

SlotSymmetry == Permutations(Slots)

OneAccount == { [u \in Users |-> [role |-> "admin", active |-> TRUE]] }
=============================================================================
