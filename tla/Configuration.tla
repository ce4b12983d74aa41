---------------------------- MODULE Configuration ----------------------------
(* How the .env file and the environment of the process become the settings   *)
(* the program runs with: the schema of validation.schema.ts, what the        *)
(* configuration library does with it, the factories of configuration.ts and  *)
(* the values main.ts starts the server with.  Values are texts; a number is  *)
(* the text of its digits.                                                    *)

CONSTANTS
  Malformed,   \* a text that is no number, no URI, no email, no long secret
  OriginsOf,   \* CORS_ORIGINS as a text -> the origins it lists
  Number,      \* a text like 1e4, with more to it than digits -> the number it means
  Prefix,      \* such a text -> the number that parseInt finds at its start
  OutOfRange   \* a numeric variable with a narrow range -> numbers that are not in it

-----------------------------------------------------------------------------
(* The schema.                                                                *)

Required == {"DB_HOST", "DB_USER", "DB_PASSWORD", "DB_NAME", "JWT_SECRET"}
Optional == {"PORT", "APP_HOST_PORT", "POSTGRES_HOST_PORT", "REDIS_HOST_PORT",
             "PGADMIN_HOST_PORT", "PGADMIN_PORT", "APP_BASE_URL"}

SomeOrigins == "http://localhost:3000,http://localhost:3001"
SomeTypes   == "image/jpeg,image/png,image/gif,application/pdf,text/plain"

\* The default of every other variable.
Default ==
  [NODE_ENV |-> "development", APP_PORT |-> "3000", DB_PORT |-> "5432", DB_SSL |-> "false",
   REDIS_HOST |-> "localhost", REDIS_PORT |-> "6379", REDIS_PASSWORD |-> "", REDIS_DB |-> "0",
   JWT_ACCESS_TOKEN_EXPIRES_IN |-> "15m", JWT_REFRESH_TOKEN_EXPIRES_IN |-> "7d",
   JWT_EXPIRES_IN |-> "15m",
   GOOGLE_CLIENT_ID |-> "", GOOGLE_CLIENT_SECRET |-> "", GOOGLE_CALLBACK_URL |-> "",
   FRONTEND_URL |-> "http://localhost:3001",
   MAIL_HOST |-> "smtp.gmail.com", MAIL_PORT |-> "587", MAIL_SECURE |-> "false",
   MAIL_USER |-> "", MAIL_PASSWORD |-> "", MAIL_FROM |-> "", MAIL_FROM_NAME |-> "NestJS App",
   STORAGE_TYPE |-> "local", STORAGE_LOCAL_DESTINATION |-> "./uploads",
   STORAGE_MAX_FILE_SIZE |-> "10485760", STORAGE_ALLOWED_MIME_TYPES |-> SomeTypes,
   CORS_ORIGINS |-> SomeOrigins, PGADMIN_EMAIL |-> "", PGADMIN_PASSWORD |-> ""]

\* The numbers that texts stand for are digits only, and so are the defaults.
ASSUME NumbersAssumption ==
  /\ DOMAIN Prefix \subseteq DOMAIN Number
  /\ \A x \in DOMAIN Number : x # "" /\ Number[x] \notin DOMAIN Number \union {""}
  /\ \A v \in DOMAIN Default : Default[v] \notin DOMAIN Number

Known == Required \union Optional \union DOMAIN Default

\* allow('').
Emptiable ==
  {"REDIS_PASSWORD", "GOOGLE_CLIENT_ID", "GOOGLE_CLIENT_SECRET", "GOOGLE_CALLBACK_URL",
   "MAIL_USER", "MAIL_PASSWORD", "MAIL_FROM", "STORAGE_ALLOWED_MIME_TYPES",
   "CORS_ORIGINS", "PGADMIN_EMAIL", "PGADMIN_PASSWORD"}

\* valid(...).
Choices ==
  [NODE_ENV |-> {"development", "production", "test"}, DB_SSL |-> {"true", "false"},
   MAIL_SECURE |-> {"true", "false"}, STORAGE_TYPE |-> {"local", "s3", "azure", "gcp"}]

\* number().
Numeric ==
  {"APP_PORT", "DB_PORT", "REDIS_PORT", "REDIS_DB", "MAIL_PORT", "STORAGE_MAX_FILE_SIZE"}
    \union (Optional \ {"APP_BASE_URL"})

\* uri(), email(), min(32).
Formatted ==
  {"JWT_SECRET", "GOOGLE_CALLBACK_URL", "FRONTEND_URL", "MAIL_USER", "MAIL_FROM",
   "PGADMIN_EMAIL", "APP_BASE_URL"}

ReadBy(table, x) == IF x \in DOMAIN table THEN table[x] ELSE x
ParseInt(x) == ReadBy(Prefix, x)

\* The value that the schema makes of a text.
Converted(v, x) == IF v \in Numeric THEN ReadBy(Number, x) ELSE x

Accepts(v, x) ==
  /\ x = "" => v \in Emptiable
  /\ v \in DOMAIN Choices => x \in Choices[v]
  /\ v \in Numeric \union Formatted => x # Malformed
  /\ v \in DOMAIN OutOfRange => Converted(v, x) \notin OutOfRange[v]

-----------------------------------------------------------------------------
(* ConfigModule.forRoot: an environment has the variables of the file and     *)
(* those of the process.                                                      *)

Over(f, g) == [v \in DOMAIN f \union DOMAIN g |-> IF v \in DOMAIN f THEN f[v] ELSE g[v]]

Merged(e) == Over(e.proc, e.file)
Bootable(e) ==
  /\ Required \subseteq DOMAIN Merged(e)
  /\ \A v \in Known \intersect DOMAIN Merged(e) : Accepts(v, Merged(e)[v])

\* stripUnknown removes what the schema does not know; numbers are converted.
Checked(e) ==
  [v \in Known \intersect DOMAIN Merged(e) |-> Converted(v, Merged(e)[v])]

\* Mutant of Validated: no defaults.
ValidatedBare(e) == Checked(e)

\* Then come the defaults.
Validated(e) == Over(Checked(e), Default)

\* What is validated enters the environment where it is missing; what the process
\* has stays the text it was.
ProcessEnv(e) == Over(e.proc, Validated(e))

-----------------------------------------------------------------------------
(* The factories.                                                             *)

Given(p, v) == v \in DOMAIN p /\ p[v] # ""
Either(p, v, x) == IF Given(p, v) THEN p[v] ELSE x

\* What the factories, and the modules that use them, take in place of an empty
\* variable ...
Fallback ==
  [NODE_ENV |-> "development", DB_HOST |-> "localhost", DB_PORT |-> "5432",
   DB_USER |-> "postgres", DB_PASSWORD |-> "postgres", DB_NAME |-> "nestjs_db", DB_SSL |-> "",
   REDIS_HOST |-> "localhost", REDIS_PORT |-> "6379", REDIS_PASSWORD |-> "", REDIS_DB |-> "0",
   JWT_SECRET |-> "your-secret-key", JWT_ACCESS_TOKEN_EXPIRES_IN |-> "15m",
   JWT_REFRESH_TOKEN_EXPIRES_IN |-> "7d",
   GOOGLE_CLIENT_ID |-> "", GOOGLE_CLIENT_SECRET |-> "", GOOGLE_CALLBACK_URL |-> "",
   FRONTEND_URL |-> "http://localhost:3000",
   MAIL_HOST |-> "smtp.gmail.com", MAIL_PORT |-> "587", MAIL_SECURE |-> "",
   MAIL_USER |-> "", MAIL_PASSWORD |-> "", MAIL_FROM_NAME |-> "NestJS App",
   STORAGE_TYPE |-> "local", STORAGE_LOCAL_DESTINATION |-> "./uploads",
   STORAGE_MAX_FILE_SIZE |-> "10485760", STORAGE_ALLOWED_MIME_TYPES |-> SomeTypes]

\* ... and the modules in place of a number 0.
ZeroFallback == [MAIL_PORT |-> "587", STORAGE_MAX_FILE_SIZE |-> "10485760"]

\* A setting as a module takes it from the factories.
Taken(p, v) ==
  LET text   == Either(p, v, Fallback[v])
      number == ParseInt(text)
  IN  IF v \notin Numeric THEN text
      ELSE IF v \in DOMAIN ZeroFallback /\ number = "0" THEN ZeroFallback[v] ELSE number

\* bullBoard has defaults for absent variables, but takes empty ones.
BoardFallback ==
  [BULL_BOARD_PATH |-> "/admin/queues", BULL_BOARD_ENABLED |-> "true",
   BULL_BOARD_SECRET_KEY |-> ""]

Plain(p) ==
  Over([v \in DOMAIN Fallback |-> Taken(p, v)], Over(p, BoardFallback))

Port(p) == ParseInt(Either(p, "PORT", Either(p, "APP_PORT", "3000")))

\* Entities alter the tables outside production only, and only in production is the
\* connection encrypted.
Database(p) ==
  LET production == Plain(p)["NODE_ENV"] = "production" IN
  [synchronize |-> ~production,
   ssl |-> production /\ Given(p, "DB_SSL") /\ p["DB_SSL"] = "true"]

\* The settings: one for each variable, and those that combine several.
Settings(p) ==
  [plain |-> Plain(p),
   port |-> Port(p),
   baseUrl |-> Either(p, "APP_BASE_URL", <<"http://localhost", Port(p)>>),
   from |-> Either(p, "MAIL_FROM", Either(p, "MAIL_USER", "")),
   expiresIn |-> Either(p, "JWT_EXPIRES_IN", Plain(p)["JWT_ACCESS_TOKEN_EXPIRES_IN"]),
   database |-> Database(p)]

-----------------------------------------------------------------------------
(* What main.ts and the modules start with.                                   *)

\* The Google strategy throws without a client id, and with it the start.
Startable(s) == s.plain["GOOGLE_CLIENT_ID"] # ""

Development(s) == s.plain["NODE_ENV"] # "production"

AllowedOrigins(s) ==
  IF s.plain["CORS_ORIGINS"] # "" THEN OriginsOf[s.plain["CORS_ORIGINS"]]
  ELSE IF Development(s) THEN OriginsOf[SomeOrigins] ELSE {}

\* What the requests meet: the origins CORS lets in, and the queue board.
Front(s) ==
  [origins |-> AllowedOrigins(s),
   board |-> Development(s) /\ s.plain["BULL_BOARD_ENABLED"] # "false",
   boardKey |-> s.plain["BULL_BOARD_SECRET_KEY"]]

\* A port 0 is no port to listen on.
ListenPort(s) == IF s.port = "0" THEN "3000" ELSE s.port

\* What GET /admin/settings shows.
Shown(s) ==
  [environment |-> s.plain["NODE_ENV"], host |-> s.plain["DB_HOST"],
   port |-> s.plain["DB_PORT"], name |-> s.plain["DB_NAME"], expiresIn |-> s.expiresIn]

-----------------------------------------------------------------------------
(* What an operator asks for, whatever the way it takes: what the process has *)
(* over what the file has over the default of the schema.                     *)

FromProcessOnly == DOMAIN BoardFallback
Asked(e, v) ==
  CASE v \in DOMAIN e.proc                             -> e.proc[v]
    [] v \in DOMAIN e.file \ (DOMAIN e.proc \union FromProcessOnly) -> e.file[v]
    [] v \in DOMAIN Default \ (DOMAIN e.proc \union DOMAIN e.file) -> Default[v]
    [] OTHER                                           -> ""

\* The value it means: of 1e4, ten thousand.
Intended(e, v) == Converted(v, Asked(e, v))

\* parseInt reads 1 in the 1e4 of the process; that of the file was converted before.
Misread(e, v) ==
  v \in Numeric \intersect DOMAIN e.proc /\ ParseInt(e.proc[v]) # Intended(e, v)

\* The modules take another value for 0.
Replaced(e, v) == v \in DOMAIN ZeroFallback /\ Intended(e, v) = "0"
=============================================================================
