------------------------------- MODULE StartUp -------------------------------
(***************************************************************************)
(* The configuration of the API (src/platform/config): the environment an  *)
(* operator wrote is transformed and checked before anything starts, and   *)
(* the modules then read the checked values: the folder served at /media,  *)
(* the archive of the audit, the key of the access tokens, the links and   *)
(* the connection of the emails, the periods that erase data.  A value is  *)
(* reduced to what the checks tell apart: its number, its length, the      *)
(* parts of its path.                                                      *)
(***************************************************************************)
EXTENDS Integers, Sequences, SequencesExt, FiniteSets

CONSTANTS
  RawEnvironments,   \* the environments an operator may write, by variable
  MaxRestarts        \* bound: restarts of the API

\* What a variable holds: kinds are told apart by `is`; n is a number or a length, at the parts of a path or URL.
raw(is, n, at) == [is |-> is, n |-> n, at |-> at]
Unset == raw("unset", 0, <<>>)
Blank == raw("blank", 0, <<>>)          \* NAME=
Spaces == raw("spaces", 1, <<>>)        \* NAME=" "
num(n) == raw("number", n, <<>>)        \* digits
word(n) == raw("text", n, <<>>)         \* other text of n characters
bool(b) == raw("bool", IF b THEN 1 ELSE 0, <<>>)
for(n, unit) == raw("duration", n, <<unit>>)
rate(n, amount, unit) == raw("rate", n, <<amount, unit>>)
dir(root, parts) == raw(root, 0, parts)             \* root: "absolute" or "relative"
url(scheme, before, after) == raw("url", 0, <<scheme, before, after>>)   \* what stands before and after it

isText(v) == v.is \notin {"unset", "blank", "spaces"}
blank(v) == v.is \in {"blank", "spaces"}

-----------------------------------------------------------------------------
(* The variables: [min, max, what stands for an unset one]. *)

range(min, max, default) == [min |-> min, max |-> max, default |-> default]

\* @Type(Number) @IsInt @Min @Max, of the process and the store.
StoreNumbers == [PORT |-> range(1, 65535, 3000), CACHE_TTL_SECONDS |-> range(1, 86400, 120),
                 VAT_RATE_BP |-> range(0, 10000, 1600), MAX_ADDRESSES_PER_CUSTOMER |-> range(1, 100, 10)]
\* @MaxLength, trimmed; what a blank one becomes is in transform.
StoreTexts == [STORE_NAME |-> 100, STORE_ADDRESS |-> 300, STORE_PHONE |-> 30, TICKET_FOOTER |-> 500, WORK_ORDER_FOOTER |-> 2000]
RATE_LIMITS_SET ==
  {"RATE_LIMIT_DEFAULT", "RATE_LIMIT_LOGIN_IP", "RATE_LIMIT_PASSWORD_CHANGE", "RATE_LIMIT_COUPON_ATTEMPTS",
   "RATE_LIMIT_REGISTER", "RATE_LIMIT_PASSWORD_RESET_EMAIL", "RATE_LIMIT_PASSWORD_RESET_IP",
   "RATE_LIMIT_EMAIL_VERIFICATION", "RATE_LIMIT_GUEST_ORDER", "RATE_LIMIT_ORDER_ACCESS_EMAIL",
   "RATE_LIMIT_ORDER_ACCESS_IP", "RATE_LIMIT_PLACE_ORDER", "RATE_LIMIT_PLACE_ORDER_EMAIL",
   "RATE_LIMIT_ADMIN_PLACE_ORDER", "RATE_LIMIT_AI_DESCRIPTION_DRAFT"}
MailNumbers == [SMTP_PORT |-> range(1, 65535, 1025)]
BaseUrls == {"FRONTEND_BASE_URL", "BACKOFFICE_BASE_URL", "IMAGE_BASE_URL"}
ImageNumbers == [IMAGE_MAX_BYTES |-> range(1, 5242880, 5242880)]
Folders == [IMAGE_STORAGE_DIR |-> dir("relative", <<"storage", "images">>),
            AUDIT_ARCHIVE_DIR |-> dir("relative", <<"storage", "audit">>)]
RetentionNumbers ==
  [PERSONAL_DATA_OPERATIONAL_MONTHS |-> range(1, 120, 12), PERSONAL_DATA_BLOCKED_MONTHS |-> range(0, 240, 60),
   SPENT_REFRESH_TOKEN_RETENTION_DAYS |-> range(1, 365, 30), INACTIVE_GUEST_CART_RETENTION_DAYS |-> range(1, 365, 30),
   PROCESSED_WEBHOOK_EVENT_RETENTION_DAYS |-> range(7, 365, 30), DELIVERED_EVENT_RETENTION_DAYS |-> range(1, 90, 7),
   AUDIT_RETENTION_MONTHS |-> range(1, 24, 3), AUDIT_ARCHIVE_RETENTION_MONTHS |-> range(2, 240, 24)]
INACTIVE == "INACTIVE_CUSTOMER_ANONYMIZATION_MONTHS"    \* optional: from 12 to 240
Lifetimes ==
  [ACCESS_TOKEN_TTL |-> range(60, 3600, for(15, "m")), REFRESH_TOKEN_TTL |-> range(3600, 90 * 86400, for(7, "d")),
   EMAIL_VERIFICATION_TTL |-> range(3600, 7 * 86400, for(24, "h")), PASSWORD_RESET_TTL |-> range(300, 7200, for(30, "m")),
   ORDER_ACCESS_LINK_TTL |-> range(300, 7200, for(30, "m")), RESERVATION_TTL |-> range(300, 7200, for(20, "m"))]
SuperadminNames == {"SUPERADMIN_FIRST_NAMES", "SUPERADMIN_LAST_NAMES"}
mode(name) == raw("mode", 0, <<name>>)
NODE_ENVIRONMENTS == {mode("development"), mode("test"), mode("production")}
Booleans == {"JOBS_ENABLED", "PERSONAL_DATA_RETENTION_ENABLED"}

Merge(f, g) == [x \in DOMAIN f \cup DOMAIN g |-> IF x \in DOMAIN f THEN f[x] ELSE g[x]]
Numbers == Merge(Merge(StoreNumbers, MailNumbers), Merge(ImageNumbers, RetentionNumbers))
REQUIRED_IN_PRODUCTION ==
  {"STORE_NAME", "SMTP_HOST", "SMTP_PORT", "MAIL_FROM", "FRONTEND_BASE_URL", "BACKOFFICE_BASE_URL", "JWT_SECRET", "IMAGE_BASE_URL"}

\* What an operator writes has a number or a length, and a folder is a path of parts.
ASSUME StartUpAssumption ==
  \A given \in RawEnvironments : \A name \in DOMAIN given :
    /\ given[name].n \in Int
    /\ name \in DOMAIN Folders /\ given[name] \notin {Unset, Blank} => given[name].at \in Seq(STRING)

EnvironmentVariables ==
  DOMAIN Numbers \cup DOMAIN StoreTexts \cup RATE_LIMITS_SET \cup BaseUrls \cup DOMAIN Folders \cup DOMAIN Lifetimes
    \cup SuperadminNames \cup Booleans \cup {INACTIVE, "NODE_ENV", "JWT_SECRET", "SMTP_HOST", "MAIL_FROM",
                                             "DATABASE_URL", "CORS_ALLOWED_ORIGINS"}

-----------------------------------------------------------------------------
(* validateEnvironment. *)

NaN == raw("nan", 0, <<>>)
\* Number(value): no characters, or only spaces, are 0.
toNumber(v) == IF v.is = "number" THEN v ELSE IF blank(v) THEN num(0) ELSE NaN

\* Default texts: STORE_NAME is the name of the project, TICKET_FOOTER says that the ticket is no tax receipt.
defaultText(name) ==
  CASE name = "STORE_NAME" -> word(9) [] name = "TICKET_FOOTER" -> word(40) [] name = "WORK_ORDER_FOOTER" -> Blank [] OTHER -> Unset

\* plainToInstance: the value of a variable, or its default.
transform(name, v) ==
  CASE name \in DOMAIN Numbers -> IF v = Unset THEN num(Numbers[name].default) ELSE toNumber(v)
    [] name \in DOMAIN StoreTexts -> IF isText(v) THEN v ELSE defaultText(name)
    [] name = INACTIVE -> IF v \in {Unset, Blank} THEN Unset ELSE toNumber(v)
    [] name \in SuperadminNames \cup {"JWT_SECRET"} -> IF v = Blank THEN Unset ELSE v
    [] name \in Booleans -> IF v = Unset THEN bool(TRUE) ELSE v
    [] name \in DOMAIN Lifetimes -> IF v = Unset THEN Lifetimes[name].default ELSE v
    [] name \in RATE_LIMITS_SET -> IF v = Unset THEN rate(10, 15, "m") ELSE v
    [] name \in BaseUrls -> IF v = Unset THEN url("http:", "", "") ELSE v
    [] name \in DOMAIN Folders -> IF v = Unset THEN Folders[name] ELSE v
    [] name \in {"SMTP_HOST", "MAIL_FROM"} -> IF v = Unset THEN word(9) ELSE v
    [] name = "CORS_ALLOWED_ORIGINS" -> IF isText(v) THEN v ELSE Unset
    [] OTHER -> v

UnitSeconds == [s |-> 1, m |-> 60, h |-> 3600, d |-> 86400]
\* durationSeconds: 0 stands for a value that is no duration.
durationSeconds(v) ==
  IF v.is = "duration" /\ v.n >= 1 /\ v.at[1] \in DOMAIN UnitSeconds THEN v.n * UnitSeconds[v.at[1]] ELSE 0
\* RATE_LIMIT_PATTERN: a day is no unit of a limit.
isRateLimit(v) == v.is = "rate" /\ v.n >= 1 /\ v.at[1] >= 1 /\ v.at[2] \in {"s", "m", "h"}
within(v, min, max) == v.is = "number" /\ v.n >= min /\ v.n <= max

\* The URL parser drops the spaces around a URL.
isBaseUrl(v) == v.is = "url" /\ v.at[1] \in {"http:", "https:"} /\ v.at[3] = ""
isExactOrigin(v) == v.is = "url" /\ v.at[1] \in {"http:", "https:"} /\ v.at[2] = "" /\ v.at[3] = ""
isPostgresUrl(v) == v.is = "url" /\ v.at[1] = "postgresql:"

\* validateSync.
isValid(name, v) ==
  CASE name \in DOMAIN Numbers -> within(v, Numbers[name].min, Numbers[name].max)
    [] name \in DOMAIN StoreTexts -> isText(v) => v.n <= StoreTexts[name]
    [] name = INACTIVE -> v = Unset \/ within(v, 12, 240)
    [] name \in SuperadminNames -> v = Unset \/ (isText(v) /\ v.n \in 1..100)
    [] name = "JWT_SECRET" -> v = Unset \/ v.n >= 32
    [] name \in Booleans -> v.is = "bool"
    [] name \in DOMAIN Lifetimes -> durationSeconds(v) >= Lifetimes[name].min /\ durationSeconds(v) <= Lifetimes[name].max
    [] name \in RATE_LIMITS_SET -> isRateLimit(v)
    [] name \in BaseUrls -> isBaseUrl(v)
    [] name \in DOMAIN Folders -> v # Blank
    [] name \in {"SMTP_HOST", "MAIL_FROM"} -> isText(v)
    [] name = "CORS_ALLOWED_ORIGINS" -> v = Unset \/ isExactOrigin(v)
    [] name = "DATABASE_URL" -> isPostgresUrl(v)
    [] OTHER -> v \in NODE_ENVIRONMENTS

cwd == <<"srv", "app">>     \* the working directory: the code and .env
\* path.resolve.
resolvePath(v) ==
  LET up(path, part) == IF part # ".." THEN Append(path, part) ELSE IF path = <<>> THEN path ELSE Front(path)
  IN  FoldLeft(up, IF v.is = "absolute" THEN <<>> ELSE cwd, v.at)
\* path.relative: up from one folder to what both share, and down to the other.
relative(from, to) ==
  LET shared == CHOOSE n \in 0..Len(from) : /\ n <= Len(to) /\ SubSeq(from, 1, n) = SubSeq(to, 1, n)
                                            /\ (n = Len(from) \/ n = Len(to) \/ from[n + 1] # to[n + 1])
  IN  [i \in 1..(Len(from) - shared) |-> ".."] \o SubSeq(to, shared + 1, Len(to))
isSameOrInside(folder, parent) == LET path == relative(parent, folder) IN path = <<>> \/ path[1] # ".."

auditArchiveProblems(env) ==
  \/ /\ env.IMAGE_STORAGE_DIR # Blank /\ env.AUDIT_ARCHIVE_DIR # Blank
     /\ isSameOrInside(resolvePath(env.AUDIT_ARCHIVE_DIR), resolvePath(env.IMAGE_STORAGE_DIR))
  \/ /\ env.AUDIT_ARCHIVE_RETENTION_MONTHS # NaN /\ env.AUDIT_RETENTION_MONTHS # NaN
     /\ env.AUDIT_ARCHIVE_RETENTION_MONTHS.n <= env.AUDIT_RETENTION_MONTHS.n
imageStorageProblems(env) == env.IMAGE_STORAGE_DIR # Blank /\ isSameOrInside(cwd, resolvePath(env.IMAGE_STORAGE_DIR))
\* /^http:/i looks at the first characters, spaces included.
frontendLinkProblems(env) ==
  /\ env.NODE_ENV = mode("production")
  /\ \E name \in {"FRONTEND_BASE_URL", "BACKOFFICE_BASE_URL"} : env[name].is = "url" /\ env[name].at[1] = "http:" /\ env[name].at[2] = ""
\* What is written in a variable: given holds those the operator wrote.
inText(given, name) == IF name \in DOMAIN given THEN given[name] ELSE Unset
missingInProduction(given, env) ==
  env.NODE_ENV = mode("production") /\ \E name \in REQUIRED_IN_PRODUCTION : inText(given, name) \in {Unset, Blank}

instanceOf(given) == [name \in EnvironmentVariables |-> transform(name, inText(given, name))]
hasProblems(given, env) ==
  \/ \E name \in EnvironmentVariables : ~isValid(name, env[name])
  \/ auditArchiveProblems(env) \/ imageStorageProblems(env) \/ frontendLinkProblems(env) \/ missingInProduction(given, env)

-----------------------------------------------------------------------------
(* The API. *)

VARIABLES
  rawEnvironment,   \* what the operator wrote, by variable
  api,              \* starting, refused or running
  starts,           \* how many times it started
  signingKey,       \* of the access tokens, while it runs
  sessionKey,       \* the key that signed the token a client holds
  left              \* the last thing that left the API or was erased, and what it was

startUpVars == <<rawEnvironment, api, starts, signingKey, sessionKey, left>>

NoKey == <<"none">>

\* The values the process reads and checks when it starts.
environment == instanceOf(rawEnvironment)

StartIn(given) ==
  /\ rawEnvironment = given
  /\ api = "starting" /\ starts = 0 /\ signingKey = NoKey /\ sessionKey = NoKey
  /\ left = [what |-> "none", value |-> 0]

StartUpInit == \E given \in RawEnvironments : StartIn(given)

\* Mutant: without skipProcessEnv, a variable left undefined falls back to what the process holds.
getFromProcess(name) == IF environment[name] = Unset THEN toNumber(inText(rawEnvironment, name)) ELSE environment[name]
\* ConfigService.get with skipProcessEnv: only what was checked, never what the process holds.
get(name) == environment[name]

\* AccessTokenKey.fromConfig: a random key when there is no secret.
fromConfig == IF get("JWT_SECRET") = Unset THEN <<"random", starts>> ELSE <<"configured">>

\* bootstrap: the environment is checked first.
validateEnvironment ==
  /\ api = "starting"
  /\ starts' = starts + 1
  /\ IF hasProblems(rawEnvironment, environment)
     THEN api' = "refused" /\ UNCHANGED signingKey
     ELSE api' = "running" /\ signingKey' = fromConfig
  /\ UNCHANGED <<rawEnvironment, sessionKey, left>>

\* A deployment stops the API and starts it again.
restart ==
  /\ api = "running" /\ starts <= MaxRestarts
  /\ api' = "starting" /\ signingKey' = NoKey
  /\ UNCHANGED <<rawEnvironment, starts, sessionKey, left>>

\* sign: the first access token a client gets.
signAccessToken ==
  /\ api = "running" /\ sessionKey = NoKey
  /\ sessionKey' = signingKey
  /\ UNCHANGED <<rawEnvironment, api, starts, signingKey, left>>

\* The files on disk: what they are, and the parts of their path, a dot file among them or not.
file(kind, folder, dotted) == [kind |-> kind, at |-> folder, dotted |-> dotted]
Files == {file("image", resolvePath(get("IMAGE_STORAGE_DIR")), FALSE), file("upload", resolvePath(get("IMAGE_STORAGE_DIR")), TRUE),
          file("archive", resolvePath(get("AUDIT_ARCHIVE_DIR")), FALSE), file("draft", resolvePath(get("AUDIT_ARCHIVE_DIR")), TRUE),
          file("code", cwd, FALSE), file(".env", cwd, TRUE)}

\* Something left the API or was erased, while it runs.
happens(what, value) ==
  /\ api = "running"
  /\ left' = [what |-> what, value |-> value]
  /\ UNCHANGED <<rawEnvironment, api, starts, signingKey, sessionKey>>

\* serveMedia: everything under the folder, except dot files.
serveMedia == \E f \in Files : /\ IsPrefix(resolvePath(get("IMAGE_STORAGE_DIR")), f.at) /\ ~f.dotted
                              /\ happens("file", f.kind)

\* ConfigFrontendLinks.link: new URL(base + path).
link == \E name \in {"FRONTEND_BASE_URL", "BACKOFFICE_BASE_URL"} : happens("link", get(name).at[1])

\* SmtpEmailSender: TLS from the start on port 465, else when the server offers it; in production it must.
send == \E offered \in BOOLEAN :
  /\ get("SMTP_PORT").n = 465 \/ offered \/ get("NODE_ENV") # mode("production")
  /\ happens("email", get("SMTP_PORT").n = 465 \/ offered)

\* InactiveCustomerAnonymizations.run, for a customer with some months without activity.
anonymizeInactive == \E months \in {0, 11, 12, 240} :
  get(INACTIVE) # Unset /\ months >= get(INACTIVE).n /\ happens("idle", months)

\* What the public route publishes for the privacy notice.
retentionPolicyOf(env) ==
  [personalData |-> [enabled |-> env.PERSONAL_DATA_RETENTION_ENABLED, operationalMonths |-> env.PERSONAL_DATA_OPERATIONAL_MONTHS,
                     blockedMonths |-> env.PERSONAL_DATA_BLOCKED_MONTHS],
   inactiveCustomerMonths |-> env[INACTIVE],
   auditTrail |-> [databaseMonths |-> env.AUDIT_RETENTION_MONTHS, archiveMonths |-> env.AUDIT_ARCHIVE_RETENTION_MONTHS]]

\* AuditArchive.run, for a day of the first age it archives: then the files before archiveMonths go.
archiveAudit ==
  LET age == get("AUDIT_RETENTION_MONTHS").n
  IN  happens("archived", IF age < get("AUDIT_ARCHIVE_RETENTION_MONTHS").n THEN "kept" ELSE "deleted")

StartUpNext ==
  \/ validateEnvironment \/ restart \/ signAccessToken \/ serveMedia \/ link \/ send \/ anonymizeInactive \/ archiveAudit

StartUpSpec == StartUpInit /\ [][StartUpNext]_startUpVars

-----------------------------------------------------------------------------
inProduction == environment["NODE_ENV"] = mode("production")
\* The check of the links does not see an http URL with a space before it.
spacedLink == \E name \in {"FRONTEND_BASE_URL", "BACKOFFICE_BASE_URL"} : environment[name].is = "url" /\ environment[name].at[2] # ""

(***************************************************************************)
(* Whatever the operator wrote, an API that runs serves only images at     *)
(* /media, keeps an archived day of the audit past the run that archived   *)
(* it, and erases an inactive account only after the period it publishes,  *)
(* of a year or more.  In production its tokens outlive a restart, its     *)
(* emails never travel in clear, and their links are https, but for a URL  *)
(* with a space before it, which the check of environment.ts:669 misses.   *)
(***************************************************************************)
RunsAsConfigured ==
  /\ left.what = "file" => left.value = "image"
  /\ left.what = "archived" => left.value = "kept"
  /\ left.what = "idle" => /\ retentionPolicyOf(environment).inactiveCustomerMonths # Unset
                           /\ left.value >= retentionPolicyOf(environment).inactiveCustomerMonths.n
                           /\ left.value >= 12
  /\ left.what = "email" /\ inProduction => left.value
  /\ left.what = "link" /\ left.value = "http:" /\ inProduction => spacedLink
  /\ api = "running" /\ sessionKey \notin {NoKey, signingKey} => ~inProduction
=============================================================================
