----------------------------- MODULE MCPlatform -----------------------------
(* The platform the modules stand on: events, idempotent requests, the     *)
(* scope of a transaction and the locks of several, the jobs of a process, *)
(* the limit on failed attempts, the archive of the audit, the files of    *)
(* imports, the guards of a request, what becomes of a value it carries,   *)
(* the answers to its errors, and the configuration a process starts with. *)
(* They share no state here, so a behavior is about one of them.           *)
EXTENDS Outbox, Idempotency, TransactionScope, Locks, AuditArchive, CsvFile, FrontDoor, StartUp, Inputs, Problems

CONSTANTS r1, r2, r3, k1, h1, h2

VARIABLE about   \* the component a behavior is about

\* One transaction with one event for two handlers, or for one.
OneEvent == {<<<<1, "h1">>, <<1, "h2">>>>}
OneDelivery == {<<<<1, "h1">>>>}
\* A deployment may drop a handler.
WithoutH2 == {{"h1", "h2"}, {"h1"}}
Delays == [n \in 1..(MaxAttempts - 1) |-> n]

\* Requests with one key, one of them with other content.
OneKey == [r \in Requests |-> k1]
TwoContents == [r \in Requests |-> IF r = r3 THEN h2 ELSE h1]

\* Two variants in two warehouses; in the first the ids of the stock items do not follow those of the variants.
LockIds == [place \in {1, 2} \X {1, 2} |-> CASE place = <<1, 1>> -> 12 [] place = <<2, 1>> -> 11
                                            [] place = <<1, 2>> -> 13 [] OTHER -> 14]

\* The requests with the same content are alike.
Alike == Permutations({r1, r2})

\* Documents of one or two records with every kind of field, and of rows under some headers.
CellA == <<"a">>
CellB == <<"b">>
CellX == <<"x">>
CsvFields == {<<>>, CellX, <<COMMA>>, <<QUOTE>>, <<CR, LF>>, <<"x", QUOTE>>}
CsvRecords == {<<>>} \cup {<<f>> : f \in CsvFields} \cup (CsvFields \X CsvFields)
CsvHeaders == {<<CellA, CellB>>, <<CellB, CellA>>, <<CellB>>, <<CellA, CellA>>, <<CellA>>, <<CellA, CellX>>}
CsvRows == {<<>>, <<CellX>>, <<CellA, CellX>>, <<CellX, <<>>>>, <<<<CR, LF>>, CellB>>, <<CellX, CellA, CellB>>}

SomeDocuments ==
  {<<r>> : r \in CsvRecords} \cup {pair \in CsvRecords \X CsvRecords : Len(pair[1]) < 2 \/ Len(pair[2]) < 2}
    \cup {<<h, r>> : h \in CsvHeaders, r \in CsvRows} \cup (CsvHeaders \X CsvRows \X CsvRows) \cup {<<<<CellA>>, <<CellX>>, <<CellX>>, <<CellX>>>>}
Ends == {<<LF>>, <<CR, LF>>, <<CR>>}
SomeColumns == {CellA, CellB}
OnlyA == {CellA}

\* The roles an account may have: none, one of the store's making, or the superadmin's.
SomeRoles == {{}, {"clerk"}, {"super"}}
SomeGrants == {{}, PERMISSION_CODES \ SUPERADMIN_ONLY_PERMISSIONS}

\* An environment that starts in development, and one that starts in production.
PlainEnvironment == [NODE_ENV |-> mode("development"), DATABASE_URL |-> url("postgresql:", "", "")]
ProductionEnvironment == Merge(
  [name \in REQUIRED_IN_PRODUCTION \cup {"NODE_ENV"} |->
     CASE name = "NODE_ENV" -> mode("production") [] name \in BaseUrls -> url("https:", "", "") [] name = "SMTP_PORT" -> num(587) [] OTHER -> word(32)],
  PlainEnvironment)
\* What an operator may write in a variable: nothing, blanks, the edges of its range, or something else.
SetTo(name) ==
  {Unset, Blank} \cup
  CASE name \in DOMAIN Numbers -> {Spaces, word(3)} \cup {num(n) : n \in {Numbers[name].min - 1, Numbers[name].min, Numbers[name].max, Numbers[name].max + 1, 465}}
    [] name \in DOMAIN StoreTexts -> {Spaces, word(StoreTexts[name]), word(StoreTexts[name] + 1)}
    [] name = INACTIVE -> {Spaces, num(0), num(11), num(12), num(241)}
    [] name \in SuperadminNames -> {Spaces, word(1), word(101)}
    [] name = "JWT_SECRET" -> {word(31), word(32)}
    [] name \in Booleans -> {bool(TRUE), bool(FALSE), word(3)}
    [] name \in DOMAIN Lifetimes -> {for(0, "s"), for(5, "m"), for(1, "h"), for(91, "d"), for(1, "w"), word(3)}
    [] name \in RATE_LIMITS_SET -> {rate(0, 1, "m"), rate(1, 0, "m"), rate(5, 1, "h"), rate(5, 1, "d"), word(3)}
    [] name \in BaseUrls \cup {"CORS_ALLOWED_ORIGINS"} -> {url(s, b, a) : s \in {"http:", "https:", "ftp:"}, b \in {"", " "}, a \in {"", "/"}}
    [] name \in DOMAIN Folders -> {dir(root, at) : root \in {"absolute", "relative"},
         at \in {<<"srv">>, <<"srv", "app">>, <<"srv", "app", "storage">>, <<"..">>, <<"..x">>, <<"..x", "..">>, <<"storage">>, <<"storage", "audit">>,
                 <<"storage", "images", "audit">>, <<"storage", "images", "..", "audit">>}}
    [] name \in {"SMTP_HOST", "MAIL_FROM"} -> {word(9)}
    [] name = "DATABASE_URL" -> {url("postgresql:", "", ""), url("https:", "", "")}
    [] OTHER -> NODE_ENVIRONMENTS \cup {word(7)}
\* The variables that are checked together.
Together == {<<"IMAGE_STORAGE_DIR", "AUDIT_ARCHIVE_DIR">>, <<"AUDIT_RETENTION_MONTHS", "AUDIT_ARCHIVE_RETENTION_MONTHS">>,
             <<"FRONTEND_BASE_URL", "BACKOFFICE_BASE_URL">>, <<"JWT_SECRET", "SMTP_PORT">>}
OperatorWrites == UNION {
  {Merge([n \in {name} |-> v], given) : v \in SetTo(name)} : given \in {PlainEnvironment, ProductionEnvironment}, name \in EnvironmentVariables}
  \cup UNION {{Merge([n \in {pair[1], pair[2]} |-> IF n = pair[1] THEN v ELSE w], given) : v \in SetTo(pair[1]), w \in SetTo(pair[2])}
     : given \in {PlainEnvironment, ProductionEnvironment}, pair \in Together}

\* Where the behavior is not about a component, one of its initial states is enough.
PlatformInit ==
  /\ about \in {"events", "requests", "transaction", "locks", "jobs", "attempts", "archive", "files", "http", "start", "inputs", "problems"}
  /\ Init
  /\ about = "events" \/ /\ registered = [p \in Procs |-> Handlers]
                         /\ \A b \in Batches : dispatch[b].proc = CHOOSE p \in Procs : TRUE
  /\ LocksInit /\ (about = "locks" \/ \A t \in LockTx : script[t] = Scripts[1])
  /\ IdempotencyInit /\ ScopeInit /\ JobsInit /\ AttemptInit /\ ArchiveInit
  /\ IF about = "files" THEN CsvInit ELSE CsvBegin(<<<<CellX>>>>, FALSE, CellX)
  /\ FrontDoorInit /\ (about = "http" \/ account = CHOOSE some \in AccountRows : TRUE)
  /\ IF about = "start" THEN StartUpInit ELSE StartIn(PlainEnvironment)
  /\ IF about = "inputs" THEN InputsInit ELSE InputOf(CHOOSE sent \in SentInputs : TRUE)
  /\ ProblemsInit

\* The other components stand still.
Rest ==
  /\ about # "events" => UNCHANGED vars
  /\ about # "requests" => UNCHANGED idempotencyVars
  /\ about # "transaction" => UNCHANGED scopeVars
  /\ about # "locks" => UNCHANGED locksVars
  /\ about # "jobs" => UNCHANGED jobsVars
  /\ about # "attempts" => UNCHANGED attemptVars
  /\ about # "archive" => UNCHANGED archiveVars
  /\ about # "files" => UNCHANGED csvVars
  /\ about # "http" => UNCHANGED frontDoorVars
  /\ about # "start" => UNCHANGED startUpVars
  /\ about # "inputs" => UNCHANGED inputVars
  /\ about # "problems" => UNCHANGED problemVars
  /\ UNCHANGED about

platformVars ==
  <<vars, idempotencyVars, scopeVars, locksVars, jobsVars, attemptVars, archiveVars, csvVars, frontDoorVars, startUpVars, inputVars, problemVars, about>>

PlatformNext ==
  \/ about = "events" /\ Next /\ Rest
  \/ about = "requests" /\ IdempotencyNext /\ Rest
  \/ about = "transaction" /\ ScopeNext /\ Rest
  \/ about = "locks" /\ LocksNext /\ Rest
  \/ about = "jobs" /\ JobsNext /\ Rest
  \/ about = "attempts" /\ AttemptNext /\ Rest
  \/ about = "archive" /\ ArchiveNext /\ Rest
  \/ about = "files" /\ CsvNext /\ Rest
  \/ about = "http" /\ FrontDoorNext /\ Rest
  \/ about = "start" /\ StartUpNext /\ Rest
  \/ about = "inputs" /\ InputsNext /\ Rest
  \/ about = "problems" /\ ProblemsNext /\ Rest

\* What a transaction promises: what it tells on commit is what it did, and every wait in a circle is a known one.
TransactionsHold == CommitsTellAll /\ CirclesAreKnown

\* What a request meets: the guards that admit it, the exact limit on its failed attempts, and the answers to its errors.
RequestsHold == RequestsAreAdmitted /\ LimitIsExact /\ ProblemsHold

\* What is sent is read as it was meant: the rows of a file (parseCsv), and the values of a request (the pipe and the domain).
DataIsReadAsSent == FilesReadAsWritten /\ InputsHold

PlatformSpec == PlatformInit /\ [][PlatformNext]_platformVars
\* The behaviors about one component.
About(one) == about = one /\ PlatformInit
EventsInit == About("events")
EventsOnly == EventsInit /\ [][PlatformNext]_platformVars
EventsSettle == EventsOnly /\ Fairness
RequestsInit == About("requests")
RequestsOnly == RequestsInit /\ [][PlatformNext]_platformVars
LocksOnlyInit == About("locks")
LocksOnly == LocksOnlyInit /\ [][PlatformNext]_platformVars
=============================================================================
