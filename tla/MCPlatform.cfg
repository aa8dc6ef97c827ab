SPECIFICATION PlatformSpec
CONSTANTS
  Handlers = {"h1", "h2"}
  Batches <- OneEvent
  Procs = {p1, p2}
  Deployments <- WithoutH2
  MaxAttempts = 2
  Delay <- Delays
  Lease = 2
  BatchSize = 1
  Retention = 0
  Prompt = TRUE
  MaxFaults = 2
  r1 = r1  r2 = r2  r3 = r3  k1 = k1  h1 = h1  h2 = h2  None = None
  Requests = {r1, r2, r3}  Keys = {k1}  Hashes = {h1, h2}
  KeyOf <- OneKey  HashOf <- TwoContents
  AbandonedAfter = 1  ResponseRetention = 2  Tries = 2  PromptOperations = FALSE
  MaxTime = 2  MaxCrashes = 1  MaxFailures = 1
  MaxWrites = 4  MaxNesting = 2  MaxSavepoints = 3
  Jobs = {"j1", "j2"}  MaxJobRuns = 3
  AttemptKeys = {1, 2}  FailureLimit = 2  AttemptWindow = 3  TicksPerSecond = 2
  MaxAtOnce = 2  MaxAttemptTime = 4
  MaxRecords = 4  ARCHIVE_BATCH_SIZE = 2
  LockTxs = 3  LockVariants = {1, 2}  ItemId <- LockIds  MissingItems = {1, 2}
  Documents <- SomeDocuments  LineEnds <- Ends  Columns <- SomeColumns  Required <- OnlyA  MaxRows = 2
  RoleSets <- SomeRoles  RoleGrants <- SomeGrants  SuperadminRole = "super"  Anyone = Anyone  MaxAccountChanges = 2
  RawEnvironments <- OperatorWrites  MaxRestarts = 1  MaxAnswers = 2
INVARIANTS DataIsReadAsSent NothingLost OneTaker LastAttemptEnds TransactionsHold
  RequestsHold JobsHold RunsAsConfigured
PROPERTIES DeliveredIsFinal KeysAreHonest
CHECK_DEADLOCK FALSE
SYMMETRY Alike
