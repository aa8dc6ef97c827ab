---------------------------- MODULE Idempotency ----------------------------
(***************************************************************************)
(* Idempotency-Key (src/platform/http/idempotency): a request claims its   *)
(* key in idempotency_keys before its operation runs, and keeps the        *)
(* response or frees the key after it, each with a statement of its own    *)
(* outside the transaction of the operation.  Requests race, the process   *)
(* stops between two statements, statements fail, and an operation may     *)
(* last longer than the time after which its key is taken as abandoned.    *)
(***************************************************************************)
EXTENDS Integers, FiniteSets

CONSTANTS
  Requests, Keys,
  KeyOf,        \* the scope, endpoint and key of each request
  HashOf,       \* the fingerprint of its content
  Hashes,
  AbandonedAfter,    \* ABANDONED_AFTER_MS, in ticks
  ResponseRetention,    \* RETENTION_MS, in ticks
  Tries,        \* how many times begin claims a key that vanishes
  PromptOperations,       \* whether operations end before their key is taken as abandoned
  MaxTime,      \* bound on the clock
  MaxCrashes,   \* bound: requests cut off because the process stopped
  MaxFailures,  \* bound: statements that fail
  None

Kinds == {"success", "problem"}
Responses == [kind : Kinds, by : Requests]
KeyRows == [hash : Hashes, response : Responses \cup {None}, createdAt : Nat, expiresAt : Nat]

ASSUME IdempotencyAssumption ==
  /\ IsFiniteSet(Requests)
  /\ KeyOf \in [Requests -> Keys] /\ HashOf \in [Requests -> Hashes]
  /\ AbandonedAfter \in Nat \ {0} /\ ResponseRetention \in Nat /\ AbandonedAfter < ResponseRetention
  /\ Tries \in Nat \ {0} /\ PromptOperations \in BOOLEAN
  /\ MaxTime \in Nat /\ MaxCrashes \in Nat /\ MaxFailures \in Nat
  /\ None \notin Requests \cup Kinds /\ None \notin Responses /\ None \notin KeyRows   \* nothing is none of them

VARIABLES
  now,
  phase,       \* where each request is
  startedAt,   \* the clock when it came
  tries,       \* how many times begin has looked for the key
  outcome,     \* what its operation did
  answer,      \* what its client got: the kind of answer, and the request whose response it is
  keyRow,         \* idempotency_keys
  effects,     \* history: the requests that took effect while the key lived
  excuses,     \* history: how often a key in progress was taken over, keeping a response failed, or an operation after its end
  crashes, failures

requestVars == <<phase, startedAt, tries, outcome, answer>>
history == <<effects, excuses>>
idempotencyVars == <<now, requestVars, keyRow, history, crashes, failures>>

Phases == {"new", "claim", "find", "run", "keepSuccess", "keepProblem", "release", "end"}
Outcomes == {"none", "success", "problem", "error"}
Answers == {"none", "mismatch", "inProgress", "error", "cut"} \X {None} \cup Kinds \X Requests

IdempotencyTypeOK ==
  /\ now \in 0..MaxTime
  /\ phase \in [Requests -> Phases] /\ startedAt \in [Requests -> Nat] /\ tries \in [Requests -> 0..(Tries - 1)]
  /\ outcome \in [Requests -> Outcomes] /\ answer \in [Requests -> Answers]
  /\ keyRow \in [Keys -> KeyRows \cup {None}]
  /\ effects \in [Keys -> SUBSET Requests] /\ excuses \in [Keys -> Nat]
  /\ crashes \in 0..MaxCrashes /\ failures \in 0..MaxFailures

IdempotencyInit ==
  /\ now = 0
  /\ phase = [r \in Requests |-> "new"] /\ startedAt = [r \in Requests |-> 0] /\ tries = [r \in Requests |-> 0]
  /\ outcome = [r \in Requests |-> "none"] /\ answer = [r \in Requests |-> <<"none", None>>]
  /\ keyRow = [k \in Keys |-> None]
  /\ effects = [k \in Keys |-> {}] /\ excuses = [k \in Keys |-> 0]
  /\ crashes = 0 /\ failures = 0

-----------------------------------------------------------------------------
(* The rows (IdempotencyStore).                                            *)

inProgress(x) == x # None /\ x.response = None
completed(x) == x # None /\ x.response # None

\* Mutant: a key is taken over once it is old, also when its response is kept.
TakenOverDone(r, x) ==
  /\ x # None /\ x.createdAt + AbandonedAfter <= startedAt[r] /\ x.hash = HashOf[r]

\* A key still in progress after a while, with the same content, is taken over.
TakenOver(r, x) ==
  /\ inProgress(x) /\ x.createdAt + AbandonedAfter <= startedAt[r] /\ x.hash = HashOf[r]

ExpiredRow(x, at) == x # None /\ x.expiresAt <= at


ClaimedRow(r) ==
  [hash |-> HashOf[r], response |-> None, createdAt |-> startedAt[r], expiresAt |-> startedAt[r] + ResponseRetention]


\* Whether the row is still in progress and the one this request claimed.
matchesAttempt(r) ==
  LET x == keyRow[KeyOf[r]] IN inProgress(x) /\ x.hash = HashOf[r] /\ x.createdAt = startedAt[r]

Kept(r, kind) ==
  IF matchesAttempt(r) THEN [keyRow EXCEPT ![KeyOf[r]].response = [kind |-> kind, by |-> r]] ELSE keyRow
Released(r) == IF matchesAttempt(r) THEN [keyRow EXCEPT ![KeyOf[r]] = None] ELSE keyRow

go(r, to) == phase' = [phase EXCEPT ![r] = to]
reply(r, kind, by) == go(r, "end") /\ answer' = [answer EXCEPT ![r] = <<kind, by>>]
Failure == failures < MaxFailures /\ failures' = failures + 1

-----------------------------------------------------------------------------
(* A request (IdempotencyInterceptor).                                     *)

intercept(r) ==
  /\ phase[r] = "new"
  /\ go(r, "claim")
  /\ startedAt' = [startedAt EXCEPT ![r] = now]
  /\ UNCHANGED <<now, tries, outcome, answer, keyRow, history, crashes, failures>>

Takeable(r) == LET x == keyRow[KeyOf[r]] IN x = None \/ ExpiredRow(x, startedAt[r]) \/ TakenOver(r, x)

\* One statement: a new, expired or abandoned key becomes this request's.
take(r) ==
  LET k == KeyOf[r] IN
  /\ Takeable(r)
  /\ keyRow' = [keyRow EXCEPT ![k] = ClaimedRow(r)]
  /\ effects' = [effects EXCEPT ![k] = IF ExpiredRow(keyRow[k], startedAt[r]) THEN {} ELSE @]
  /\ excuses' = [excuses EXCEPT ![k] = IF inProgress(keyRow[k]) THEN @ + 1 ELSE @]

claim(r) ==
  /\ phase[r] = "claim"
  /\ \/ take(r) /\ go(r, "run")
     \/ ~Takeable(r) /\ go(r, "find") /\ UNCHANGED <<keyRow, history>>
  /\ UNCHANGED <<now, startedAt, tries, outcome, answer, crashes, failures>>


\* The key was not claimed: what its row allows.  It may be gone by now, and is claimed again, Tries times at most.
find(r) ==
  LET x == keyRow[KeyOf[r]] IN
  /\ phase[r] = "find"
  /\ \/ x = None /\ tries[r] + 1 < Tries /\ go(r, "claim") /\ tries' = [tries EXCEPT ![r] = @ + 1] /\ UNCHANGED answer
     \/ x = None /\ tries[r] + 1 = Tries /\ reply(r, "inProgress", None) /\ UNCHANGED tries
     \/ x # None /\ x.hash # HashOf[r] /\ reply(r, "mismatch", None) /\ UNCHANGED tries
     \/ inProgress(x) /\ x.hash = HashOf[r] /\ reply(r, "inProgress", None) /\ UNCHANGED tries
     \/ completed(x) /\ x.hash = HashOf[r] /\ reply(r, x.response.kind, x.response.by) /\ UNCHANGED tries
  /\ UNCHANGED <<now, startedAt, outcome, keyRow, history, crashes, failures>>

\* A statement of begin fails, after being applied or not: the client gets the error, and nothing frees the key.
beginFails(r) ==
  /\ phase[r] \in {"claim", "find"}
  /\ Failure
  /\ reply(r, "error", None)
  /\ \/ UNCHANGED <<keyRow, history>>
     \/ phase[r] = "claim" /\ take(r)
  /\ UNCHANGED <<now, startedAt, tries, outcome, crashes>>

\* The operation ends: done, refused by the business, or with a validation error or an unexpected one, which roll its
\* transaction back.
operate(r, how) ==
  /\ phase[r] = "run"
  /\ outcome' = [outcome EXCEPT ![r] = how]
  /\ go(r, CASE how = "success" -> "keepSuccess" [] how = "problem" -> "keepProblem" [] how = "error" -> "release")
  /\ effects' = [effects EXCEPT ![KeyOf[r]] = IF how = "success" THEN @ \cup {r} ELSE @]
  /\ UNCHANGED <<now, startedAt, tries, answer, keyRow, excuses, crashes, failures>>

\* Its transaction commits, and then it throws: the answer of the commit is lost, or reading what it answers fails.
\* catchError knows no difference and frees the key of what was done.
failsDone(r) ==
  /\ phase[r] = "run"
  /\ Failure
  /\ outcome' = [outcome EXCEPT ![r] = "error"]
  /\ go(r, "release")
  /\ effects' = [effects EXCEPT ![KeyOf[r]] = @ \cup {r}]
  /\ excuses' = [excuses EXCEPT ![KeyOf[r]] = @ + 1]
  /\ UNCHANGED <<now, startedAt, tries, answer, keyRow, crashes>>

\* complete: the response is kept, unless another request took the key over.
complete(r, kind) ==
  /\ phase[r] = (IF kind = "success" THEN "keepSuccess" ELSE "keepProblem")
  /\ keyRow' = Kept(r, kind)
  /\ reply(r, kind, r)
  /\ UNCHANGED <<now, startedAt, tries, outcome, history, crashes, failures>>

\* complete fails, after being applied or not: catchError frees the key of a success that could not be kept, and the
\* key of a problem stays in progress.
completeFails(r, kind) ==
  /\ phase[r] = (IF kind = "success" THEN "keepSuccess" ELSE "keepProblem")
  /\ Failure
  /\ keyRow' \in {keyRow, Kept(r, kind)}
  /\ excuses' = [excuses EXCEPT ![KeyOf[r]] = IF kind = "success" THEN @ + 1 ELSE @]
  /\ IF kind = "success" THEN go(r, "release") /\ UNCHANGED answer ELSE reply(r, "error", None)
  /\ UNCHANGED <<now, startedAt, tries, outcome, effects, crashes>>


release(r) ==
  /\ phase[r] = "release"
  /\ keyRow' = Released(r)
  /\ reply(r, "error", None)
  /\ UNCHANGED <<now, startedAt, tries, outcome, history, crashes, failures>>

releaseFails(r) ==
  /\ phase[r] = "release"
  /\ Failure
  /\ keyRow' \in {keyRow, Released(r)}
  /\ reply(r, "error", None)
  /\ UNCHANGED <<now, startedAt, tries, outcome, history, crashes>>

\* The process stops with the request in hand: before its operation ended, which undoes it, or after.
cutOff(r) ==
  /\ phase[r] \notin {"new", "end"}
  /\ crashes < MaxCrashes /\ crashes' = crashes + 1
  /\ reply(r, "cut", None)
  /\ UNCHANGED <<now, startedAt, tries, outcome, keyRow, history, failures>>

-----------------------------------------------------------------------------
(* The jobs, which end the life of a key.                                  *)

\* deleteExpired, by the daily job.
cleanUp(k) ==
  /\ ExpiredRow(keyRow[k], now)
  /\ keyRow' = [keyRow EXCEPT ![k] = None]
  /\ effects' = [effects EXCEPT ![k] = {}]
  /\ excuses' = [excuses EXCEPT ![k] = IF inProgress(keyRow[k]) THEN @ + 1 ELSE @]
  /\ UNCHANGED <<now, requestVars, crashes, failures>>

\* forget and forgetResponsesOf: a kept response repeats the data of a buyer being anonymized.
forget(k) ==
  /\ completed(keyRow[k])
  /\ keyRow' = [keyRow EXCEPT ![k] = None]
  /\ effects' = [effects EXCEPT ![k] = {}]
  /\ UNCHANGED <<now, requestVars, excuses, crashes, failures>>

passRequestTime ==
  /\ now < MaxTime
  /\ PromptOperations => \A r \in Requests : phase[r] \in {"new", "end"} \/ now + 1 < startedAt[r] + AbandonedAfter
  /\ now' = now + 1
  /\ UNCHANGED <<requestVars, keyRow, history, crashes, failures>>

IdempotencyNext ==
  \/ \E r \in Requests :
       \/ intercept(r) \/ claim(r) \/ find(r) \/ beginFails(r)
       \/ failsDone(r) \/ \E how \in Outcomes \ {"none"} : operate(r, how)
       \/ \E kind \in Kinds : complete(r, kind) \/ completeFails(r, kind)
       \/ release(r) \/ releaseFails(r) \/ cutOff(r)
  \/ \E k \in Keys : cleanUp(k) \/ forget(k)
  \/ passRequestTime

IdempotencySpec == IdempotencyInit /\ [][IdempotencyNext]_idempotencyVars

-----------------------------------------------------------------------------
(* Properties.                                                             *)

\* A client told of a success, or of a problem, is told of one that its own operation, or one with the same key and
\* the same content, really had: never of what another content asked for, nor of what was undone (find, replay).
AnswersTrue ==
  \A r \in Requests :
    answer[r][1] \in Kinds =>
      LET by == answer[r][2] IN KeyOf[by] = KeyOf[r] /\ HashOf[by] = HashOf[r] /\ outcome[by] = answer[r][1]

\* While a key lives, an operation is only repeated after its key was taken over in progress, after keeping its response
\* failed, or after it failed with its transaction committed: never because two requests claimed at once, nor after its
\* response was kept (claim, begin).
RepeatsExplained == \A k \in Keys : Cardinality(effects[k]) <= 1 + excuses[k]

\* Without crashes and failures, a key in progress is in the hands of a request that still runs: no way through the
\* interceptor leaves it locked to its client (run).
HeldByLive ==
  crashes + failures = 0 =>
    \A k \in Keys : inProgress(keyRow[k]) =>
      \E r \in Requests : /\ KeyOf[r] = k /\ HashOf[r] = keyRow[k].hash /\ startedAt[r] = keyRow[k].createdAt
                          /\ phase[r] \in {"run", "keepSuccess", "keepProblem", "release"}

\* A kept response is never replaced while it lives, not even by a request that lost its key and ends later: it is
\* only deleted (complete, release, claim).
KeptIsStable ==
  [][\A k \in Keys : completed(keyRow[k]) /\ ~ExpiredRow(keyRow[k], now) => keyRow'[k] \in {keyRow[k], None}]_idempotencyVars

\* BR-ORD-15: a retry with the same key and the same content does not repeat the operation.
NotRepeated == \A k \in Keys : Cardinality(effects[k]) <= 1

\* What clients are told, how often an operation happens and which keys stay locked all fit what the interceptor did,
\* with crashes and failures at any step (intercept, run), and an answer kept stays as it is.
KeysAreHonest == [](IdempotencyTypeOK /\ AnswersTrue /\ RepeatsExplained /\ HeldByLive) /\ KeptIsStable
=============================================================================
