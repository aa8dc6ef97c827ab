------------------------------- MODULE Outbox -------------------------------
(***************************************************************************)
(* The transactional outbox of domain events (src/platform/events): one    *)
(* row of event_deliveries per event and handler, taken under a lease,     *)
(* attempted by the background dispatch after the commit or by the retry   *)
(* job of some instance, and settled afterwards.  Instances crash between  *)
(* any two steps, statements fail, handlers throw, and an attempt may      *)
(* outlive its lease.                                                      *)
(*                                                                         *)
(* Time is relative: a row keeps the minutes left until next_attempt_at    *)
(* (wait) and locked_until (lock), which Tick counts down, so that the     *)
(* clock is unbounded and the state finite.                                *)
(***************************************************************************)
EXTENDS Integers, Sequences, FiniteSets

CONSTANTS
  Handlers,     \* names of the @OnDomainEvent methods
  Batches,      \* the deliveries of one transaction, <<event, handler>>, in publish order
  Procs,        \* running instances of the API
  Deployments,  \* the sets of handlers an instance may start with
  MaxAttempts,  \* MAX_DELIVERY_ATTEMPTS
  Delay,        \* RETRY_DELAY_MINUTES, by attempt
  Lease,        \* DELIVERY_LEASE_MS, in ticks
  BatchSize,    \* DELIVERY_BATCH_SIZE
  Retention,    \* DELIVERED_EVENT_RETENTION_DAYS, in ticks
  Prompt,       \* whether attempts finish within their lease, which nothing in the code enforces
  MaxFaults     \* bound: crashes, failed statements and throwing handlers

Ran(b) == {b[i] : i \in DOMAIN b}
Deliveries == UNION {Ran(b) : b \in Batches}
EventOf(d) == d[1]
HandlerOf(d) == d[2]

ASSUME OutboxAssumption ==
  /\ IsFiniteSet(Procs)
  /\ Batches \subseteq Seq(Nat \X Handlers)
  /\ \A b, c \in Batches : b # c => Ran(b) \cap Ran(c) = {}   \* event ids are unique
  /\ Deployments # {} /\ Deployments \subseteq SUBSET Handlers
  /\ MaxAttempts \in Nat \ {0, 1}
  /\ Prompt \in BOOLEAN
  /\ Delay \in [1..(MaxAttempts - 1) -> Nat \ {0}]
  /\ Lease \in Nat \ {0} /\ BatchSize \in Nat \ {0}
  /\ Retention \in Nat /\ MaxFaults \in Nat

\* Who may run an attempt: the background dispatch of a transaction, or the retry job of an instance.
Runners == ({"dispatch"} \X Batches) \cup ({"job"} \X Procs)

NoLock == -1   \* locked_until IS NULL
Idle == [phase |-> "idle"]
Resting == [phase |-> "rest", todo |-> {}]

VARIABLES
  row,         \* event_deliveries, by delivery
  published,   \* transactions that committed
  dispatch,    \* the background work of a transaction: its instance, and the deliveries left to take
  job,         \* the run of platform.deliver-events in each instance
  attempt,     \* the attempt each runner has in hand
  registered,  \* handlersByName of each instance
  applied,     \* history: deliveries whose handler has finished once
  faults       \* how many faults happened

vars == <<row, published, dispatch, job, attempt, registered, applied, faults>>

NoRow == [status |-> "NONE", attempts |-> 0, wait |-> 0, lock |-> NoLock, age |-> 0]

\* A delivery in hand: the row and the attempt it counts (ClaimedDelivery).
Claims == [d : Deliveries, n : 1..MaxAttempts]

Rows == [status : {"NONE", "PENDING", "DELIVERED", "FAILED", "DELETED"},
         attempts : 0..MaxAttempts, wait : Nat, lock : Nat \cup {NoLock}, age : Nat]
Attempts == [phase : {"run", "ok", "err"}, d : Deliveries, n : 1..MaxAttempts]

TypeOK ==
  /\ row \in [Deliveries -> Rows]
  /\ published \subseteq Batches
  /\ dispatch \in [Batches -> [proc : Procs, todo : Seq(Deliveries)]]
  /\ job \in [Procs -> [phase : {"rest", "due", "claim", "run"}, todo : SUBSET Claims]]
  /\ attempt \in [Runners -> {Idle} \cup Attempts]
  /\ registered \in [Procs -> SUBSET Handlers]
  /\ applied \subseteq Deliveries
  /\ faults \in 0..MaxFaults

Init ==
  /\ row = [d \in Deliveries |-> NoRow]
  /\ published = {}
  /\ dispatch \in [Batches -> [proc : Procs, todo : {<<>>}]]
  /\ job = [p \in Procs |-> Resting]
  /\ attempt = [r \in Runners |-> Idle]
  /\ registered \in [Procs -> Deployments]
  /\ applied = {}
  /\ faults = 0

-----------------------------------------------------------------------------
(* The rows (EventOutbox).                                                 *)

\* nextAttemptAt: the minutes to wait after attempt n; a new delivery waits as after its first.
nextAttemptAt(n) == Delay[IF n < 1 THEN 1 ELSE n]

Unlocked(d) == row[d].lock = NoLock \/ row[d].lock = 0

\* Mutants of Claimable: the lease not looked at; the attempts not limited.
ClaimableHeld(d) == row[d].status = "PENDING" /\ row[d].attempts < MaxAttempts
ClaimableForever(d) == row[d].status = "PENDING" /\ Unlocked(d)

\* The condition of both claims: pending, attempts left, held by nobody.
Claimable(d) == row[d].status = "PENDING" /\ row[d].attempts < MaxAttempts /\ Unlocked(d)

Claimed(r) == [r EXCEPT !.attempts = @ + 1, !.lock = Lease]

\* An update by id finds no row once the event was deleted.
Exists(d) == row[d].status \notin {"NONE", "DELETED"}

markDelivered(d) ==
  IF Exists(d)
  THEN [row EXCEPT ![d].status = "DELIVERED", ![d].lock = NoLock, ![d].age = 0]
  ELSE row

\* Mutant: the last attempt waits for one more.
markFailedAttemptOnce(d, n) ==
  IF ~Exists(d) THEN row
  ELSE IF n > MaxAttempts
  THEN [row EXCEPT ![d].status = "FAILED", ![d].lock = NoLock]
  ELSE [row EXCEPT ![d].wait = nextAttemptAt(n - 1), ![d].lock = NoLock]

markFailedAttempt(d, n) ==
  IF ~Exists(d) THEN row
  ELSE IF n >= MaxAttempts
  THEN [row EXCEPT ![d].status = "FAILED", ![d].lock = NoLock]
  ELSE [row EXCEPT ![d].wait = nextAttemptAt(n), ![d].lock = NoLock]

\* Mutants: any attempt whose lease ran out; a last attempt that nobody holds.
AbandonedAny(d) == row[d].status = "PENDING" /\ row[d].lock = 0
AbandonedUnheld(d) == row[d].status = "PENDING" /\ row[d].attempts >= MaxAttempts /\ row[d].lock = NoLock

Abandoned(d) ==
  /\ row[d].status = "PENDING" /\ row[d].attempts >= MaxAttempts
  /\ row[d].lock = 0

failAbandoned ==
  [d \in Deliveries |->
     IF Abandoned(d) THEN [row[d] EXCEPT !.status = "FAILED", !.lock = NoLock] ELSE row[d]]

Due(d) == Claimable(d) /\ row[d].wait = 0

-----------------------------------------------------------------------------
(* Publishing: the events of a transaction are stored before its commit,   *)
(* with one delivery per handler registered there, and dispatched after it *)
(* in the background.  A rollback is this action not happening.            *)

publish(p, b) ==
  LET stored == {d \in Ran(b) : HandlerOf(d) \in registered[p]}
  IN /\ b \notin published
     /\ published' = published \cup {b}
     /\ row' = [d \in Deliveries |->
                  IF d \in stored
                  THEN [NoRow EXCEPT !.status = "PENDING", !.wait = nextAttemptAt(0)]
                  ELSE row[d]]
     /\ dispatch' = [dispatch EXCEPT ![b] = [proc |-> p, todo |-> b]]
     /\ UNCHANGED <<job, attempt, registered, applied, faults>>

Fault == faults < MaxFaults /\ faults' = faults + 1

\* deliver: the next handler takes its pending delivery, unless the retry job has it, it is
\* settled or it is not there: an instance stores deliveries for the handlers it knows.
deliver(b) ==
  LET r == <<"dispatch", b>>
      d == Head(dispatch[b].todo)
  IN /\ attempt[r] = Idle /\ dispatch[b].todo # <<>>
     /\ dispatch' = [dispatch EXCEPT ![b].todo = Tail(@)]
     /\ IF Claimable(d)
        THEN /\ row' = [row EXCEPT ![d] = Claimed(@)]
             /\ attempt' = [attempt EXCEPT ![r] = [phase |-> "run", d |-> d, n |-> row[d].attempts + 1]]
        ELSE UNCHANGED <<row, attempt>>
     /\ UNCHANGED <<published, job, registered, applied, faults>>

\* The claim statement fails: logged, and the next handler goes on.
deliverFails(b) ==
  /\ Fault
  /\ attempt[<<"dispatch", b>>] = Idle /\ dispatch[b].todo # <<>>
  /\ dispatch' = [dispatch EXCEPT ![b].todo = Tail(@)]
  /\ UNCHANGED <<row, published, job, attempt, registered, applied>>

-----------------------------------------------------------------------------
(* The retry job (deliverDue): every minute in each instance, and skipped  *)
(* while its last run goes on (runJob).                                    *)

deliverDueStart(p) ==
  /\ job[p].phase = "due"
  /\ row' = failAbandoned
  /\ job' = [job EXCEPT ![p].phase = "claim"]
  /\ UNCHANGED <<published, dispatch, attempt, registered, applied, faults>>

claimDue(p) ==
  LET due == {d \in Deliveries : Due(d)}
  IN /\ job[p].phase = "claim"
     /\ \E S \in SUBSET due :
          /\ Cardinality(S) = IF Cardinality(due) < BatchSize THEN Cardinality(due) ELSE BatchSize
          /\ row' = [d \in Deliveries |-> IF d \in S THEN Claimed(row[d]) ELSE row[d]]
          /\ job' = [job EXCEPT ![p] =
                       [phase |-> "run", todo |-> {[d |-> d, n |-> row[d].attempts + 1] : d \in S}]]
     /\ UNCHANGED <<published, dispatch, attempt, registered, applied, faults>>

\* The next of the taken deliveries, oldest event first; one whose handler is gone fails for good.
Oldest(p, c) == c \in job[p].todo /\ \A o \in job[p].todo : EventOf(c.d) <= EventOf(o.d)

attemptNext(p) ==
  /\ job[p].phase = "run" /\ attempt[<<"job", p>>] = Idle
  /\ \E c \in job[p].todo :
       /\ Oldest(p, c)
       /\ job' = [job EXCEPT ![p].todo = @ \ {c}]
       /\ \/ /\ HandlerOf(c.d) \in registered[p]
             /\ attempt' = [attempt EXCEPT ![<<"job", p>>] = [phase |-> "run", d |-> c.d, n |-> c.n]]
             /\ row' = row
          \/ /\ HandlerOf(c.d) \notin registered[p] /\ Exists(c.d)
             /\ row' = markFailedAttempt(c.d, MaxAttempts)
             /\ attempt' = attempt
  /\ UNCHANGED <<published, dispatch, registered, applied, faults>>

\* The statements outside a try, whose failure ends the run: the first two, and failing the delivery of a
\* missing handler, which also throws when its row was deleted.
deliverDueFails(p) ==
  /\ \/ job[p].phase \in {"due", "claim"} /\ Fault
     \/ /\ job[p].phase = "run" /\ attempt[<<"job", p>>] = Idle
        /\ \E c \in job[p].todo :
             /\ Oldest(p, c) /\ HandlerOf(c.d) \notin registered[p]
             /\ Fault \/ (~Exists(c.d) /\ faults' = faults)
  /\ job' = [job EXCEPT ![p] = Resting]
  /\ UNCHANGED <<row, published, dispatch, attempt, registered, applied>>

deliverDueEnd(p) ==
  /\ job[p].phase = "run" /\ attempt[<<"job", p>>] = Idle /\ job[p].todo = {}
  /\ job' = [job EXCEPT ![p].phase = "rest"]
  /\ UNCHANGED <<row, published, dispatch, attempt, registered, applied, faults>>

-----------------------------------------------------------------------------
(* One attempt: the handler runs in transactions of its own, then its row  *)
(* is settled with another statement.                                      *)

handle(r) ==
  /\ attempt[r].phase = "run"
  /\ attempt' = [attempt EXCEPT ![r].phase = "ok"]
  /\ applied' = applied \cup {attempt[r].d}
  /\ UNCHANGED <<row, published, dispatch, job, registered, faults>>

handleThrows(r) ==
  /\ Fault
  /\ attempt[r].phase = "run"
  /\ attempt' = [attempt EXCEPT ![r].phase = "err"]
  /\ UNCHANGED <<row, published, dispatch, job, registered, applied>>

settle(r) ==
  /\ attempt[r].phase \in {"ok", "err"}
  /\ row' = IF attempt[r].phase = "ok" THEN markDelivered(attempt[r].d)
            ELSE markFailedAttempt(attempt[r].d, attempt[r].n)
  /\ attempt' = [attempt EXCEPT ![r] = Idle]
  /\ UNCHANGED <<published, dispatch, job, registered, applied, faults>>

\* The settling statement fails: logged, and the row stays held until its lease runs out.
settleFails(r) ==
  /\ Fault
  /\ attempt[r].phase \in {"ok", "err"}
  /\ attempt' = [attempt EXCEPT ![r] = Idle]
  /\ UNCHANGED <<row, published, dispatch, job, registered, applied>>

-----------------------------------------------------------------------------
(* Instances, the staff, the daily cleanup and time.                       *)

RunnersOf(p) == {<<"job", p>>} \cup {<<"dispatch", b>> : b \in {x \in Batches : dispatch[x].proc = p}}

\* The instance stops between two steps and starts again, maybe with another version of the code.
crash(p) ==
  /\ Fault
  /\ attempt' = [r \in Runners |-> IF r \in RunnersOf(p) THEN Idle ELSE attempt[r]]
  /\ dispatch' = [b \in Batches |-> IF dispatch[b].proc = p THEN [dispatch[b] EXCEPT !.todo = <<>>] ELSE dispatch[b]]
  /\ job' = [job EXCEPT ![p] = Resting]
  /\ \E H \in Deployments : registered' = [registered EXCEPT ![p] = H]
  /\ UNCHANGED <<row, published, applied>>

pendingAgain(r) == [status |-> "PENDING", attempts |-> 0, wait |-> 0, lock |-> NoLock, age |-> r.age]

\* Mutant: any settled delivery is retried.
retrySettled(d) ==
  /\ row[d].status \in {"FAILED", "DELIVERED"}
  /\ row' = [row EXCEPT ![d] = pendingAgain(@)]
  /\ UNCHANGED <<published, dispatch, job, attempt, registered, applied, faults>>

\* The staff retries one failed delivery, or all those a filter by event type or handler selects.
retry(d) ==
  /\ row[d].status = "FAILED"
  /\ row' = [row EXCEPT ![d] = pendingAgain(@)]
  /\ UNCHANGED <<published, dispatch, job, attempt, registered, applied, faults>>

retryAll(D) ==
  LET failed == {d \in D : row[d].status = "FAILED"}
  IN /\ failed # {}
     /\ row' = [d \in Deliveries |-> IF d \in failed THEN pendingAgain(row[d]) ELSE row[d]]
     /\ UNCHANGED <<published, dispatch, job, attempt, registered, applied, faults>>

\* Mutant: some delivery succeeded long ago.
ExpiredSome(e) ==
  \E d \in Deliveries : EventOf(d) = e /\ row[d].status = "DELIVERED" /\ row[d].age > Retention

\* DeliveredEventCleanup: an event goes once all its deliveries succeeded before the cutoff.
Expired(e) ==
  /\ \E d \in Deliveries : EventOf(d) = e /\ Exists(d)
  /\ \A d \in Deliveries :
       EventOf(d) = e /\ Exists(d) => row[d].status = "DELIVERED" /\ row[d].age > Retention

cleanup(e) ==
  /\ Expired(e)
  /\ row' = [d \in Deliveries |->
               IF EventOf(d) = e /\ Exists(d) THEN [NoRow EXCEPT !.status = "DELETED"] ELSE row[d]]
  /\ UNCHANGED <<published, dispatch, job, attempt, registered, applied, faults>>

Less(n) == IF n = 0 THEN 0 ELSE n - 1

\* The deliveries somebody has taken and not settled yet.
InHand == {attempt[r].d : r \in {x \in Runners : attempt[x] # Idle}}
            \cup UNION {{c.d : c \in job[p].todo} : p \in Procs}

\* A minute passes and the scheduler fires.  The two statements that open a job run use one reading of the clock.
Tick ==
  /\ Prompt => \A d \in InHand : row[d].lock # 1
  /\ \A p \in Procs : job[p].phase # "claim"
  /\ row' = [d \in Deliveries |->
       [row[d] EXCEPT
          !.wait = IF row[d].status = "PENDING" THEN Less(@) ELSE @,
          !.lock = IF @ = NoLock THEN @ ELSE Less(@),
          !.age = IF row[d].status = "DELIVERED" /\ @ <= Retention THEN @ + 1 ELSE @]]
  /\ job' = [p \in Procs |-> IF job[p].phase = "rest" THEN [job[p] EXCEPT !.phase = "due"] ELSE job[p]]
  /\ UNCHANGED <<published, dispatch, attempt, registered, applied, faults>>

Next ==
  \/ \E p \in Procs, b \in Batches : publish(p, b)
  \/ \E b \in Batches : deliver(b) \/ deliverFails(b)
  \/ \E p \in Procs : \/ deliverDueStart(p) \/ claimDue(p) \/ attemptNext(p)
                      \/ deliverDueFails(p) \/ deliverDueEnd(p) \/ crash(p)
  \/ \E r \in Runners : handle(r) \/ handleThrows(r) \/ settle(r) \/ settleFails(r)
  \/ \E d \in Deliveries : retry(d) \/ cleanup(EventOf(d))
  \/ \E D \in SUBSET Deliveries : retryAll(D)
  \/ Tick

Spec == Init /\ [][Next]_vars

\* The clock runs, the scheduler starts the job every minute in each instance, and what an instance
\* has in hand goes on.  Nothing obliges the staff, the cleanup, a publisher or a fault.
Fairness ==
  /\ WF_vars(Tick)
  /\ \A b \in Batches : WF_vars(deliver(b))
  /\ \A p \in Procs : WF_vars(deliverDueStart(p) \/ claimDue(p) \/ attemptNext(p) \/ deliverDueEnd(p))
  /\ \A r \in Runners : WF_vars(handle(r) \/ handleThrows(r)) /\ WF_vars(settle(r) \/ settleFails(r))

FairSpec == Spec /\ Fairness

-----------------------------------------------------------------------------
(* Properties.                                                             *)

\* A delivery is marked delivered, and its event deleted by the cleanup, only after its handler finished:
\* no effect of a committed change is given up as done when it was not.
NothingLost == \A d \in Deliveries : row[d].status \in {"DELIVERED", "DELETED"} => d \in applied

\* While attempts keep to their lease, a delivery is in the hands of one runner at a time: the background
\* dispatch and the retry jobs of all instances never run one handler twice at once for an event.
OneTaker ==
  /\ \A r, s \in Runners :
       r # s /\ attempt[r] # Idle /\ attempt[s] # Idle => attempt[r].d # attempt[s].d
  /\ \A r \in Runners, p \in Procs : \A c \in job[p].todo :
       attempt[r] # Idle => attempt[r].d # c.d
  /\ \A p, q \in Procs : \A c \in job[p].todo, e \in job[q].todo :
       c.d = e.d => p = q /\ c = e

\* A delivered delivery is never attempted into another state: only the cleanup takes it away.
DeliveredIsFinal ==
  [][\A d \in Deliveries : row[d].status = "DELIVERED" => row'[d].status \in {"DELIVERED", "DELETED"}]_vars

\* A delivery is given up only after its last attempt, or because its handler is gone: what the staff
\* sends back to PENDING gets all its attempts again.
GivesUpLate ==
  [][\A d \in Deliveries :
       row[d].status = "PENDING" /\ row'[d].status = "FAILED" =>
         \/ row[d].attempts = MaxAttempts
         \/ \E p \in Procs : HandlerOf(d) \notin registered[p]]_vars

\* A pending delivery without attempts left is held until some moment or in the hands of a runner, so
\* the job can fail it when its last attempt never finished (failAbandoned).
LastAttemptEnds ==
  \A d \in Deliveries :
    row[d].status = "PENDING" /\ row[d].attempts = MaxAttempts => row[d].lock # NoLock \/ d \in InHand

\* Every stored delivery is delivered or handed to the staff, whatever crashes in between.
EventuallySettled ==
  \A d \in Deliveries : row[d].status = "PENDING" ~> row[d].status \in {"DELIVERED", "FAILED"}

\* The effect of a stored event always happens, unless faults used up its attempts or an instance lacked its handler.
EventuallyApplied ==
  \A d \in Deliveries :
    row[d].status = "PENDING" ~>
      d \in applied \/ faults >= MaxAttempts \/ \E p \in Procs : HandlerOf(d) \notin registered[p]

\* A stored delivery is settled, never given up before its last attempt, and its effect happens unless the faults used
\* up its attempts (deliverDue, failAbandoned).
DeliveriesSettle == EventuallySettled /\ EventuallyApplied /\ GivesUpLate
=============================================================================
