---------------------------- MODULE PlatformProofs ---------------------------
(* What the platform promises, for any number of instances, requests, jobs   *)
(* and faults. The outbox loses nothing, and while attempts keep to their    *)
(* lease a delivery has one taker; keys are honest, jobs hold, transactions  *)
(* tell all of their events; an API that runs was accepted with the          *)
(* environment it runs in; and the listings of the API miss and repeat       *)
(* nothing, and do not tell whose a blocked row is. Transactions wait for    *)
(* each other in known circles only; no failed attempt passes the limit and  *)
(* none is refused below it; a handler runs for whom its route is declared;  *)
(* and an error is answered as the catalog of problems says, time after time.*)
EXTENDS MCPlatform, Listings, Folding, SequenceTheorems

------------------------------------------------------------------------------
(* The outbox.                                                              *)

\* What nextAttemptAt answers while attempts are left is a number of minutes.
LEMMA DelayType ==
  ASSUME NEW n \in 0..(MaxAttempts - 1)
  PROVE  nextAttemptAt(n) \in Nat \ {0}
  BY OutboxAssumption DEF nextAttemptAt

\* A claimed row is a row.
LEMMA ClaimedType ==
  ASSUME NEW r \in Rows, MaxAttempts \in Nat, Lease \in Nat, r.attempts + 1 \in 0..MaxAttempts
  PROVE  Claimed(r) \in Rows
  BY DEF Rows, Claimed

\* Changing the three clocks of a row leaves a row.
LEMMA ClockTypes ==
  ASSUME NEW r \in Rows, NEW w \in Nat, NEW l \in Nat \cup {NoLock}, NEW g \in Nat
  PROVE  [r EXCEPT !.wait = w, !.lock = l, !.age = g] \in Rows
  BY DEF Rows, NoLock

\* What the operations write into a row is a row.
LEMMA RowTypes ==
  ASSUME TypeOK, NEW d \in Deliveries
  PROVE  /\ NoRow \in Rows
         /\ [NoRow EXCEPT !.status = "PENDING", !.wait = nextAttemptAt(0)] \in Rows
         /\ [NoRow EXCEPT !.status = "DELETED"] \in Rows
         /\ row[d] \in Rows
         /\ Claimable(d) => Claimed(row[d]) \in Rows /\ row[d].attempts + 1 \in 1..MaxAttempts
         /\ pendingAgain(row[d]) \in Rows
         /\ [row[d] EXCEPT !.status = "FAILED", !.lock = NoLock] \in Rows
<1>1. /\ nextAttemptAt(0) \in Nat
      /\ Lease \in Nat /\ MaxAttempts \in Nat \ {0}
  BY OutboxAssumption, DelayType
<1>2. row[d] \in Rows
  BY DEF TypeOK
<1>3. NoRow \in Rows
  BY <1>1 DEF Rows, NoRow, NoLock
<1>4. [NoRow EXCEPT !.status = "PENDING", !.wait = nextAttemptAt(0)] \in Rows
  BY <1>1, <1>3 DEF Rows
<1>5. [NoRow EXCEPT !.status = "DELETED"] \in Rows
  BY <1>3 DEF Rows
<1>6. ASSUME Claimable(d) PROVE Claimed(row[d]) \in Rows /\ row[d].attempts + 1 \in 1..MaxAttempts
  BY <1>1, <1>2, <1>6, ClaimedType DEF Rows, Claimable
<1>7. pendingAgain(row[d]) \in Rows
  BY <1>1, <1>2 DEF Rows, NoLock, pendingAgain
<1>8. [row[d] EXCEPT !.status = "FAILED", !.lock = NoLock] \in Rows
  BY <1>2 DEF Rows, NoLock
<1> QED
  BY <1>2, <1>3, <1>4, <1>5, <1>6, <1>7, <1>8

\* Settling a row leaves a table of rows.
LEMMA SettleTypes ==
  ASSUME TypeOK, NEW d \in Deliveries, NEW n \in 1..MaxAttempts
  PROVE  /\ markDelivered(d) \in [Deliveries -> Rows]
         /\ markFailedAttempt(d, n) \in [Deliveries -> Rows]
<1>1. MaxAttempts \in Nat \ {0} /\ (n < MaxAttempts => nextAttemptAt(n) \in Nat)
  BY OutboxAssumption, DelayType
<1>2. row \in [Deliveries -> Rows]
  BY DEF TypeOK
<1>3. markDelivered(d) \in [Deliveries -> Rows]
  <2>1. [row[d] EXCEPT !.status = "DELIVERED", !.lock = NoLock, !.age = 0] \in Rows
    BY <1>2 DEF Rows, NoLock
  <2> QED
    BY <1>2, <2>1 DEF markDelivered
<1>4. markFailedAttempt(d, n) \in [Deliveries -> Rows]
  <2>1. [row[d] EXCEPT !.status = "FAILED", !.lock = NoLock] \in Rows
    BY <1>2 DEF Rows, NoLock
  <2>2. n < MaxAttempts => [row[d] EXCEPT !.wait = nextAttemptAt(n), !.lock = NoLock] \in Rows
    BY <1>1, <1>2 DEF Rows, NoLock
  <2> QED
    BY <1>1, <1>2, <2>1, <2>2 DEF markFailedAttempt
<1> QED
  BY <1>3, <1>4

\* A runner that is not idle has a delivery and an attempt number in hand.
LEMMA InHandType ==
  ASSUME TypeOK, NEW r \in Runners, attempt[r].phase \in {"run", "ok", "err"}
  PROVE  attempt[r] \in Attempts /\ attempt[r].d \in Deliveries /\ attempt[r].n \in 1..MaxAttempts
  BY DEF TypeOK, Attempts, Idle

\* The dispatches and the jobs are the runners.
LEMMA RunnersOK ==
  /\ \A b \in Batches : <<"dispatch", b>> \in Runners
  /\ \A p \in Procs : <<"job", p>> \in Runners
  BY DEF Runners

\* The type invariant holds initially.
LEMMA InitType == Init => TypeOK
<1> SUFFICES ASSUME Init PROVE TypeOK
  OBVIOUS
<1>1. NoRow \in Rows
  BY OutboxAssumption DEF NoRow, Rows, NoLock
<1>2. registered \in [Procs -> SUBSET Handlers]
  BY OutboxAssumption DEF Init
<1>3. dispatch \in [Batches -> [proc : Procs, todo : Seq(Deliveries)]]
  <2>1. {<<>>} \subseteq Seq(Deliveries)
    OBVIOUS
  <2> QED
    BY <2>1 DEF Init
<1>4. job \in [Procs -> [phase : {"rest", "due", "claim", "run"}, todo : SUBSET Claims]]
  BY DEF Init, Resting
<1>5. row \in [Deliveries -> Rows]
  BY <1>1 DEF Init
<1>6. attempt \in [Runners -> {Idle} \cup Attempts]
  BY DEF Init
<1>7. published \subseteq Batches /\ applied \subseteq Deliveries /\ faults \in 0..MaxFaults
  BY OutboxAssumption DEF Init
<1> QED
  BY <1>2, <1>3, <1>4, <1>5, <1>6, <1>7 DEF TypeOK

\* Every step keeps the types.
LEMMA StepType == TypeOK /\ [Next]_vars => TypeOK'
<1> SUFFICES ASSUME TypeOK, [Next]_vars PROVE TypeOK'
  OBVIOUS
<1>1. ASSUME NEW p \in Procs, NEW b \in Batches, publish(p, b) PROVE TypeOK'
  <2>1. row' \in [Deliveries -> Rows]
    BY <1>1, RowTypes DEF publish, TypeOK
  <2>2. b \in Seq(Deliveries)
    BY OutboxAssumption DEF Deliveries, Ran
  <2>3. dispatch' \in [Batches -> [proc : Procs, todo : Seq(Deliveries)]]
    BY <1>1, <2>2 DEF publish, TypeOK
  <2> QED
    BY <1>1, <2>1, <2>3 DEF publish, TypeOK
<1>2. ASSUME NEW b \in Batches, deliver(b) \/ deliverFails(b) PROVE TypeOK'
  <2>1. dispatch[b].todo \in Seq(Deliveries) /\ dispatch[b].todo # <<>>
    BY <1>2 DEF deliver, deliverFails, TypeOK
  <2>2. Head(dispatch[b].todo) \in Deliveries /\ Tail(dispatch[b].todo) \in Seq(Deliveries)
    BY <2>1
  <2>3. dispatch' \in [Batches -> [proc : Procs, todo : Seq(Deliveries)]]
    BY <1>2, <2>2 DEF deliver, deliverFails, TypeOK
  <2>4. row' \in [Deliveries -> Rows]
    BY <1>2, <2>2, RowTypes DEF deliver, deliverFails, TypeOK
  <2>5. attempt' \in [Runners -> {Idle} \cup Attempts]
    <3>1. CASE attempt' = attempt
      BY <3>1 DEF TypeOK
    <3>2. CASE attempt' # attempt
      <4> DEFINE d == Head(dispatch[b].todo)
      <4>1. attempt' = [attempt EXCEPT ![<<"dispatch", b>>] = [phase |-> "run", d |-> d, n |-> row[d].attempts + 1]]
            /\ Claimable(d)
        BY <1>2, <3>2 DEF deliver, deliverFails
      <4>2. [phase |-> "run", d |-> d, n |-> row[d].attempts + 1] \in Attempts
        BY <2>2, <4>1, RowTypes DEF Attempts
      <4> QED
        BY <4>1, <4>2 DEF TypeOK
    <3> QED
      BY <3>1, <3>2
  <2>6. faults' \in 0..MaxFaults
    BY <1>2, OutboxAssumption DEF deliver, deliverFails, TypeOK, Fault
  <2> QED
    BY <1>2, <2>3, <2>4, <2>5, <2>6 DEF deliver, deliverFails, TypeOK
<1>3. ASSUME NEW p \in Procs, deliverDueStart(p) PROVE TypeOK'
  BY <1>3, RowTypes DEF deliverDueStart, failAbandoned, TypeOK
<1>4. ASSUME NEW p \in Procs, claimDue(p) PROVE TypeOK'
  <2>1. PICK S \in SUBSET {d \in Deliveries : Due(d)} :
          /\ row' = [d \in Deliveries |-> IF d \in S THEN Claimed(row[d]) ELSE row[d]]
          /\ job' = [job EXCEPT ![p] =
                       [phase |-> "run", todo |-> {[d |-> d, n |-> row[d].attempts + 1] : d \in S}]]
    BY <1>4 DEF claimDue
  <2>2. \A d \in S : d \in Deliveries /\ Claimable(d)
    BY <2>1 DEF Due
  <2>3. row' \in [Deliveries -> Rows]
    BY <2>1, <2>2, RowTypes
  <2>4. {[d |-> d, n |-> row[d].attempts + 1] : d \in S} \in SUBSET Claims
    <3>1. ASSUME NEW d \in S PROVE [d |-> d, n |-> row[d].attempts + 1] \in Claims
      BY <2>2, RowTypes DEF Claims
    <3> QED
      BY <3>1
  <2>5. job' \in [Procs -> [phase : {"rest", "due", "claim", "run"}, todo : SUBSET Claims]]
    BY <2>1, <2>4 DEF TypeOK
  <2> QED
    BY <1>4, <2>3, <2>5 DEF claimDue, TypeOK
<1>5. ASSUME NEW p \in Procs, attemptNext(p) PROVE TypeOK'
  <2>1. PICK c \in job[p].todo :
          /\ job' = [job EXCEPT ![p].todo = @ \ {c}]
          /\ \/ /\ attempt' = [attempt EXCEPT ![<<"job", p>>] = [phase |-> "run", d |-> c.d, n |-> c.n]]
                /\ row' = row
             \/ row' = markFailedAttempt(c.d, MaxAttempts) /\ attempt' = attempt
    BY <1>5 DEF attemptNext
  <2>2. c \in Claims /\ c.d \in Deliveries /\ c.n \in 1..MaxAttempts
    BY <2>1 DEF TypeOK, Claims
  <2>3. row' \in [Deliveries -> Rows]
    <3>1. MaxAttempts \in 1..MaxAttempts
      BY OutboxAssumption
    <3> QED
      BY <2>1, <2>2, <3>1, SettleTypes DEF TypeOK
  <2>4. attempt' \in [Runners -> {Idle} \cup Attempts]
    <3>1. [phase |-> "run", d |-> c.d, n |-> c.n] \in Attempts
      BY <2>2 DEF Attempts
    <3> QED
      BY <2>1, <3>1 DEF TypeOK
  <2>5. job' \in [Procs -> [phase : {"rest", "due", "claim", "run"}, todo : SUBSET Claims]]
    BY <2>1 DEF TypeOK
  <2> QED
    BY <1>5, <2>3, <2>4, <2>5 DEF attemptNext, TypeOK
<1>6. ASSUME NEW p \in Procs, deliverDueFails(p) \/ deliverDueEnd(p) PROVE TypeOK'
  <2>1. faults' \in 0..MaxFaults
    BY <1>6, OutboxAssumption DEF deliverDueFails, deliverDueEnd, Fault, TypeOK
  <2>2. job' \in [Procs -> [phase : {"rest", "due", "claim", "run"}, todo : SUBSET Claims]]
    BY <1>6 DEF deliverDueFails, deliverDueEnd, TypeOK, Resting
  <2> QED
    BY <1>6, <2>1, <2>2 DEF deliverDueFails, deliverDueEnd, TypeOK
<1>7. ASSUME NEW p \in Procs, crash(p) PROVE TypeOK'
  <2>1. attempt' \in [Runners -> {Idle} \cup Attempts]
    BY <1>7 DEF crash, TypeOK
  <2>2. dispatch' \in [Batches -> [proc : Procs, todo : Seq(Deliveries)]]
    <3>1. ASSUME NEW b \in Batches PROVE [dispatch[b] EXCEPT !.todo = <<>>] \in [proc : Procs, todo : Seq(Deliveries)]
      <4>1. <<>> \in Seq(Deliveries)
        OBVIOUS
      <4> QED
        BY <4>1 DEF TypeOK
    <3> QED
      BY <1>7, <3>1 DEF crash, TypeOK
  <2>3. job' \in [Procs -> [phase : {"rest", "due", "claim", "run"}, todo : SUBSET Claims]]
    BY <1>7 DEF crash, TypeOK, Resting
  <2>4. registered' \in [Procs -> SUBSET Handlers]
    BY <1>7, OutboxAssumption DEF crash, TypeOK
  <2>5. faults' \in 0..MaxFaults
    BY <1>7, OutboxAssumption DEF crash, Fault, TypeOK
  <2> QED
    BY <1>7, <2>1, <2>2, <2>3, <2>4, <2>5 DEF crash, TypeOK
<1>8. ASSUME NEW r \in Runners, handle(r) \/ handleThrows(r) PROVE TypeOK'
  <2>1. attempt[r] \in Attempts /\ attempt[r].d \in Deliveries
    BY <1>8, InHandType DEF handle, handleThrows
  <2>2. attempt' \in [Runners -> {Idle} \cup Attempts]
    BY <2>1, <1>8 DEF Attempts, handle, handleThrows, TypeOK
  <2>3. faults' \in 0..MaxFaults
    BY <1>8, OutboxAssumption DEF handle, handleThrows, Fault, TypeOK
  <2> QED
    BY <1>8, <2>1, <2>2, <2>3 DEF handle, handleThrows, TypeOK
<1>9. ASSUME NEW r \in Runners, settle(r) \/ settleFails(r) PROVE TypeOK'
  <2>1. attempt[r].d \in Deliveries /\ attempt[r].n \in 1..MaxAttempts
    BY <1>9, InHandType DEF settle, settleFails
  <2>2. row' \in [Deliveries -> Rows]
    BY <1>9, <2>1, SettleTypes DEF settle, settleFails, TypeOK
  <2>3. attempt' \in [Runners -> {Idle} \cup Attempts]
    BY <1>9 DEF settle, settleFails, TypeOK
  <2>4. faults' \in 0..MaxFaults
    BY <1>9, OutboxAssumption DEF settle, settleFails, Fault, TypeOK
  <2> QED
    BY <1>9, <2>2, <2>3, <2>4 DEF settle, settleFails, TypeOK
<1>10. ASSUME NEW d \in Deliveries, retry(d) \/ cleanup(EventOf(d)) PROVE TypeOK'
  BY <1>10, RowTypes DEF retry, cleanup, TypeOK
<1>11. ASSUME NEW D \in SUBSET Deliveries, retryAll(D) PROVE TypeOK'
  BY <1>11, RowTypes DEF retryAll, TypeOK
<1>12. CASE Tick
  <2>1. ASSUME NEW d \in Deliveries PROVE row'[d] \in Rows
    <3>1. row[d] \in Rows
      BY DEF TypeOK
    <3> DEFINE w == IF row[d].status = "PENDING" THEN Less(row[d].wait) ELSE row[d].wait
               l == IF row[d].lock = NoLock THEN row[d].lock ELSE Less(row[d].lock)
               g == IF row[d].status = "DELIVERED" /\ row[d].age <= Retention THEN row[d].age + 1 ELSE row[d].age
    <3>2. row'[d] = [row[d] EXCEPT !.wait = w, !.lock = l, !.age = g]
      BY <1>12 DEF Tick
    <3>3. w \in Nat /\ l \in Nat \cup {NoLock} /\ g \in Nat
      BY <3>1 DEF Rows, Less, NoLock
    <3> HIDE DEF w, l, g
    <3> QED
      <4>1. [row[d] EXCEPT !.wait = w, !.lock = l, !.age = g] \in Rows
        BY <3>1, <3>3, ClockTypes
      <4> QED
        BY <3>2, <4>1
  <2>2. row' \in [Deliveries -> Rows]
    BY <1>12, <2>1 DEF Tick
  <2>3. job' \in [Procs -> [phase : {"rest", "due", "claim", "run"}, todo : SUBSET Claims]]
    BY <1>12 DEF Tick, TypeOK
  <2> QED
    BY <1>12, <2>2, <2>3 DEF Tick, TypeOK
<1>13. CASE UNCHANGED vars
  BY <1>13 DEF vars, TypeOK
<1> QED
  BY <1>1, <1>2, <1>3, <1>4, <1>5, <1>6, <1>7, <1>8, <1>9, <1>10, <1>11, <1>12, <1>13 DEF Next

\* The outbox keeps its types: attempts never exceed MAX_DELIVERY_ATTEMPTS, a wait or a lease is never
\* negative, and what a runner has in hand is a stored delivery with an attempt number in range.
THEOREM TypeCorrect == Spec => []TypeOK
  BY InitType, StepType, PTL DEF Spec

-----------------------------------------------------------------------------
(* Nothing is lost.                                                        *)

\* An attempt that ended well has applied its delivery.
RanToEnd == \A r \in Runners : attempt[r].phase = "ok" => attempt[r].d \in applied

NothingLostInv == TypeOK /\ NothingLost /\ RanToEnd

\* The fields that the operations on a row leave.
LEMMA RowFields ==
  ASSUME NEW r \in Rows
  PROVE  /\ Claimed(r).status = r.status /\ Claimed(r).attempts = r.attempts + 1 /\ Claimed(r).lock = Lease
         /\ pendingAgain(r).status = "PENDING" /\ pendingAgain(r).attempts = 0 /\ pendingAgain(r).lock = NoLock
  BY DEF Rows, Claimed, pendingAgain

\* A minute changes only the clocks of a row.
LEMMA TickFields ==
  ASSUME Tick, NEW d \in Deliveries, row[d] \in Rows
  PROVE  /\ row'[d].status = row[d].status /\ row'[d].attempts = row[d].attempts
         /\ row[d].lock = NoLock => row'[d].lock = NoLock
         /\ row[d].lock # NoLock => row'[d].lock = Less(row[d].lock)
<1> DEFINE w == IF row[d].status = "PENDING" THEN Less(row[d].wait) ELSE row[d].wait
           l == IF row[d].lock = NoLock THEN row[d].lock ELSE Less(row[d].lock)
           g == IF row[d].status = "DELIVERED" /\ row[d].age <= Retention THEN row[d].age + 1 ELSE row[d].age
<1>1. row'[d] = [row[d] EXCEPT !.wait = w, !.lock = l, !.age = g]
  BY DEF Tick
<1>2. row[d].lock = NoLock => l = NoLock
  OBVIOUS
<1>3. row[d].lock # NoLock => l = Less(row[d].lock)
  OBVIOUS
<1> HIDE DEF w, l, g
<1> QED
  BY <1>1, <1>2, <1>3 DEF Rows

\* Settling touches no other row.
LEMMA SettleFields ==
  ASSUME TypeOK, NEW d \in Deliveries, NEW n \in 1..MaxAttempts, NEW e \in Deliveries
  PROVE  /\ e # d => markDelivered(d)[e] = row[e] /\ markFailedAttempt(d, n)[e] = row[e]
         /\ ~Exists(d) => markDelivered(d) = row /\ markFailedAttempt(d, n) = row
         /\ Exists(d) => /\ markDelivered(d)[d].status = "DELIVERED"
                         /\ markFailedAttempt(d, n)[d].attempts = row[d].attempts
                         /\ markFailedAttempt(d, n)[d].status = IF n >= MaxAttempts THEN "FAILED" ELSE row[d].status
<1>1. row \in [Deliveries -> Rows]
  BY DEF TypeOK
<1>2. e # d => markDelivered(d)[e] = row[e] /\ markFailedAttempt(d, n)[e] = row[e]
  BY <1>1 DEF markDelivered, markFailedAttempt
<1>3. ~Exists(d) => markDelivered(d) = row /\ markFailedAttempt(d, n) = row
  BY DEF markDelivered, markFailedAttempt
<1>4. ASSUME Exists(d) PROVE markDelivered(d)[d].status = "DELIVERED"
  BY <1>1, <1>4 DEF markDelivered, Rows
<1>5. ASSUME Exists(d), n >= MaxAttempts
      PROVE  markFailedAttempt(d, n)[d].status = "FAILED" /\ markFailedAttempt(d, n)[d].attempts = row[d].attempts
  BY <1>1, <1>5 DEF markFailedAttempt, Rows
<1>6. ASSUME Exists(d), ~(n >= MaxAttempts)
      PROVE  markFailedAttempt(d, n)[d].status = row[d].status /\ markFailedAttempt(d, n)[d].attempts = row[d].attempts
  BY <1>1, <1>6 DEF markFailedAttempt, Rows
<1> QED
  BY <1>2, <1>3, <1>4, <1>5, <1>6

\* A step that leaves every row as it was, or pending, failed or fresh, loses nothing.
LEMMA KeepsNothingLost ==
  ASSUME NothingLost, applied \subseteq applied',
         \A d \in Deliveries : row'[d].status = row[d].status \/ row'[d].status \in {"PENDING", "FAILED", "NONE"}
  PROVE  NothingLost'
  BY DEF NothingLost

\* A step that ends no attempt well keeps those that did.
LEMMA KeepsRanToEnd ==
  ASSUME RanToEnd, applied \subseteq applied',
         \A r \in Runners : attempt'[r] = attempt[r] \/ attempt'[r].phase # "ok"
  PROVE  RanToEnd'
  BY DEF RanToEnd

\* No step loses a delivery.
LEMMA NothingLostStep == NothingLostInv /\ [Next]_vars => NothingLostInv'
<1> SUFFICES ASSUME TypeOK, NothingLost, RanToEnd, [Next]_vars PROVE NothingLost' /\ RanToEnd'
  BY StepType DEF NothingLostInv
<1>0. \A d \in Deliveries : row[d] \in Rows
  BY DEF TypeOK
<1>1. ASSUME NEW p \in Procs, NEW b \in Batches, publish(p, b) PROVE NothingLost' /\ RanToEnd'
  BY <1>1, KeepsNothingLost DEF publish, NoRow, RanToEnd
<1>2. ASSUME NEW b \in Batches, deliver(b) \/ deliverFails(b) PROVE NothingLost' /\ RanToEnd'
  <2>1. dispatch[b].todo \in Seq(Deliveries) /\ dispatch[b].todo # <<>>
    BY <1>2 DEF deliver, deliverFails, TypeOK
  <2>2. Head(dispatch[b].todo) \in Deliveries
    BY <2>1
  <2>3. \A d \in Deliveries : row'[d].status = row[d].status
    <3>1. row' = row \/ row' = [row EXCEPT ![Head(dispatch[b].todo)] = Claimed(@)]
      BY <1>2 DEF deliver, deliverFails
    <3> QED
      BY <1>0, <2>2, <3>1, RowFields DEF TypeOK
  <2>4. NothingLost'
    BY <1>2, <2>3, KeepsNothingLost DEF deliver, deliverFails
  <2>5. RanToEnd'
    <3> DEFINE a == [phase |-> "run", d |-> Head(dispatch[b].todo), n |-> row[Head(dispatch[b].todo)].attempts + 1]
    <3>1. attempt' = attempt \/ attempt' = [attempt EXCEPT ![<<"dispatch", b>>] = a]
      BY <1>2 DEF deliver, deliverFails
    <3>2. a.phase # "ok"
      OBVIOUS
    <3> HIDE DEF a
    <3>3. \A r \in Runners : attempt'[r] = attempt[r] \/ attempt'[r].phase # "ok"
      BY <3>1, <3>2 DEF TypeOK
    <3> QED
      BY <1>2, <3>3, KeepsRanToEnd DEF deliver, deliverFails
  <2> QED
    BY <2>4, <2>5
<1>3. ASSUME NEW p \in Procs, deliverDueStart(p) PROVE NothingLost' /\ RanToEnd'
  BY <1>0, <1>3, KeepsNothingLost DEF deliverDueStart, failAbandoned, Rows, RanToEnd
<1>4. ASSUME NEW p \in Procs, claimDue(p) PROVE NothingLost' /\ RanToEnd'
  BY <1>0, <1>4, RowFields, KeepsNothingLost DEF claimDue, RanToEnd
<1>5. ASSUME NEW p \in Procs, attemptNext(p) PROVE NothingLost' /\ RanToEnd'
  <2>1. PICK c \in job[p].todo :
          \/ /\ attempt' = [attempt EXCEPT ![<<"job", p>>] = [phase |-> "run", d |-> c.d, n |-> c.n]]
             /\ row' = row
          \/ row' = markFailedAttempt(c.d, MaxAttempts) /\ Exists(c.d) /\ attempt' = attempt
    BY <1>5 DEF attemptNext
  <2>2. c.d \in Deliveries /\ MaxAttempts \in 1..MaxAttempts /\ MaxAttempts >= MaxAttempts
    BY <2>1, OutboxAssumption DEF TypeOK, Claims
  <2>3. \A e \in Deliveries : row'[e].status = row[e].status \/ row'[e].status = "FAILED"
    BY <2>1, <2>2, SettleFields
  <2>4. NothingLost'
    BY <1>5, <2>3, KeepsNothingLost DEF attemptNext
  <2>5. RanToEnd'
    <3> DEFINE a == [phase |-> "run", d |-> c.d, n |-> c.n]
    <3>1. attempt' = attempt \/ attempt' = [attempt EXCEPT ![<<"job", p>>] = a]
      BY <2>1
    <3>2. a.phase # "ok"
      OBVIOUS
    <3> HIDE DEF a
    <3>3. \A r \in Runners : attempt'[r] = attempt[r] \/ attempt'[r].phase # "ok"
      BY <3>1, <3>2 DEF TypeOK
    <3> QED
      BY <1>5, <3>3, KeepsRanToEnd DEF attemptNext
  <2> QED
    BY <2>4, <2>5
<1>6. ASSUME NEW p \in Procs, deliverDueFails(p) \/ deliverDueEnd(p) PROVE NothingLost' /\ RanToEnd'
  BY <1>6 DEF deliverDueFails, deliverDueEnd, NothingLost, RanToEnd
<1>7. ASSUME NEW p \in Procs, crash(p) PROVE NothingLost' /\ RanToEnd'
  BY <1>7 DEF crash, NothingLost, RanToEnd, Idle
<1>8. ASSUME NEW r \in Runners, handle(r) \/ handleThrows(r) PROVE NothingLost' /\ RanToEnd'
  <2>1. attempt[r] \in Attempts
    BY <1>8, InHandType DEF handle, handleThrows
  <2>2. RanToEnd'
    BY <1>8, <2>1 DEF handle, handleThrows, RanToEnd, TypeOK, Attempts
  <2> QED
    BY <1>8, <2>2 DEF handle, handleThrows, NothingLost
<1>9. ASSUME NEW r \in Runners, settle(r) \/ settleFails(r) PROVE NothingLost' /\ RanToEnd'
  <2>1. attempt[r].d \in Deliveries /\ attempt[r].n \in 1..MaxAttempts
    BY <1>9, InHandType DEF settle, settleFails
  <2>2. RanToEnd'
    BY <1>9, KeepsRanToEnd DEF settle, settleFails, Idle, TypeOK
  <2>3. CASE settleFails(r) \/ attempt[r].phase = "err"
    BY <1>9, <2>3, <2>1, SettleFields, <2>2, KeepsNothingLost DEF settle, settleFails
  <2>4. CASE settle(r) /\ attempt[r].phase = "ok"
    BY <2>4, <2>1, SettleFields, <2>2 DEF settle, RanToEnd, NothingLost
  <2> QED
    BY <1>9, <2>3, <2>4 DEF settle
<1>10. ASSUME NEW d \in Deliveries, retry(d) PROVE NothingLost' /\ RanToEnd'
  BY <1>0, <1>10, RowFields, KeepsNothingLost DEF retry, TypeOK, RanToEnd
<1>11. ASSUME NEW e, cleanup(e) PROVE NothingLost' /\ RanToEnd'
  BY <1>11 DEF cleanup, Expired, NoRow, NothingLost, RanToEnd
<1>12. ASSUME NEW D \in SUBSET Deliveries, retryAll(D) PROVE NothingLost' /\ RanToEnd'
  BY <1>0, <1>12, RowFields, KeepsNothingLost DEF retryAll, RanToEnd
<1>13. CASE Tick
  BY <1>0, <1>13, TickFields, KeepsNothingLost DEF Tick, RanToEnd
<1>14. CASE UNCHANGED vars
  BY <1>14 DEF vars, NothingLost, RanToEnd
<1> QED
  BY <1>1, <1>2, <1>3, <1>4, <1>5, <1>6, <1>7, <1>8, <1>9, <1>10, <1>11, <1>12, <1>13, <1>14 DEF Next

\* No delivery is marked delivered, nor its event cleaned up, before its handler has finished: across any
\* interleaving of dispatch, jobs, staff, crashes and failures, also when attempts outlive their lease.
THEOREM OutboxLosesNothing == Spec => []NothingLost
<1>1. Init => NothingLostInv
  BY InitType DEF Init, NothingLost, RanToEnd, NoRow, Idle, NothingLostInv
<1>2. NothingLostInv => NothingLost
  BY DEF NothingLostInv
<1> QED
  BY <1>1, <1>2, NothingLostStep, PTL DEF Spec

-----------------------------------------------------------------------------
(* While attempts keep to their lease.  Nothing in the code enforces it, so *)
(* Prompt is an assumption of what follows; without it these properties     *)
(* fail.                                                                    *)

\* A delivery taken with its attempt number n stays as the claim left it, under a running lease.
Holding(d, n) == row[d].status = "PENDING" /\ row[d].lock \in Nat \ {0} /\ row[d].attempts = n

AttemptsHold == \A r \in Runners : attempt[r] # Idle => Holding(attempt[r].d, attempt[r].n)
TodoHolds == \A p \in Procs : \A c \in job[p].todo : Holding(c.d, c.n)
TodoOnlyRunning == \A p \in Procs : job[p].phase # "run" => job[p].todo = {}
NoneBefore == \A b \in Batches \ published : \A d \in Ran(b) : row[d].status = "NONE"
FreeHasAttempts ==
  \A d \in Deliveries : row[d].status = "PENDING" /\ row[d].lock = NoLock => row[d].attempts < MaxAttempts

LeaseInv ==
  /\ TypeOK /\ AttemptsHold /\ TodoHolds /\ OneTaker
  /\ TodoOnlyRunning /\ NoneBefore /\ FreeHasAttempts

\* What a runner or a job holds is a delivery and one of its attempts.
LEMMA HandTypes ==
  ASSUME TypeOK
  PROVE  /\ \A r \in Runners : attempt[r] # Idle =>
              attempt[r] \in Attempts /\ attempt[r].d \in Deliveries /\ attempt[r].n \in 1..MaxAttempts
         /\ \A p \in Procs : \A c \in job[p].todo : c \in Claims /\ c.d \in Deliveries /\ c.n \in 1..MaxAttempts
  BY DEF TypeOK, Attempts, Claims

\* Nobody takes more than it had.
FewerHands ==
  /\ \A r \in Runners : attempt'[r] # Idle =>
       attempt[r] # Idle /\ attempt'[r].d = attempt[r].d /\ attempt'[r].n = attempt[r].n
  /\ \A p \in Procs : job'[p].todo \subseteq job[p].todo

\* Letting go of deliveries leaves at most one taker of each.
LEMMA FewerHandsOneTaker == ASSUME OneTaker, FewerHands PROVE OneTaker'
<1>1. \A r, s \in Runners :
        r # s /\ attempt'[r] # Idle /\ attempt'[s] # Idle => attempt'[r].d # attempt'[s].d
  BY DEF OneTaker, FewerHands
<1>2. \A r \in Runners, p \in Procs : \A c \in job'[p].todo :
        attempt'[r] # Idle => attempt'[r].d # c.d
  BY DEF OneTaker, FewerHands
<1>3. \A p, q \in Procs : \A c \in job'[p].todo, e \in job'[q].todo :
        c.d = e.d => p = q /\ c = e
  BY DEF OneTaker, FewerHands
<1> QED
  BY <1>1, <1>2, <1>3 DEF OneTaker

\* Letting go of deliveries keeps what is known of the ones still held.
LEMMA FewerHandsHold ==
  ASSUME TypeOK, AttemptsHold, TodoHolds, FewerHands,
         \A d \in Deliveries : \A n \in 1..MaxAttempts : Holding(d, n) => Holding(d, n)'
  PROVE  AttemptsHold' /\ TodoHolds'
  BY HandTypes DEF AttemptsHold, TodoHolds, FewerHands

\* A row left as it was is held as it was.
LEMMA SameRowHolds ==
  ASSUME NEW d, NEW n, row'[d] = row[d], Holding(d, n)
  PROVE  Holding(d, n)'
  BY DEF Holding

\* A claimed row is held by whoever claimed it, with the attempt it counts; it was held by nobody.
LEMMA ClaimHolds ==
  ASSUME TypeOK, NEW d \in Deliveries, Claimable(d), row'[d] = Claimed(row[d])
  PROVE  /\ \A n : n = row[d].attempts + 1 => Holding(d, n)'
         /\ \A n : ~Holding(d, n)
<1>1. row[d] \in Rows /\ Lease \in Nat \ {0}
  BY OutboxAssumption DEF TypeOK
<1>2. \A n : n = row[d].attempts + 1 => Holding(d, n)'
  BY <1>1, RowFields DEF Holding, Claimable
<1>3. \A n : ~Holding(d, n)
  BY DEF Holding, Claimable, Unlocked, NoLock
<1> QED
  BY <1>2, <1>3

\* A runner that takes a delivery nobody holds is its only taker.
LEMMA TakenByOne ==
  ASSUME TypeOK, AttemptsHold, TodoHolds, OneTaker,
         NEW r \in Runners, NEW d \in Deliveries, NEW n \in 1..MaxAttempts,
         \A m : ~Holding(d, m), Holding(d, n)', \A e \in Deliveries : e # d => row'[e] = row[e],
         attempt' = [attempt EXCEPT ![r] = [phase |-> "run", d |-> d, n |-> n]], job' = job
  PROVE  AttemptsHold' /\ TodoHolds' /\ OneTaker'
<1>1. /\ attempt'[r].d = d /\ attempt'[r].n = n
      /\ \A s \in Runners : s # r => attempt'[s] = attempt[s]
  BY DEF TypeOK
<1>2. \A s \in Runners : attempt[s] # Idle => attempt[s].d # d /\ attempt[s].d \in Deliveries
  BY HandTypes DEF AttemptsHold
<1>3. \A p \in Procs : \A c \in job[p].todo : c.d # d /\ c.d \in Deliveries
  BY HandTypes DEF TodoHolds
<1>4. AttemptsHold'
  <2>1. ASSUME NEW s \in Runners, attempt'[s] # Idle PROVE Holding(attempt[s].d, attempt[s].n)'
    BY <1>1, <1>2, <2>1 DEF AttemptsHold, Holding
  <2> QED
    BY <2>1 DEF AttemptsHold
<1>5. TodoHolds'
  BY <1>3 DEF TodoHolds, Holding
<1>6. OneTaker'
  BY <1>1, <1>2, <1>3 DEF OneTaker
<1> QED
  BY <1>4, <1>5, <1>6

\* The parts of the invariant that speak of rows alone.
RowParts == NoneBefore /\ FreeHasAttempts

\* The parts of the invariant about rows survive a step that only lets time pass.
LEMMA SameRowsParts ==
  ASSUME RowParts, published' = published,
         \A d \in Deliveries :
           /\ row'[d].status = row[d].status
           /\ row'[d].lock = NoLock => row[d].lock = NoLock /\ row'[d].attempts = row[d].attempts
  PROVE  RowParts'
<1>1. NoneBefore'
  BY DEF RowParts, NoneBefore, Deliveries
<1>2. FreeHasAttempts'
  BY DEF RowParts, FreeHasAttempts
<1> QED
  BY <1>1, <1>2 DEF RowParts

\* Nobody holds a lease at first.
LEMMA LeaseInitially == Init => LeaseInv
<1> SUFFICES ASSUME Init PROVE LeaseInv
  OBVIOUS
<1>1. AttemptsHold /\ TodoHolds /\ OneTaker /\ TodoOnlyRunning
  BY DEF Init, AttemptsHold, TodoHolds, OneTaker, TodoOnlyRunning, Resting
<1>2. NoneBefore /\ FreeHasAttempts
  BY DEF Init, NoneBefore, FreeHasAttempts, NoRow, Deliveries
<1> QED
  BY <1>1, <1>2, InitType DEF LeaseInv

\* While attempts keep to their lease, no step breaks the invariant.
LEMMA LeaseStep ==
  ASSUME Prompt
  PROVE  LeaseInv /\ [Next]_vars => LeaseInv'
<1> SUFFICES ASSUME TypeOK, AttemptsHold, TodoHolds, OneTaker, TodoOnlyRunning, RowParts, [Next]_vars
             PROVE  AttemptsHold' /\ TodoHolds' /\ OneTaker' /\ TodoOnlyRunning' /\ RowParts'
  BY StepType DEF LeaseInv, RowParts
<1>0. \A d \in Deliveries : row[d] \in Rows
  BY DEF TypeOK
<1>a. ASSUME attempt' = attempt, job' = job PROVE FewerHands /\ TodoOnlyRunning'
  BY <1>a DEF FewerHands, TodoOnlyRunning
<1>b. Lease # NoLock
  BY OutboxAssumption DEF NoLock
<1>1. ASSUME NEW p \in Procs, NEW b \in Batches, publish(p, b)
      PROVE  AttemptsHold' /\ TodoHolds' /\ OneTaker' /\ TodoOnlyRunning' /\ RowParts'
  <2>1. \A d \in Ran(b) : row[d].status = "NONE" /\ d \in Deliveries
    BY <1>1 DEF publish, RowParts, NoneBefore, Deliveries
  <2>2. \A d \in Deliveries : \A n \in 1..MaxAttempts : Holding(d, n) => Holding(d, n)'
    BY <1>1, <2>1, SameRowHolds DEF publish, Holding
  <2>3. NoneBefore'
    <3>1. ASSUME NEW c \in Batches \ published', NEW d \in Ran(c) PROVE row'[d].status = "NONE"
      BY <1>1, OutboxAssumption DEF publish, Deliveries, RowParts, NoneBefore
    <3> QED
      BY <3>1 DEF NoneBefore
  <2>4. FreeHasAttempts'
    BY <1>1, OutboxAssumption DEF publish, RowParts, FreeHasAttempts, NoRow
  <2>5. attempt' = attempt /\ job' = job
    BY <1>1 DEF publish
  <2> QED
    BY <1>a, <2>2, <2>3, <2>4, <2>5, FewerHandsOneTaker, FewerHandsHold DEF RowParts
<1>2. ASSUME NEW b \in Batches, deliver(b)
      PROVE  AttemptsHold' /\ TodoHolds' /\ OneTaker' /\ TodoOnlyRunning' /\ RowParts'
  <2>1. dispatch[b].todo \in Seq(Deliveries) /\ dispatch[b].todo # <<>>
    BY <1>2 DEF deliver, TypeOK
  <2>2. PICK d \in Deliveries : d = Head(dispatch[b].todo)
    BY <2>1
  <2>3. CASE ~Claimable(d)
    <3>1. attempt' = attempt /\ job' = job /\ row' = row /\ published' = published
      BY <1>2, <2>2, <2>3 DEF deliver
    <3> QED
      BY <1>a, <3>1, FewerHandsOneTaker, FewerHandsHold, SameRowHolds, SameRowsParts
  <2>4. CASE Claimable(d)
    <3>1. PICK n \in 1..MaxAttempts : n = row[d].attempts + 1
      BY <2>4, RowTypes
    <3>2. /\ row' = [row EXCEPT ![d] = Claimed(@)] /\ job' = job /\ published' = published
          /\ attempt' = [attempt EXCEPT ![<<"dispatch", b>>] = [phase |-> "run", d |-> d, n |-> n]]
      BY <1>2, <2>2, <2>4, <3>1 DEF deliver
    <3>3. row'[d] = Claimed(row[d]) /\ \A e \in Deliveries : e # d => row'[e] = row[e]
      BY <3>2 DEF TypeOK
    <3>4. Holding(d, n)' /\ \A m : ~Holding(d, m)
      BY <2>4, <3>1, <3>3, ClaimHolds
    <3>5. AttemptsHold' /\ TodoHolds' /\ OneTaker'
      BY <3>2, <3>3, <3>4, TakenByOne, RunnersOK
    <3>6. TodoOnlyRunning'
      BY <3>2 DEF TodoOnlyRunning
    <3>7. RowParts'
      BY <1>0, <1>b, <3>2, <3>3, RowFields, SameRowsParts
    <3> QED
      BY <3>5, <3>6, <3>7
  <2> QED
    BY <2>3, <2>4
<1>3. ASSUME NEW b \in Batches, deliverFails(b)
      PROVE  AttemptsHold' /\ TodoHolds' /\ OneTaker' /\ TodoOnlyRunning' /\ RowParts'
  BY <1>3, <1>a, FewerHandsOneTaker, FewerHandsHold, SameRowHolds, SameRowsParts DEF deliverFails
<1>4. ASSUME NEW p \in Procs, deliverDueStart(p)
      PROVE  AttemptsHold' /\ TodoHolds' /\ OneTaker' /\ TodoOnlyRunning' /\ RowParts'
  <2>1. FewerHands /\ TodoOnlyRunning'
    BY <1>4 DEF deliverDueStart, TypeOK, FewerHands, TodoOnlyRunning
  <2>2. \A d \in Deliveries : row'[d] = row[d] \/ (Abandoned(d) /\ row'[d].status = "FAILED" /\ row[d].status = "PENDING")
    BY <1>0, <1>4 DEF deliverDueStart, failAbandoned, Rows, Abandoned
  <2>3. \A d \in Deliveries : \A n \in 1..MaxAttempts : Holding(d, n) => Holding(d, n)'
    BY <2>2, SameRowHolds DEF Abandoned, Holding
  <2>4. NoneBefore'
    BY <1>4, <2>2 DEF deliverDueStart, RowParts, NoneBefore, Deliveries
  <2>5. FreeHasAttempts'
    BY <2>2 DEF RowParts, FreeHasAttempts
  <2> QED
    BY <2>1, <2>3, <2>4, <2>5, FewerHandsOneTaker, FewerHandsHold DEF RowParts
<1>5. ASSUME NEW p \in Procs, deliverDueFails(p) \/ deliverDueEnd(p)
      PROVE  AttemptsHold' /\ TodoHolds' /\ OneTaker' /\ TodoOnlyRunning' /\ RowParts'
  <2>1. row' = row /\ published' = published /\ attempt' = attempt
    BY <1>5 DEF deliverDueFails, deliverDueEnd
  <2>2. FewerHands /\ TodoOnlyRunning'
    <3>1. \A q \in Procs : job'[q] = job[q] \/ job'[q].todo = {}
      <4>1. CASE deliverDueFails(p)
        BY <4>1 DEF deliverDueFails, TypeOK, Resting
      <4>2. CASE deliverDueEnd(p)
        BY <4>2 DEF deliverDueEnd, TypeOK
      <4> QED
        BY <1>5, <4>1, <4>2
    <3> QED
      BY <2>1, <3>1 DEF FewerHands, TodoOnlyRunning
  <2> QED
    BY <2>1, <2>2, FewerHandsOneTaker, FewerHandsHold, SameRowHolds, SameRowsParts
<1>6. ASSUME NEW p \in Procs, crash(p)
      PROVE  AttemptsHold' /\ TodoHolds' /\ OneTaker' /\ TodoOnlyRunning' /\ RowParts'
  <2>1. row' = row /\ published' = published
    BY <1>6 DEF crash
  <2>2. FewerHands /\ TodoOnlyRunning'
    BY <1>6 DEF crash, TypeOK, Resting, FewerHands, TodoOnlyRunning
  <2> QED
    BY <2>1, <2>2, FewerHandsOneTaker, FewerHandsHold, SameRowHolds, SameRowsParts
<1>7. ASSUME NEW r \in Runners, handle(r) \/ handleThrows(r) \/ settleFails(r)
      PROVE  AttemptsHold' /\ TodoHolds' /\ OneTaker' /\ TodoOnlyRunning' /\ RowParts'
  <2>1. row' = row /\ published' = published /\ job' = job
    BY <1>7 DEF handle, handleThrows, settleFails
  <2>2. attempt[r] # Idle /\ attempt[r] \in Attempts
    BY <1>7, InHandType DEF handle, handleThrows, settleFails, Idle
  <2>3. \A q \in Runners : attempt'[q] # Idle =>
          attempt[q] # Idle /\ attempt'[q].d = attempt[q].d /\ attempt'[q].n = attempt[q].n
    <3>1. \/ attempt' = [attempt EXCEPT ![r] = Idle]
          \/ \E ph \in {"ok", "err"} : attempt' = [attempt EXCEPT ![r] = [attempt[r] EXCEPT !.phase = ph]]
      BY <1>7 DEF handle, handleThrows, settleFails, TypeOK
    <3>2. \A ph \in {"ok", "err"} : /\ [attempt[r] EXCEPT !.phase = ph].d = attempt[r].d
                                   /\ [attempt[r] EXCEPT !.phase = ph].n = attempt[r].n
      BY <2>2 DEF Attempts
    <3> QED
      BY <2>2, <3>1, <3>2 DEF TypeOK
  <2>4. FewerHands /\ TodoOnlyRunning'
    BY <2>1, <2>3 DEF FewerHands, TodoOnlyRunning
  <2> QED
    BY <2>1, <2>4, FewerHandsOneTaker, FewerHandsHold, SameRowHolds, SameRowsParts
<1>8. ASSUME NEW r \in Runners, settle(r)
      PROVE  AttemptsHold' /\ TodoHolds' /\ OneTaker' /\ TodoOnlyRunning' /\ RowParts'
  <2>1. attempt[r] # Idle /\ attempt[r].d \in Deliveries /\ attempt[r].n \in 1..MaxAttempts
    BY <1>8, InHandType DEF settle, Idle
  <2>2. PICK d \in Deliveries, n \in 1..MaxAttempts : d = attempt[r].d /\ n = attempt[r].n
    BY <2>1
  <2>3. /\ row' = markDelivered(d) \/ row' = markFailedAttempt(d, n)
        /\ attempt' = [attempt EXCEPT ![r] = Idle] /\ job' = job /\ published' = published
    BY <1>8, <2>2 DEF settle
  <2>4. \A e \in Deliveries : e # d => row'[e] = row[e]
    BY <2>3, SettleFields
  <2>5. Holding(d, n) /\ Exists(d)
    BY <2>1, <2>2 DEF AttemptsHold, Holding, Exists
  <2>6. FewerHands /\ TodoOnlyRunning'
    BY <2>3 DEF FewerHands, TodoOnlyRunning, TypeOK
  <2>7. AttemptsHold'
    <3>1. ASSUME NEW q \in Runners, attempt'[q] # Idle PROVE Holding(attempt[q].d, attempt[q].n)'
      BY <2>3, <3>1, <2>1, <2>2, HandTypes, <2>4 DEF TypeOK, OneTaker, AttemptsHold, Holding
    <3> QED
      BY <3>1 DEF AttemptsHold
  <2>8. TodoHolds'
    BY <2>1, <2>2, HandTypes, <2>3, <2>4 DEF OneTaker, TodoHolds, Holding
  <2>9. RowParts'
    <3>1. row'[d].status # "NONE"
          /\ (row'[d].status = "PENDING" => row'[d].attempts = n /\ n < MaxAttempts)
      BY <2>3, <2>5, SettleFields, OutboxAssumption DEF Holding
    <3>2. NoneBefore'
      BY <2>3, <2>4, <2>5 DEF RowParts, NoneBefore, Deliveries, Holding
    <3>3. FreeHasAttempts'
      BY <2>4, <3>1 DEF RowParts, FreeHasAttempts
    <3> QED
      BY <3>2, <3>3 DEF RowParts
  <2> QED
    BY <2>6, <2>7, <2>8, <2>9, FewerHandsOneTaker
<1>9. ASSUME NEW d \in Deliveries, retry(d) \/ cleanup(EventOf(d))
      PROVE  AttemptsHold' /\ TodoHolds' /\ OneTaker' /\ TodoOnlyRunning' /\ RowParts'
  <2>1. attempt' = attempt /\ job' = job /\ published' = published
    BY <1>9 DEF retry, cleanup
  <2>2. \A e \in Deliveries :
          \/ row'[e] = row[e]
          \/ /\ row[e].status \in {"FAILED", "DELIVERED"} /\ row'[e].attempts = 0
    BY <1>9, <1>0, RowFields DEF retry, cleanup, Expired, NoRow, TypeOK
  <2>3. \A e \in Deliveries : \A n \in 1..MaxAttempts : Holding(e, n) => Holding(e, n)'
    BY <2>2, SameRowHolds DEF Holding
  <2>4. NoneBefore'
    BY <2>1, <2>2 DEF RowParts, NoneBefore, Deliveries
  <2>5. FreeHasAttempts'
    BY <2>2, OutboxAssumption DEF RowParts, FreeHasAttempts
  <2> QED
    BY <1>a, <2>1, <2>3, <2>4, <2>5, FewerHandsOneTaker, FewerHandsHold DEF RowParts
<1>10. ASSUME NEW D \in SUBSET Deliveries, retryAll(D)
       PROVE  AttemptsHold' /\ TodoHolds' /\ OneTaker' /\ TodoOnlyRunning' /\ RowParts'
  <2>1. attempt' = attempt /\ job' = job /\ published' = published
    BY <1>10 DEF retryAll
  <2>2. \A e \in Deliveries :
          \/ row'[e] = row[e]
          \/ /\ row[e].status = "FAILED" /\ row'[e].attempts = 0
    BY <1>10, <1>0, RowFields DEF retryAll
  <2>3. \A e \in Deliveries : \A n \in 1..MaxAttempts : Holding(e, n) => Holding(e, n)'
    BY <2>2, SameRowHolds DEF Holding
  <2>4. NoneBefore'
    BY <2>1, <2>2 DEF RowParts, NoneBefore, Deliveries
  <2>5. FreeHasAttempts'
    BY <2>2, OutboxAssumption DEF RowParts, FreeHasAttempts
  <2> QED
    BY <1>a, <2>1, <2>3, <2>4, <2>5, FewerHandsOneTaker, FewerHandsHold DEF RowParts
<1>11. CASE Tick
  <2>1. attempt' = attempt /\ published' = published
    BY <1>11 DEF Tick
  <2>2. FewerHands /\ TodoOnlyRunning'
    BY <1>11, <2>1 DEF Tick, TypeOK, FewerHands, TodoOnlyRunning
  <2>3. \A d \in Deliveries : \A n : Holding(d, n) /\ d \in InHand => Holding(d, n)'
    <3>1. ASSUME NEW d \in Deliveries, NEW n, Holding(d, n), d \in InHand PROVE Holding(d, n)'
      <4>1. row[d].lock # 1 /\ row[d].lock \in Nat \ {0} /\ row[d].lock # NoLock
        <5>1. row[d].lock # 1
          BY <1>11, <3>1, Zenon DEF Tick
        <5> QED
          BY <3>1, <5>1 DEF Holding, NoLock
      <4>2. row'[d].status = row[d].status /\ row'[d].attempts = row[d].attempts /\ row'[d].lock = Less(row[d].lock)
        BY <1>0, <1>11, <4>1, TickFields
      <4>3. Less(row[d].lock) \in Nat \ {0}
        BY <4>1 DEF Less
      <4> QED
        BY <3>1, <4>2, <4>3 DEF Holding
    <3> QED
      BY <3>1
  <2>4. AttemptsHold'
    BY HandTypes, <2>1, <2>3 DEF InHand, AttemptsHold
  <2>5. TodoHolds'
    BY HandTypes, <2>2, <2>3 DEF InHand, TodoHolds, FewerHands
  <2>6. RowParts'
    BY <1>0, <1>11, <2>1, TickFields, SameRowsParts DEF Less, NoLock, Rows
  <2> QED
    BY <2>2, <2>4, <2>5, <2>6, FewerHandsOneTaker
<1>12. CASE UNCHANGED vars
  BY <1>12, <1>a, FewerHandsOneTaker, FewerHandsHold, SameRowHolds, SameRowsParts DEF vars
<1>13. ASSUME NEW p \in Procs, claimDue(p)
       PROVE  AttemptsHold' /\ TodoHolds' /\ OneTaker' /\ TodoOnlyRunning' /\ RowParts'
  <2>1. PICK S \in SUBSET {d \in Deliveries : Due(d)} :
          /\ row' = [d \in Deliveries |-> IF d \in S THEN Claimed(row[d]) ELSE row[d]]
          /\ job' = [job EXCEPT ![p] =
                       [phase |-> "run", todo |-> {[d |-> d, n |-> row[d].attempts + 1] : d \in S}]]
    BY <1>13 DEF claimDue
  <2>2. job[p].todo = {} /\ attempt' = attempt /\ published' = published
    BY <1>13 DEF claimDue, TodoOnlyRunning
  <2>3. /\ job'[p].phase = "run" /\ job'[p].todo = {[d |-> d, n |-> row[d].attempts + 1] : d \in S}
        /\ \A q \in Procs : q # p => job'[q] = job[q]
    BY <2>1 DEF TypeOK
  <2>4. \A d \in S : d \in Deliveries /\ Claimable(d) /\ row'[d] = Claimed(row[d])
    BY <2>1 DEF Due
  <2>5. \A d \in Deliveries \ S : row'[d] = row[d]
    BY <2>1
  <2>6. \A d \in S : (\A n : ~Holding(d, n)) /\ (\A n : n = row[d].attempts + 1 => Holding(d, n)')
    BY <2>4, ClaimHolds
  <2>7. \A r \in Runners : attempt[r] # Idle => attempt[r].d \in Deliveries \ S
    BY <2>6, HandTypes DEF AttemptsHold
  <2>8. \A q \in Procs : \A c \in job[q].todo : c.d \in Deliveries \ S
    BY <2>6, HandTypes DEF TodoHolds
  <2>9. \A c \in job'[p].todo : c.d \in S /\ c = [d |-> c.d, n |-> row[c.d].attempts + 1] /\ Holding(c.d, c.n)'
    BY <2>3, <2>6 DEF Holding
  <2>10. AttemptsHold'
    BY <2>2, <2>5, <2>7 DEF AttemptsHold, Holding
  <2>11. TodoHolds'
    <3>1. ASSUME NEW q \in Procs, NEW c \in job'[q].todo PROVE Holding(c.d, c.n)'
      <4>1. CASE q = p
        BY <2>9, <3>1, <4>1
      <4>2. CASE q # p
        BY <2>3, <3>1, <4>2, <2>5, <2>8 DEF TodoHolds, Holding
      <4> QED
        BY <4>1, <4>2
    <3> QED
      BY <3>1 DEF TodoHolds
  <2>12. OneTaker'
    <3>1. \A r, s \in Runners :
            r # s /\ attempt'[r] # Idle /\ attempt'[s] # Idle => attempt'[r].d # attempt'[s].d
      BY <2>2 DEF OneTaker
    <3>2. \A r \in Runners, q \in Procs : \A c \in job'[q].todo : attempt'[r] # Idle => attempt'[r].d # c.d
      BY <2>2, <2>3, <2>7, <2>9 DEF OneTaker
    <3>3. \A q, o \in Procs : \A c \in job'[q].todo, e \in job'[o].todo : c.d = e.d => q = o /\ c = e
      <4>1. ASSUME NEW q \in Procs, NEW o \in Procs, NEW c \in job'[q].todo, NEW e \in job'[o].todo, c.d = e.d
            PROVE  q = o /\ c = e
        BY <2>9, <4>1, <2>3, <2>8 DEF OneTaker
      <4> QED
        BY <4>1
    <3> QED
      BY <3>1, <3>2, <3>3 DEF OneTaker
  <2>13. TodoOnlyRunning'
    BY <2>3 DEF TodoOnlyRunning
  <2>14. RowParts'
    BY <1>0, <2>4, <2>5, RowFields, <1>b, <2>2, SameRowsParts
  <2> QED
    BY <2>10, <2>11, <2>12, <2>13, <2>14
<1>14. ASSUME NEW p \in Procs, attemptNext(p)
       PROVE  AttemptsHold' /\ TodoHolds' /\ OneTaker' /\ TodoOnlyRunning' /\ RowParts'
  <2>1. PICK c \in job[p].todo :
          /\ job' = [job EXCEPT ![p].todo = @ \ {c}]
          /\ \/ /\ attempt' = [attempt EXCEPT ![<<"job", p>>] = [phase |-> "run", d |-> c.d, n |-> c.n]]
                /\ row' = row
             \/ row' = markFailedAttempt(c.d, MaxAttempts) /\ Exists(c.d) /\ attempt' = attempt
    BY <1>14 DEF attemptNext
  <2>2. c.d \in Deliveries /\ c.n \in 1..MaxAttempts /\ Holding(c.d, c.n) /\ published' = published
    BY <1>14, <2>1, HandTypes DEF TodoHolds, attemptNext
  <2>3. PICK r \in Runners : r = <<"job", p>>
    BY RunnersOK
  <2>4. /\ job'[p].todo = job[p].todo \ {c} /\ job'[p].phase = job[p].phase
        /\ \A q \in Procs : q # p => job'[q] = job[q]
    BY <2>1 DEF TypeOK
  <2>5. \A q \in Procs : job'[q].todo \subseteq job[q].todo /\ \A e \in job'[q].todo : e.d # c.d
    BY <2>1, <2>4 DEF OneTaker
  <2>6. TodoOnlyRunning'
    BY <2>4 DEF TodoOnlyRunning
  <2>7. \A s \in Runners : attempt[s] # Idle => attempt[s].d # c.d /\ attempt[s].d \in Deliveries
    BY <2>1, HandTypes DEF OneTaker
  <2>8. CASE attempt' = [attempt EXCEPT ![<<"job", p>>] = [phase |-> "run", d |-> c.d, n |-> c.n]] /\ row' = row
    <3>1. /\ attempt'[r].d = c.d /\ attempt'[r].n = c.n
          /\ \A s \in Runners : s # r => attempt'[s] = attempt[s]
      BY <2>3, <2>8 DEF TypeOK
    <3>2. AttemptsHold'
      BY <2>2, <2>8, <3>1 DEF AttemptsHold, Holding
    <3>3. TodoHolds'
      BY <2>5, <2>8 DEF TodoHolds, Holding
    <3>4. OneTaker'
      BY <2>5, <2>7, <3>1 DEF OneTaker
    <3>5. RowParts'
      BY <2>2, <2>8, SameRowsParts
    <3> QED
      BY <2>6, <3>2, <3>3, <3>4, <3>5
  <2>9. CASE row' = markFailedAttempt(c.d, MaxAttempts) /\ Exists(c.d) /\ attempt' = attempt
    <3>1. MaxAttempts \in 1..MaxAttempts /\ MaxAttempts >= MaxAttempts
      BY OutboxAssumption
    <3>2. row'[c.d].status = "FAILED" /\ \A e \in Deliveries : e # c.d => row'[e] = row[e]
      BY <2>2, <2>9, <3>1, SettleFields
    <3>3. FewerHands
      BY <2>5, <2>9 DEF FewerHands
    <3>4. AttemptsHold'
      BY <2>7, <2>9, <3>2 DEF AttemptsHold, Holding
    <3>5. TodoHolds'
      BY <2>5, <3>2, HandTypes DEF TodoHolds, Holding
    <3>6. NoneBefore'
      BY <2>2, <3>2 DEF RowParts, NoneBefore, Deliveries, Holding
    <3>7. FreeHasAttempts'
      BY <3>2 DEF RowParts, FreeHasAttempts
    <3> QED
      BY <2>6, <3>3, <3>4, <3>5, <3>6, <3>7, FewerHandsOneTaker DEF RowParts
  <2> QED
    BY <2>1, <2>8, <2>9
<1> QED
  BY <1>1, <1>2, <1>3, <1>4, <1>5, <1>6, <1>7, <1>8, <1>9, <1>10, <1>11, <1>12, <1>13, <1>14 DEF Next

\* While attempts finish within their lease, however many instances run, no delivery is in two hands at
\* once: the dispatch after the commit and the retry jobs never run a handler concurrently for one event.
THEOREM LeaseExcludes ==
  ASSUME Prompt
  PROVE  Spec => []OneTaker
<1>1. LeaseInv => OneTaker
  BY DEF LeaseInv
<1> QED
  BY <1>1, LeaseInitially, LeaseStep, PTL DEF Spec

\* While attempts finish within their lease, a last attempt that never finished can always be failed by the
\* retry job: no delivery is stuck as pending.
THEOREM LastAttemptIsHeld ==
  ASSUME Prompt
  PROVE  Spec => []LastAttemptEnds
<1>1. LeaseInv => LastAttemptEnds
  BY OutboxAssumption DEF LeaseInv, FreeHasAttempts, LastAttemptEnds
<1> QED
  BY <1>1, LeaseInitially, LeaseStep, PTL DEF Spec

\* While attempts finish within their lease, a delivered delivery stays delivered until the cleanup: no late
\* failure, retry or give-up makes its handler run again.
THEOREM DeliveredStays ==
  ASSUME Prompt
  PROVE  Spec => DeliveredIsFinal
<1> DEFINE Stays == \A d \in Deliveries : row[d].status = "DELIVERED" => row'[d].status \in {"DELIVERED", "DELETED"}
<1>1. LeaseInv /\ [Next]_vars => Stays
  <2> SUFFICES ASSUME LeaseInv, [Next]_vars, NEW d \in Deliveries, row[d].status = "DELIVERED"
               PROVE  row'[d].status \in {"DELIVERED", "DELETED"}
    OBVIOUS
  <2>0. TypeOK /\ AttemptsHold /\ TodoHolds /\ NoneBefore /\ row[d] \in Rows
    BY DEF LeaseInv, TypeOK
  <2>1. ASSUME NEW p \in Procs, NEW b \in Batches, publish(p, b) PROVE row'[d] = row[d]
    BY <2>0, <2>1 DEF publish, NoneBefore
  <2>2. ASSUME NEW b \in Batches, deliver(b) \/ deliverFails(b) PROVE row'[d] = row[d]
    BY <2>2, <2>0 DEF deliver, deliverFails, Claimable, TypeOK
  <2>3. ASSUME NEW p \in Procs, deliverDueStart(p) PROVE row'[d] = row[d]
    BY <2>3 DEF deliverDueStart, failAbandoned, Abandoned
  <2>4. ASSUME NEW p \in Procs, claimDue(p) PROVE row'[d] = row[d]
    BY <2>4 DEF claimDue, Due, Claimable
  <2>5. ASSUME NEW p \in Procs, attemptNext(p) PROVE row'[d] = row[d]
    BY <2>5, <2>0, HandTypes, OutboxAssumption, SettleFields DEF attemptNext, TodoHolds, Holding
  <2>6. ASSUME NEW p \in Procs, deliverDueFails(p) \/ deliverDueEnd(p) \/ crash(p) PROVE row'[d] = row[d]
    BY <2>6 DEF deliverDueFails, deliverDueEnd, crash
  <2>7. ASSUME NEW r \in Runners, handle(r) \/ handleThrows(r) \/ settleFails(r) PROVE row'[d] = row[d]
    BY <2>7 DEF handle, handleThrows, settleFails
  <2>8. ASSUME NEW r \in Runners, settle(r) PROVE row'[d] = row[d]
    BY <2>8, <2>0, HandTypes, SettleFields DEF settle, Idle, AttemptsHold, Holding
  <2>9. ASSUME NEW e \in Deliveries, retry(e) \/ cleanup(EventOf(e))
        PROVE  row'[d].status \in {"DELIVERED", "DELETED"}
    BY <2>0, <2>9 DEF retry, cleanup, NoRow, TypeOK
  <2>10. ASSUME NEW D \in SUBSET Deliveries, retryAll(D) PROVE row'[d] = row[d]
    BY <2>10 DEF retryAll
  <2>11. CASE Tick
    BY <2>0, <2>11, TickFields
  <2>12. CASE UNCHANGED vars
    BY <2>12 DEF vars
  <2> QED
    BY <2>1, <2>2, <2>3, <2>4, <2>5, <2>6, <2>7, <2>8, <2>9, <2>10, <2>11, <2>12 DEF Next
<1>2. [][Stays]_vars => DeliveredIsFinal
  BY DEF DeliveredIsFinal
<1> QED
  BY <1>1, <1>2, LeaseInitially, LeaseStep, PTL DEF Spec

-----------------------------------------------------------------------------
(* Idempotent requests: the inductive invariant.                           *)

\* The requests of a key that may still take effect or free it, and those that are about to keep a response.
Loose(k) == {r \in Requests : KeyOf[r] = k /\ phase[r] \in {"run", "release"}}
Keeping(k) == {r \in Requests : KeyOf[r] = k /\ phase[r] \in {"keepSuccess", "keepProblem"}}

\* Every operation that happened or may happen is explained: by the row of the key, which allows one, or by an excuse.
\* A request whose success could not be kept counts twice, until it frees the key: as done, and as able to free it.
oneIf(condition) == IF condition THEN 1 ELSE 0
EffectsExplained ==
  \A k \in Keys : Cardinality(effects[k]) + Cardinality(Loose(k)) <= excuses[k] + oneIf(keyRow[k] # None)

\* Of the requests that hold the key, only one holds the row; the others lost it.
HoldersExplained ==
  \A k \in Keys : Cardinality(Loose(k)) + Cardinality(Keeping(k)) <= excuses[k] + oneIf(inProgress(keyRow[k]))

\* What the phase of a request says about its operation, and a kept response about the request that had it.
PhasesTrue ==
  \A r \in Requests :
    /\ startedAt[r] <= now
    /\ phase[r] \in {"new", "claim", "find", "run"} => outcome[r] = "none"
    /\ phase[r] = "keepSuccess" => outcome[r] = "success"
    /\ phase[r] = "keepProblem" => outcome[r] = "problem"
ResponsesTrue ==
  \A k \in Keys : completed(keyRow[k]) =>
    LET x == keyRow[k] IN
    KeyOf[x.response.by] = k /\ HashOf[x.response.by] = x.hash /\ outcome[x.response.by] = x.response.kind

KeysInv ==
  /\ IdempotencyTypeOK /\ PhasesTrue /\ ResponsesTrue /\ AnswersTrue
  /\ EffectsExplained /\ HoldersExplained /\ HeldByLive

-----------------------------------------------------------------------------
(* Counting requests.                                                      *)

\* Every set of requests is finite.
LEMMA RequestSets ==
  ASSUME NEW S \in SUBSET Requests
  PROVE  IsFiniteSet(S) /\ Cardinality(S) \in Nat
<1>1. IsFiniteSet(S)
  BY IdempotencyAssumption, FS_Subset
<1> QED
  BY <1>1, FS_CardinalityType

\* A set with at most one request more has at most one more element.
LEMMA OneMore ==
  ASSUME NEW S \in SUBSET Requests, NEW r \in Requests, NEW T \in SUBSET (S \cup {r})
  PROVE  Cardinality(T) <= Cardinality(S) + 1
<1>1. IsFiniteSet(S) /\ Cardinality(S) \in Nat
  BY RequestSets
<1>2. IsFiniteSet(S \cup {r}) /\ Cardinality(S \cup {r}) <= Cardinality(S) + 1
  BY <1>1, FS_AddElement
<1>3. Cardinality(T) <= Cardinality(S \cup {r}) /\ IsFiniteSet(T)
  BY <1>2, FS_Subset
<1>4. Cardinality(T) \in Nat /\ Cardinality(S \cup {r}) \in Nat
  BY <1>2, <1>3, FS_CardinalityType
<1> QED
  BY <1>1, <1>2, <1>3, <1>4

-----------------------------------------------------------------------------
(* What the steps of a request do to the counts.                           *)

isLoose(p) == p \in {"run", "release"}
isKeeping(p) == p \in {"keepSuccess", "keepProblem"}

\* The counts of a key are numbers.
LEMMA CountTypes ==
  ASSUME IdempotencyTypeOK, NEW k \in Keys
  PROVE  /\ Cardinality(effects[k]) \in Nat /\ Cardinality(Loose(k)) \in Nat /\ Cardinality(Keeping(k)) \in Nat
         /\ excuses[k] \in Nat
<1>1. effects[k] \in SUBSET Requests /\ Loose(k) \in SUBSET Requests /\ Keeping(k) \in SUBSET Requests
  BY DEF IdempotencyTypeOK, Loose, Keeping
<1>2. excuses[k] \in Nat
  BY DEF IdempotencyTypeOK
<1> QED
  BY <1>1, <1>2, RequestSets

\* A request that moves changes the counts of its own key only, by what it was and what it becomes.
LEMMA CountsMoved ==
  ASSUME IdempotencyTypeOK, NEW r \in Requests, NEW to \in Phases, go(r, to)
  PROVE  /\ \A k \in Keys \ {KeyOf[r]} : Loose(k)' = Loose(k) /\ Keeping(k)' = Keeping(k)
         /\ Cardinality(Loose(KeyOf[r])') = Cardinality(Loose(KeyOf[r])) - oneIf(isLoose(phase[r])) + oneIf(isLoose(to))
         /\ Cardinality(Keeping(KeyOf[r])') =
              Cardinality(Keeping(KeyOf[r])) - oneIf(isKeeping(phase[r])) + oneIf(isKeeping(to))
<1> DEFINE k == KeyOf[r]
<1>0. /\ phase'[r] = to /\ \A x \in Requests \ {r} : phase'[x] = phase[x]
      /\ phase \in [Requests -> Phases]
  BY DEF go, IdempotencyTypeOK
<1>1. \A i \in Keys \ {k} : Loose(i)' = Loose(i) /\ Keeping(i)' = Keeping(i)
  BY <1>0 DEF Loose, Keeping
<1>2. Loose(k)' = (Loose(k) \ {r}) \cup (IF isLoose(to) THEN {r} ELSE {})
  BY <1>0 DEF Loose, isLoose
<1>3. Keeping(k)' = (Keeping(k) \ {r}) \cup (IF isKeeping(to) THEN {r} ELSE {})
  BY <1>0 DEF Keeping, isKeeping
<1>4. (r \in Loose(k) <=> isLoose(phase[r])) /\ (r \in Keeping(k) <=> isKeeping(phase[r]))
  BY DEF Loose, Keeping, isLoose, isKeeping
<1>5. ASSUME NEW S \in SUBSET Requests, NEW is \in BOOLEAN
      PROVE  Cardinality((S \ {r}) \cup (IF is THEN {r} ELSE {})) = Cardinality(S) - oneIf(r \in S) + oneIf(is)
  <2>1. IsFiniteSet(S) /\ Cardinality(S) \in Nat
    BY RequestSets
  <2>2. IsFiniteSet(S \ {r}) /\ Cardinality(S \ {r}) = Cardinality(S) - oneIf(r \in S)
    BY <2>1, FS_RemoveElement DEF oneIf
  <2>3. Cardinality((S \ {r}) \cup {r}) = Cardinality(S \ {r}) + 1
    BY <2>2, FS_AddElement
  <2>4. CASE is
    BY <2>1, <2>2, <2>3, <2>4 DEF oneIf
  <2>5. CASE ~is
    BY <2>5, <2>1, <2>2 DEF oneIf
  <2> QED
    BY <2>4, <2>5
<1>6. Loose(k) \in SUBSET Requests /\ Keeping(k) \in SUBSET Requests /\ isLoose(to) \in BOOLEAN /\ isKeeping(to) \in BOOLEAN
  BY DEF Loose, Keeping, isLoose, isKeeping
<1>7. Cardinality(Loose(k)') = Cardinality(Loose(k)) - oneIf(r \in Loose(k)) + oneIf(isLoose(to))
  BY <1>2, <1>5, <1>6, Zenon
<1>8. Cardinality(Keeping(k)') = Cardinality(Keeping(k)) - oneIf(r \in Keeping(k)) + oneIf(isKeeping(to))
  BY <1>3, <1>5, <1>6, Zenon
<1>9. oneIf(r \in Loose(k)) = oneIf(isLoose(phase[r])) /\ oneIf(r \in Keeping(k)) = oneIf(isKeeping(phase[r]))
  BY <1>4 DEF oneIf
<1> QED
  BY <1>1, <1>7, <1>8, <1>9

\* When a request moves, only what happens to its own key has to be explained.
LEMMA MoveExplained ==
  ASSUME KeysInv, IdempotencyTypeOK', NEW r \in Requests, NEW to \in Phases, go(r, to), NEW k \in Keys, k = KeyOf[r],
         \A i \in Keys \ {k} : keyRow'[i] = keyRow[i] /\ effects'[i] = effects[i] /\ excuses'[i] = excuses[i],
         Cardinality(effects'[k]) + Cardinality(Loose(k)) - oneIf(isLoose(phase[r])) + oneIf(isLoose(to))
           <= excuses'[k] + oneIf(keyRow'[k] # None),
         Cardinality(Loose(k)) + Cardinality(Keeping(k)) - oneIf(isLoose(phase[r])) - oneIf(isKeeping(phase[r]))
           + oneIf(isLoose(to)) + oneIf(isKeeping(to)) <= excuses'[k] + oneIf(inProgress(keyRow'[k]))
  PROVE  EffectsExplained' /\ HoldersExplained'
<1>1. /\ \A i \in Keys \ {k} : Loose(i)' = Loose(i) /\ Keeping(i)' = Keeping(i)
      /\ Cardinality(Loose(k)') = Cardinality(Loose(k)) - oneIf(isLoose(phase[r])) + oneIf(isLoose(to))
      /\ Cardinality(Keeping(k)') = Cardinality(Keeping(k)) - oneIf(isKeeping(phase[r])) + oneIf(isKeeping(to))
  BY CountsMoved DEF KeysInv
<1>2. /\ Cardinality(effects'[k]) \in Nat /\ Cardinality(Loose(k)) \in Nat /\ Cardinality(Keeping(k)) \in Nat
      /\ excuses'[k] \in Nat
  BY RequestSets, CountTypes DEF IdempotencyTypeOK, KeysInv
<1>3. \A c \in BOOLEAN : oneIf(c) \in {0, 1}
  BY DEF oneIf
<1>4. ASSUME NEW i \in Keys
      PROVE  Cardinality(effects'[i]) + Cardinality(Loose(i)') <= excuses'[i] + oneIf(keyRow'[i] # None)
  BY <1>1, <1>2 DEF oneIf, KeysInv, EffectsExplained
<1>5. ASSUME NEW i \in Keys
      PROVE  Cardinality(Loose(i)') + Cardinality(Keeping(i)') <= excuses'[i] + oneIf(inProgress(keyRow'[i]))
  BY <1>1, <1>2 DEF oneIf, KeysInv, HoldersExplained
<1>6. \A i \in Keys : inProgress(keyRow[i])' <=> inProgress(keyRow'[i])
  BY DEF inProgress
<1> QED
  BY <1>4, <1>5, <1>6 DEF EffectsExplained, HoldersExplained, oneIf

\* What is known of the counts of a key.
LEMMA CountFacts ==
  ASSUME KeysInv, NEW k \in Keys
  PROVE  /\ Cardinality(effects[k]) \in Nat /\ Cardinality(Loose(k)) \in Nat /\ Cardinality(Keeping(k)) \in Nat
         /\ excuses[k] \in Nat /\ oneIf(keyRow[k] # None) \in {0, 1} /\ oneIf(inProgress(keyRow[k])) \in {0, 1}
         /\ Cardinality(effects[k]) + Cardinality(Loose(k)) <= excuses[k] + oneIf(keyRow[k] # None)
         /\ Cardinality(Loose(k)) + Cardinality(Keeping(k)) <= excuses[k] + oneIf(inProgress(keyRow[k]))
  BY CountTypes DEF KeysInv, EffectsExplained, HoldersExplained, oneIf

\* A request that moves on without touching its key explains nothing new.
LEMMA QuietMove ==
  ASSUME KeysInv, IdempotencyTypeOK', NEW r \in Requests, NEW to \in Phases, go(r, to), UNCHANGED <<keyRow, effects, excuses>>,
         isLoose(to) => isLoose(phase[r]), isKeeping(to) => isLoose(phase[r]) \/ isKeeping(phase[r])
  PROVE  EffectsExplained' /\ HoldersExplained'
<1> DEFINE k == KeyOf[r]
<1>0. k \in Keys
  BY IdempotencyAssumption
<1>1. /\ oneIf(isLoose(to)) \in {0, 1} /\ oneIf(isLoose(phase[r])) \in {0, 1} /\ oneIf(isLoose(to)) <= oneIf(isLoose(phase[r]))
      /\ oneIf(isKeeping(to)) \in {0, 1} /\ oneIf(isKeeping(phase[r])) \in {0, 1}
      /\ oneIf(isLoose(to)) + oneIf(isKeeping(to)) <= oneIf(isLoose(phase[r])) + oneIf(isKeeping(phase[r]))
  BY DEF oneIf, isLoose, isKeeping
<1>2. /\ Cardinality(effects[k]) \in Nat /\ Cardinality(Loose(k)) \in Nat /\ Cardinality(Keeping(k)) \in Nat
      /\ excuses[k] \in Nat /\ oneIf(keyRow[k] # None) \in {0, 1} /\ oneIf(inProgress(keyRow[k])) \in {0, 1}
      /\ Cardinality(effects[k]) + Cardinality(Loose(k)) <= excuses[k] + oneIf(keyRow[k] # None)
      /\ Cardinality(Loose(k)) + Cardinality(Keeping(k)) <= excuses[k] + oneIf(inProgress(keyRow[k]))
  BY <1>0, CountFacts
<1> HIDE DEF k
<1>3. /\ Cardinality(effects[k]) + Cardinality(Loose(k)) - oneIf(isLoose(phase[r])) + oneIf(isLoose(to))
           <= excuses[k] + oneIf(keyRow[k] # None)
      /\ Cardinality(Loose(k)) + Cardinality(Keeping(k)) - oneIf(isLoose(phase[r])) - oneIf(isKeeping(phase[r]))
           + oneIf(isLoose(to)) + oneIf(isKeeping(to)) <= excuses[k] + oneIf(inProgress(keyRow[k]))
  BY <1>1, <1>2
<1> QED
  BY <1>0, <1>3, MoveExplained DEF k

-----------------------------------------------------------------------------
(* What the statements do to the row of a key.                             *)

\* What taking a key does to its row and its history.
LEMMA TakeDoes ==
  ASSUME KeysInv, NEW r \in Requests, NEW k \in Keys, k = KeyOf[r], take(r)
  PROVE  /\ keyRow' \in [Keys -> KeyRows \cup {None}] /\ keyRow'[k] = ClaimedRow(r)
         /\ inProgress(keyRow'[k]) /\ keyRow'[k] # None
         /\ effects' \in [Keys -> SUBSET Requests] /\ excuses' \in [Keys -> Nat]
         /\ \A i \in Keys \ {k} : keyRow'[i] = keyRow[i] /\ effects'[i] = effects[i] /\ excuses'[i] = excuses[i]
         /\ effects'[k] \in {effects[k], {}}
         /\ excuses'[k] = excuses[k] + oneIf(inProgress(keyRow[k]))
         /\ completed(keyRow[k]) => effects'[k] = {}
<1>1. ClaimedRow(r) \in KeyRows /\ ClaimedRow(r).response = None
  BY IdempotencyAssumption DEF ClaimedRow, KeyRows, KeysInv, IdempotencyTypeOK
<1>2. ClaimedRow(r) # None
  BY <1>1, IdempotencyAssumption
<1>3. keyRow' = [keyRow EXCEPT ![k] = ClaimedRow(r)]
  BY DEF take
<1>4. keyRow \in [Keys -> KeyRows \cup {None}] /\ effects \in [Keys -> SUBSET Requests] /\ excuses \in [Keys -> Nat]
  BY DEF KeysInv, IdempotencyTypeOK
<1>5. keyRow' \in [Keys -> KeyRows \cup {None}] /\ keyRow'[k] = ClaimedRow(r) /\ \A i \in Keys \ {k} : keyRow'[i] = keyRow[i]
  BY <1>1, <1>3, <1>4
<1>6. /\ effects' \in [Keys -> SUBSET Requests]
      /\ effects'[k] = IF ExpiredRow(keyRow[k], startedAt[r]) THEN {} ELSE effects[k]
      /\ \A i \in Keys \ {k} : effects'[i] = effects[i]
  BY <1>4 DEF take
<1>7. /\ excuses' \in [Keys -> Nat]
      /\ excuses'[k] = IF inProgress(keyRow[k]) THEN excuses[k] + 1 ELSE excuses[k]
      /\ \A i \in Keys \ {k} : excuses'[i] = excuses[i]
  BY <1>4 DEF take
<1>8. completed(keyRow[k]) => ExpiredRow(keyRow[k], startedAt[r])
  BY DEF take, Takeable, completed, TakenOver, inProgress
<1>9. excuses'[k] = excuses[k] + oneIf(inProgress(keyRow[k]))
  BY <1>4, <1>7 DEF oneIf
<1> QED
  BY <1>1, <1>2, <1>5, <1>6, <1>7, <1>8, <1>9 DEF inProgress

\* Keeping a response changes the row that the request claimed, or nothing.
LEMMA KeptDoes ==
  ASSUME KeysInv, NEW r \in Requests, NEW k \in Keys, k = KeyOf[r], NEW kind \in Kinds
  PROVE  /\ Kept(r, kind) \in [Keys -> KeyRows \cup {None}]
         /\ \A i \in Keys \ {k} : Kept(r, kind)[i] = keyRow[i]
         /\ \/ ~matchesAttempt(r) /\ Kept(r, kind) = keyRow
            \/ /\ matchesAttempt(r) /\ inProgress(keyRow[k]) /\ completed(Kept(r, kind)[k])
               /\ Kept(r, kind)[k].hash = HashOf[r] /\ Kept(r, kind)[k].response = [kind |-> kind, by |-> r]
<1> DEFINE a == [kind |-> kind, by |-> r]
<1>1. keyRow \in [Keys -> KeyRows \cup {None}]
  BY DEF KeysInv, IdempotencyTypeOK
<1>2. a \in Responses /\ a # None
  BY IdempotencyAssumption DEF Responses
<1>3. CASE ~matchesAttempt(r)
  BY <1>1, <1>3 DEF Kept
<1>4. CASE matchesAttempt(r)
  <2>1. inProgress(keyRow[k]) /\ keyRow[k].hash = HashOf[r]
    BY <1>4 DEF matchesAttempt
  <2>2. keyRow[k] \in KeyRows
    BY <1>1, <2>1 DEF inProgress
  <2>3. PICK x \in KeyRows : x = [keyRow[k] EXCEPT !.response = a] /\ x.response = a /\ x.hash = HashOf[r]
    <3> HIDE DEF a
    <3>1. [keyRow[k] EXCEPT !.response = a] \in KeyRows
      BY <1>2, <2>2 DEF KeyRows
    <3>2. [keyRow[k] EXCEPT !.response = a].response = a /\ [keyRow[k] EXCEPT !.response = a].hash = HashOf[r]
      BY <2>1, <2>2 DEF KeyRows
    <3> QED
      BY <3>1, <3>2
  <2>4. Kept(r, kind) = [keyRow EXCEPT ![k] = x]
    BY <1>4, <2>3 DEF Kept
  <2>5. x # None
    BY IdempotencyAssumption
  <2>6. Kept(r, kind)[k] = x /\ Kept(r, kind) \in [Keys -> KeyRows \cup {None}] /\ \A i \in Keys \ {k} : Kept(r, kind)[i] = keyRow[i]
    BY <1>1, <2>4
  <2> QED
    BY <1>2, <1>4, <2>1, <2>3, <2>5, <2>6 DEF completed
<1> QED
  BY <1>3, <1>4

\* Freeing the key removes the row that the request claimed, or changes nothing.
LEMMA ReleasedDoes ==
  ASSUME KeysInv, NEW r \in Requests, NEW k \in Keys, k = KeyOf[r]
  PROVE  /\ Released(r) \in [Keys -> KeyRows \cup {None}]
         /\ \A i \in Keys \ {k} : Released(r)[i] = keyRow[i]
         /\ \/ ~matchesAttempt(r) /\ Released(r) = keyRow
            \/ matchesAttempt(r) /\ inProgress(keyRow[k]) /\ Released(r)[k] = None
  BY DEF Released, KeysInv, IdempotencyTypeOK, matchesAttempt

-----------------------------------------------------------------------------
(* What a request tells its client.                                        *)

\* An answer that repeats nobody's response, or one that is true, keeps the answers true.
LEMMA AnswersKept ==
  ASSUME KeysInv, NEW r \in Requests, NEW kind, NEW by, reply(r, kind, by), <<kind, by>> \in Answers, outcome' = outcome,
         kind \in Kinds => KeyOf[by] = KeyOf[r] /\ HashOf[by] = HashOf[r] /\ outcome[by] = kind
  PROVE  answer' \in [Requests -> Answers] /\ AnswersTrue'
<1>1. /\ answer' \in [Requests -> Answers] /\ answer'[r] = <<kind, by>>
      /\ \A x \in Requests \ {r} : answer'[x] = answer[x]
  BY DEF reply, KeysInv, IdempotencyTypeOK
<1>2. AnswersTrue'
  BY <1>1 DEF AnswersTrue, KeysInv
<1> QED
  BY <1>1, <1>2

\* The answers that repeat nobody's response.
LEMMA PlainAnswers ==
  ASSUME NEW kind \in {"none", "mismatch", "inProgress", "error", "cut"}
  PROVE  <<kind, None>> \in Answers /\ kind \notin Kinds
  BY DEF Answers, Kinds

-----------------------------------------------------------------------------
(* Who holds a key in progress.                                            *)

Unfinished == {"run", "keepSuccess", "keepProblem", "release"}

\* While a row stays as it is, its holder keeps it when it moves from one step in hand to the next.
LEMMA HeldMoved ==
  ASSUME KeysInv, IdempotencyTypeOK', NEW r \in Requests, NEW to \in Phases, go(r, to),
         phase[r] \in Unfinished => to \in Unfinished \/ crashes' + failures' # 0 \/ ~inProgress(keyRow'[KeyOf[r]]) \/ ~matchesAttempt(r),
         \A x \in Requests : phase[x] \in Unfinished => startedAt'[x] = startedAt[x],
         crashes' + failures' = 0 => crashes + failures = 0,
         \A k \in Keys : inProgress(keyRow'[k]) => keyRow'[k] = keyRow[k]
  PROVE  HeldByLive'
<1> SUFFICES ASSUME crashes' + failures' = 0, NEW k \in Keys, inProgress(keyRow'[k])
             PROVE  \E x \in Requests : /\ KeyOf[x] = k /\ HashOf[x] = keyRow'[k].hash /\ startedAt'[x] = keyRow'[k].createdAt
                                        /\ phase'[x] \in Unfinished
  BY DEF HeldByLive, inProgress, Unfinished
<1>1. crashes + failures = 0
  OBVIOUS
<1>2. keyRow'[k] = keyRow[k] /\ inProgress(keyRow[k])
  OBVIOUS
<1>3. PICK x \in Requests : /\ KeyOf[x] = k /\ HashOf[x] = keyRow[k].hash /\ startedAt[x] = keyRow[k].createdAt
                            /\ phase[x] \in Unfinished
  BY <1>1, <1>2 DEF KeysInv, HeldByLive, Unfinished
<1>4. phase'[r] = to /\ \A y \in Requests \ {r} : phase'[y] = phase[y]
  BY DEF go, KeysInv, IdempotencyTypeOK
<1>5. CASE x # r
  BY <1>2, <1>3, <1>4, <1>5
<1>6. CASE x = r
  BY <1>2, <1>3, <1>6, <1>4 DEF matchesAttempt
<1> QED
  BY <1>5, <1>6

-----------------------------------------------------------------------------
(* Every step keeps the invariant.                                         *)

\* A request starts.
LEMMA InterceptKeeps ==
  ASSUME KeysInv, NEW r \in Requests, intercept(r)
  PROVE  KeysInv'
<1>0. phase[r] = "new" /\ KeyOf[r] \in Keys
  BY IdempotencyAssumption DEF intercept
<1>1. IdempotencyTypeOK'
  BY IdempotencyAssumption DEF intercept, go, KeysInv, IdempotencyTypeOK, Phases, history
<1>2. PhasesTrue'
  BY IdempotencyAssumption DEF intercept, go, KeysInv, IdempotencyTypeOK, PhasesTrue
<1>3. ResponsesTrue' /\ AnswersTrue'
  BY DEF intercept, KeysInv, ResponsesTrue, AnswersTrue, completed
<1>4. EffectsExplained' /\ HoldersExplained'
  BY <1>0, <1>1, QuietMove DEF intercept, history, Phases, isLoose, isKeeping
<1>5. HeldByLive'
  BY <1>0, <1>1, HeldMoved DEF intercept, KeysInv, IdempotencyTypeOK, Phases, Unfinished
<1> QED
  BY <1>1, <1>2, <1>3, <1>4, <1>5 DEF KeysInv

\* A request claims its key, with success or not, or fails while it does.
LEMMA ClaimKeeps ==
  ASSUME KeysInv, NEW r \in Requests, claim(r) \/ beginFails(r)
  PROVE  KeysInv'
<1> DEFINE k == KeyOf[r]
<1>0. k \in Keys /\ phase[r] \in {"claim", "find"}
  BY IdempotencyAssumption DEF claim, beginFails
<1>a. PICK to \in {"run", "find", "end"} :
        /\ go(r, to)
        /\ \/ take(r) /\ to # "find"
           \/ to # "run" /\ UNCHANGED <<keyRow, effects, excuses>>
        /\ to = "end" \/ UNCHANGED <<answer, crashes, failures>>
        /\ to = "end" => reply(r, "error", None) /\ Failure /\ crashes' = crashes
        /\ UNCHANGED <<now, startedAt, tries, outcome>>
  BY DEF claim, history, beginFails, reply
<1>b. to \in Phases
  BY DEF Phases
<1>c. failures' \in 0..MaxFailures /\ crashes' \in 0..MaxCrashes /\ (crashes' + failures' = 0 => to # "end" /\ crashes + failures = 0)
  BY <1>a, IdempotencyAssumption DEF Failure, KeysInv, IdempotencyTypeOK
<1>d. answer' \in [Requests -> Answers] /\ AnswersTrue'
  BY <1>a, AnswersKept, PlainAnswers DEF KeysInv, IdempotencyTypeOK, AnswersTrue
<1>e. phase' \in [Requests -> Phases] /\ phase'[r] = to /\ \A x \in Requests \ {r} : phase'[x] = phase[x]
  BY <1>a, <1>b DEF go, KeysInv, IdempotencyTypeOK
<1>2. PhasesTrue'
  BY <1>0, <1>a, <1>e DEF PhasesTrue, KeysInv
<1>3. CASE take(r) /\ to # "find"
  <2>0. /\ keyRow' \in [Keys -> KeyRows \cup {None}] /\ keyRow'[k] = ClaimedRow(r)
        /\ inProgress(keyRow'[k]) /\ keyRow'[k] # None
        /\ effects' \in [Keys -> SUBSET Requests] /\ excuses' \in [Keys -> Nat]
        /\ \A i \in Keys \ {k} : keyRow'[i] = keyRow[i] /\ effects'[i] = effects[i] /\ excuses'[i] = excuses[i]
        /\ effects'[k] \in {effects[k], {}}
        /\ excuses'[k] = excuses[k] + oneIf(inProgress(keyRow[k]))
        /\ completed(keyRow[k]) => effects'[k] = {}
    BY <1>0, <1>3, TakeDoes
  <2>1. IdempotencyTypeOK'
    BY <1>a, <1>c, <1>d, <1>e, <2>0 DEF KeysInv, IdempotencyTypeOK
  <2>2. ResponsesTrue'
    BY <2>0, <1>a DEF completed, inProgress, ResponsesTrue, KeysInv
  <2>3. EffectsExplained' /\ HoldersExplained'
    <3>1. /\ Cardinality(effects[k]) \in Nat /\ Cardinality(Loose(k)) \in Nat /\ Cardinality(Keeping(k)) \in Nat
          /\ excuses[k] \in Nat /\ oneIf(keyRow[k] # None) \in {0, 1} /\ oneIf(inProgress(keyRow[k])) \in {0, 1}
          /\ Cardinality(effects[k]) + Cardinality(Loose(k)) <= excuses[k] + oneIf(keyRow[k] # None)
          /\ Cardinality(Loose(k)) + Cardinality(Keeping(k)) <= excuses[k] + oneIf(inProgress(keyRow[k]))
      BY <1>0, CountFacts
    <3>2. /\ oneIf(isLoose(phase[r])) = 0 /\ oneIf(isKeeping(phase[r])) = 0
          /\ oneIf(isLoose(to)) \in {0, 1} /\ oneIf(isKeeping(to)) = 0
          /\ oneIf(keyRow'[k] # None) = 1 /\ oneIf(inProgress(keyRow'[k])) = 1
      BY <1>0, <2>0 DEF oneIf, isLoose, isKeeping
    <3>3. Cardinality(effects'[k]) + Cardinality(Loose(k)) <= excuses'[k]
      <4>1. Cardinality({}) = 0
        BY FS_EmptySet
      <4>2. CASE effects'[k] = {}
        BY <2>0, <3>1, <4>1, <4>2
      <4>3. CASE effects'[k] = effects[k] /\ ~completed(keyRow[k])
        BY <4>3, <2>0, <3>1 DEF completed, inProgress, oneIf
      <4> QED
        BY <2>0, <4>2, <4>3
    <3> DEFINE e == Cardinality(effects'[k])
    <3>4. e \in Nat
      BY <1>0, <2>0, RequestSets
    <3> HIDE DEF e
    <3>5. /\ e + Cardinality(Loose(k)) - oneIf(isLoose(phase[r])) + oneIf(isLoose(to)) <= excuses'[k] + oneIf(keyRow'[k] # None)
          /\ Cardinality(Loose(k)) + Cardinality(Keeping(k)) - oneIf(isLoose(phase[r])) - oneIf(isKeeping(phase[r]))
               + oneIf(isLoose(to)) + oneIf(isKeeping(to)) <= excuses'[k] + oneIf(inProgress(keyRow'[k]))
      <4>1. e + Cardinality(Loose(k)) <= excuses'[k]
        BY <3>3 DEF e
      <4>2. excuses'[k] = excuses[k] + oneIf(inProgress(keyRow[k]))
        BY <2>0
      <4> QED
        BY <3>1, <3>2, <3>4, <4>1, <4>2
    <3> QED
      BY <1>0, <1>a, <1>b, <2>0, <2>1, <3>5, MoveExplained DEF e
  <2>4. HeldByLive'
    <3> SUFFICES ASSUME crashes' + failures' = 0, NEW i \in Keys, inProgress(keyRow'[i])
                 PROVE  \E x \in Requests : /\ KeyOf[x] = i /\ HashOf[x] = keyRow'[i].hash /\ startedAt'[x] = keyRow'[i].createdAt
                                            /\ phase'[x] \in Unfinished
      BY DEF HeldByLive, inProgress, Unfinished
    <3>1. CASE i = k
      <4>1. to = "run"
        BY <1>c, <1>3
      <4> QED
        BY <1>a, <1>e, <2>0, <3>1, <4>1 DEF ClaimedRow, Unfinished
    <3>2. CASE i # k
      <4>1. PICK x \in Requests : /\ KeyOf[x] = i /\ HashOf[x] = keyRow[i].hash /\ startedAt[x] = keyRow[i].createdAt
                                  /\ phase[x] \in Unfinished
        BY <1>c, <2>0, <3>2 DEF KeysInv, HeldByLive, Unfinished
      <4> QED
        BY <1>a, <1>e, <2>0, <3>2, <4>1
    <3> QED
      BY <3>1, <3>2
  <2> QED
    BY <1>2, <1>d, <2>1, <2>2, <2>3, <2>4 DEF KeysInv
<1>4. CASE to # "run" /\ UNCHANGED <<keyRow, effects, excuses>>
  <2>1. IdempotencyTypeOK'
    BY <1>4, <1>a, <1>c, <1>d, <1>e DEF KeysInv, IdempotencyTypeOK
  <2>2. ResponsesTrue'
    BY <1>4, <1>a DEF ResponsesTrue, KeysInv, completed
  <2>3. EffectsExplained' /\ HoldersExplained'
    BY <1>4, <1>a, <1>b, <2>1, QuietMove DEF isLoose, isKeeping
  <2>4. HeldByLive'
    BY <1>0, <1>4, <1>a, <1>b, <1>c, <2>1, HeldMoved DEF Unfinished
  <2> QED
    BY <1>2, <1>d, <2>1, <2>2, <2>3, <2>4 DEF KeysInv
<1> QED
  BY <1>3, <1>4, <1>a

\* A request looks at the key it could not claim.
LEMMA FindKeeps ==
  ASSUME KeysInv, NEW r \in Requests, find(r)
  PROVE  KeysInv'
<1> DEFINE x == keyRow[KeyOf[r]]
<1>0. phase[r] = "find" /\ KeyOf[r] \in Keys
  BY IdempotencyAssumption DEF find
<1>1. UNCHANGED <<now, startedAt, outcome, keyRow, effects, excuses, crashes, failures>>
  BY DEF find, history
<1>2. PICK to \in {"claim", "end"} : go(r, to) /\ tries' \in [Requests -> 0..(Tries - 1)]
  BY IdempotencyAssumption DEF KeysInv, IdempotencyTypeOK, find, reply
<1>3. answer' \in [Requests -> Answers] /\ AnswersTrue'
  <2>1. CASE answer' = answer
    BY <1>1, <2>1 DEF KeysInv, IdempotencyTypeOK, AnswersTrue
  <2>2. ASSUME NEW kind \in {"inProgress", "mismatch"}, reply(r, kind, None)
        PROVE  answer' \in [Requests -> Answers] /\ AnswersTrue'
    BY <1>1, <2>2, AnswersKept, PlainAnswers
  <2>3. CASE completed(x) /\ x.hash = HashOf[r] /\ reply(r, x.response.kind, x.response.by)
    <3>1. x.response \in Responses
      BY <1>0, <2>3 DEF completed, KeysInv, IdempotencyTypeOK, KeyRows
    <3>2. x.response.kind \in Kinds /\ x.response.by \in Requests
      BY <3>1 DEF Responses
    <3>3. <<x.response.kind, x.response.by>> \in Answers
      BY <3>2 DEF Answers
    <3>4. KeyOf[x.response.by] = KeyOf[r] /\ HashOf[x.response.by] = HashOf[r] /\ outcome[x.response.by] = x.response.kind
      BY <1>0, <2>3 DEF KeysInv, ResponsesTrue
    <3> QED
      BY <1>1, <2>3, <3>3, <3>4, AnswersKept
  <2> QED
    BY <2>1, <2>2, <2>3 DEF find
<1>4. phase' \in [Requests -> Phases] /\ phase'[r] = to /\ \A y \in Requests \ {r} : phase'[y] = phase[y]
  BY <1>2 DEF go, KeysInv, IdempotencyTypeOK, Phases
<1>5. IdempotencyTypeOK'
  BY <1>1, <1>2, <1>3, <1>4 DEF KeysInv, IdempotencyTypeOK
<1>6. PhasesTrue' /\ ResponsesTrue'
  BY <1>0, <1>1, <1>4 DEF KeysInv, PhasesTrue, ResponsesTrue, completed
<1>7. EffectsExplained' /\ HoldersExplained'
  BY <1>1, <1>2, <1>5, QuietMove DEF isLoose, isKeeping, Phases
<1>8. HeldByLive'
  BY <1>0, <1>1, <1>2, <1>5, HeldMoved DEF Unfinished, Phases
<1> QED
  BY <1>3, <1>5, <1>6, <1>7, <1>8 DEF KeysInv

\* Counts that only grow were zero if they are.
LEMMA NoneYet ==
  ASSUME NEW x \in Nat, NEW y \in Nat, NEW z \in Nat, z >= y
  PROVE  x + z = 0 => x + y = 0
OBVIOUS

\* The operation of a request ends, which nobody has been told of yet; when it fails with its work done, late, its key
\* gets an excuse.
LEMMA OperateKeeps ==
  ASSUME KeysInv, NEW r \in Requests, NEW how \in Outcomes \ {"none"}, NEW late \in {0, 1},
         \/ operate(r, how) /\ late = 0
         \/ failsDone(r) /\ how = "error" /\ late = 1
  PROVE  KeysInv'
<1> DEFINE k == KeyOf[r]
           to == CASE how = "success" -> "keepSuccess" [] how = "problem" -> "keepProblem" [] how = "error" -> "release"
<1>0. k \in Keys /\ phase[r] = "run" /\ outcome[r] = "none" /\ how \in {"success", "problem", "error"}
  BY IdempotencyAssumption DEF operate, failsDone, KeysInv, PhasesTrue, Outcomes
<1>1. /\ to \in {"keepSuccess", "keepProblem", "release"} /\ go(r, to)
      /\ to = "keepSuccess" <=> how = "success"
      /\ to = "keepProblem" <=> how = "problem"
  BY <1>0 DEF operate, failsDone
<1> HIDE DEF to
<1>2. /\ outcome' \in [Requests -> Outcomes] /\ outcome'[r] = how
      /\ \A y \in Requests \ {r} : outcome'[y] = outcome[y]
  BY DEF operate, failsDone, KeysInv, IdempotencyTypeOK
<1>3. phase' \in [Requests -> Phases] /\ phase'[r] = to /\ \A y \in Requests \ {r} : phase'[y] = phase[y]
  BY <1>1 DEF go, KeysInv, IdempotencyTypeOK, Phases
<1>4. /\ effects' \in [Keys -> SUBSET Requests]
      /\ effects'[k] = IF how = "success" \/ late = 1 THEN effects[k] \cup {r} ELSE effects[k]
      /\ \A i \in Keys \ {k} : effects'[i] = effects[i]
  <2>1. effects' = [effects EXCEPT ![k] = IF how = "success" \/ late = 1 THEN @ \cup {r} ELSE @]
    BY <1>0 DEF operate, failsDone
  <2>2. effects \in [Keys -> SUBSET Requests]
    BY DEF KeysInv, IdempotencyTypeOK
  <2>3. (IF how = "success" \/ late = 1 THEN effects[k] \cup {r} ELSE effects[k]) \in SUBSET Requests
    BY <1>0, <2>2
  <2> HIDE DEF k
  <2> QED
    BY <1>0, <2>1, <2>2, <2>3
<1>5. /\ UNCHANGED <<now, startedAt, tries, answer, keyRow, crashes>>
      /\ failures' \in 0..MaxFailures /\ failures' >= failures
  BY IdempotencyAssumption DEF operate, failsDone, Failure, KeysInv, IdempotencyTypeOK
<1>12. /\ excuses' \in [Keys -> Nat] /\ excuses'[k] = excuses[k] + late
       /\ \A i \in Keys \ {k} : excuses'[i] = excuses[i]
  BY <1>0 DEF operate, failsDone, KeysInv, IdempotencyTypeOK
<1>6. IdempotencyTypeOK'
  BY <1>2, <1>3, <1>4, <1>5, <1>12 DEF KeysInv, IdempotencyTypeOK
<1>7. PhasesTrue'
  BY <1>0, <1>1, <1>2, <1>3, <1>5 DEF KeysInv, PhasesTrue
<1>8. AnswersTrue'
  BY <1>5, <1>0, <1>2 DEF AnswersTrue, KeysInv, IdempotencyTypeOK, Answers, Kinds
<1>9. ResponsesTrue'
  <2> SUFFICES ASSUME NEW i \in Keys, completed(keyRow[i])
               PROVE  LET x == keyRow[i] IN
                      KeyOf[x.response.by] = i /\ HashOf[x.response.by] = x.hash /\ outcome'[x.response.by] = x.response.kind
    BY <1>5 DEF ResponsesTrue, completed
  <2>1. keyRow[i].response \in Responses
    BY DEF completed, KeysInv, IdempotencyTypeOK, KeyRows
  <2>2. keyRow[i].response.by \in Requests /\ keyRow[i].response.kind \in Kinds
    BY <2>1 DEF Responses
  <2>3. keyRow[i].response.by # r
    BY <1>0, <2>2 DEF KeysInv, ResponsesTrue, Kinds
  <2> QED
    BY <1>2, <2>2, <2>3 DEF KeysInv, ResponsesTrue
<1>10. EffectsExplained' /\ HoldersExplained'
  <2> DEFINE e == Cardinality(effects'[k])
  <2>1. e \in Nat /\ e <= Cardinality(effects[k]) + oneIf(how = "success") + late
    <3>0. effects[k] \in SUBSET Requests /\ Cardinality(effects[k]) \in Nat
      BY <1>0, RequestSets DEF KeysInv, IdempotencyTypeOK
    <3>1. effects'[k] \in SUBSET Requests
      BY <1>0, <1>4
    <3>2. e \in Nat
      BY <3>1, RequestSets
    <3>3. CASE how = "success" \/ late = 1
      <4>1. e <= Cardinality(effects[k]) + 1
        BY <1>4, <3>3, <3>0, OneMore
      <4> QED
        BY <3>3, <3>0, <3>2, <4>1 DEF oneIf
    <3>4. CASE how # "success" /\ late = 0
      BY <1>4, <3>4, <3>0, <3>2 DEF oneIf
    <3> QED
      BY <3>3, <3>4
  <2>2. /\ oneIf(isLoose(phase[r])) = 1 /\ oneIf(isKeeping(phase[r])) = 0
        /\ oneIf(isLoose(to)) \in {0, 1} /\ oneIf(isKeeping(to)) \in {0, 1} /\ oneIf(how = "success") \in {0, 1}
        /\ oneIf(isLoose(to)) + oneIf(how = "success") <= 1
        /\ oneIf(isLoose(to)) + oneIf(isKeeping(to)) = 1
    BY <1>0, <1>1 DEF oneIf, isLoose, isKeeping
  <2>3. /\ Cardinality(effects[k]) \in Nat /\ Cardinality(Loose(k)) \in Nat /\ Cardinality(Keeping(k)) \in Nat
        /\ excuses[k] \in Nat /\ oneIf(keyRow[k] # None) \in {0, 1} /\ oneIf(inProgress(keyRow[k])) \in {0, 1}
        /\ Cardinality(effects[k]) + Cardinality(Loose(k)) <= excuses[k] + oneIf(keyRow[k] # None)
        /\ Cardinality(Loose(k)) + Cardinality(Keeping(k)) <= excuses[k] + oneIf(inProgress(keyRow[k]))
    BY <1>0, CountFacts
  <2> HIDE DEF e
  <2>4. /\ e + Cardinality(Loose(k)) - oneIf(isLoose(phase[r])) + oneIf(isLoose(to)) <= excuses[k] + late + oneIf(keyRow[k] # None)
        /\ Cardinality(Loose(k)) + Cardinality(Keeping(k)) - oneIf(isLoose(phase[r])) - oneIf(isKeeping(phase[r]))
             + oneIf(isLoose(to)) + oneIf(isKeeping(to)) <= excuses[k] + late + oneIf(inProgress(keyRow[k]))
    BY <2>1, <2>2, <2>3
  <2>5. to \in Phases
    BY <1>1 DEF Phases
  <2>6. \A i \in Keys \ {k} : keyRow'[i] = keyRow[i] /\ effects'[i] = effects[i] /\ excuses'[i] = excuses[i]
    BY <1>4, <1>5, <1>12
  <2>7. Cardinality(effects'[k]) + Cardinality(Loose(k)) - oneIf(isLoose(phase[r])) + oneIf(isLoose(to))
          <= excuses'[k] + oneIf(keyRow'[k] # None)
    BY <1>5, <1>12, <2>4 DEF e
  <2>8. Cardinality(Loose(k)) + Cardinality(Keeping(k)) - oneIf(isLoose(phase[r])) - oneIf(isKeeping(phase[r]))
          + oneIf(isLoose(to)) + oneIf(isKeeping(to)) <= excuses'[k] + oneIf(inProgress(keyRow'[k]))
    BY <1>5, <1>12, <2>4
  <2>9. k \in Keys /\ k = KeyOf[r] /\ go(r, to)
    BY <1>0, <1>1
  <2> HIDE DEF k
  <2> QED
    BY <1>6, <2>5, <2>6, <2>7, <2>8, <2>9, MoveExplained
<1>11. HeldByLive'
  <2>0. crashes' = crashes /\ crashes \in Nat /\ failures \in Nat /\ failures' \in Nat /\ failures' >= failures
    BY <1>5, IdempotencyAssumption DEF KeysInv, IdempotencyTypeOK
  <2>1. crashes' + failures' = 0 => crashes + failures = 0
    BY <2>0, NoneYet
  <2>2. UNCHANGED <<startedAt, keyRow>> /\ to \in Unfinished /\ to \in Phases
    BY <1>1, <1>5 DEF Unfinished, Phases
  <2> QED
    BY <1>1, <1>6, <2>1, <2>2, HeldMoved
<1> QED
  BY <1>6, <1>7, <1>8, <1>9, <1>10, <1>11 DEF KeysInv

\* What a request keeps, or tries to keep, and frees: the end of its work.
\* A step that may change the row of its key to one that is kept, freed or the same.
LEMMA KeepKeeps ==
  ASSUME KeysInv, NEW r \in Requests, NEW kind \in Kinds, complete(r, kind) \/ completeFails(r, kind)
  PROVE  KeysInv'
<1> DEFINE k == KeyOf[r]
           from == IF kind = "success" THEN "keepSuccess" ELSE "keepProblem"
<1>0. k \in Keys /\ phase[r] = from /\ from \in {"keepSuccess", "keepProblem"} /\ outcome[r] = kind
  BY IdempotencyAssumption DEF complete, completeFails, KeysInv, PhasesTrue, Kinds
<1>1. keyRow' \in {keyRow, Kept(r, kind)}
  BY DEF complete, completeFails
<1>2. PICK to \in {"release", "end"} : go(r, to) /\ (to = "release" => completeFails(r, kind) /\ kind = "success")
  BY DEF complete, completeFails, reply
<1>3. /\ excuses' \in [Keys -> Nat] /\ \A i \in Keys \ {k} : excuses'[i] = excuses[i]
      /\ excuses'[k] \in {excuses[k], excuses[k] + 1} /\ (to = "release" => excuses'[k] = excuses[k] + 1)
  BY <1>0, <1>2 DEF complete, completeFails, KeysInv, IdempotencyTypeOK, history
<1>4. UNCHANGED <<now, startedAt, tries, outcome, effects, crashes>>
  BY DEF complete, completeFails, history
<1>5. failures' \in 0..MaxFailures /\ (crashes' + failures' = 0 => complete(r, kind) /\ crashes + failures = 0)
  BY <1>4, IdempotencyAssumption DEF complete, KeysInv, IdempotencyTypeOK, completeFails, Failure
<1>6. answer' \in [Requests -> Answers] /\ AnswersTrue'
  <2>1. CASE complete(r, kind)
    BY <1>0, <1>4, <2>1, AnswersKept DEF Answers, complete
  <2>2. CASE completeFails(r, kind) /\ answer' = answer
    BY <1>4, <2>2 DEF KeysInv, IdempotencyTypeOK, AnswersTrue
  <2>3. CASE completeFails(r, kind) /\ reply(r, "error", None)
    BY <1>4, <2>3, AnswersKept, PlainAnswers
  <2> QED
    BY <2>1, <2>2, <2>3 DEF completeFails
<1>7. phase' \in [Requests -> Phases] /\ phase'[r] = to /\ \A y \in Requests \ {r} : phase'[y] = phase[y]
  BY <1>2 DEF go, KeysInv, IdempotencyTypeOK, Phases
<1>8. /\ keyRow' \in [Keys -> KeyRows \cup {None}]
      /\ \A i \in Keys \ {k} : keyRow'[i] = keyRow[i]
      /\ \/ keyRow' = keyRow
         \/ /\ matchesAttempt(r) /\ inProgress(keyRow[k]) /\ completed(keyRow'[k])
            /\ keyRow'[k].hash = HashOf[r] /\ keyRow'[k].response = [kind |-> kind, by |-> r]
  BY <1>0, <1>1, KeptDoes DEF KeysInv, IdempotencyTypeOK
<1>9. IdempotencyTypeOK'
  BY <1>3, <1>4, <1>5, <1>6, <1>7, <1>8 DEF KeysInv, IdempotencyTypeOK
<1>10. PhasesTrue'
  BY <1>2, <1>4, <1>7 DEF KeysInv, PhasesTrue
<1>11. ResponsesTrue'
  BY <1>0, <1>4, <1>8 DEF KeysInv, ResponsesTrue, completed
<1>12. EffectsExplained' /\ HoldersExplained'
  <2>1. /\ oneIf(isLoose(phase[r])) = 0 /\ oneIf(isKeeping(phase[r])) = 1
        /\ oneIf(isLoose(to)) = oneIf(to = "release") /\ oneIf(isKeeping(to)) = 0 /\ oneIf(to = "release") \in {0, 1}
    BY <1>0 DEF oneIf, isLoose, isKeeping
  <2>2. /\ Cardinality(effects[k]) \in Nat /\ Cardinality(Loose(k)) \in Nat /\ Cardinality(Keeping(k)) \in Nat
        /\ excuses[k] \in Nat /\ oneIf(keyRow[k] # None) \in {0, 1} /\ oneIf(inProgress(keyRow[k])) \in {0, 1}
        /\ Cardinality(effects[k]) + Cardinality(Loose(k)) <= excuses[k] + oneIf(keyRow[k] # None)
        /\ Cardinality(Loose(k)) + Cardinality(Keeping(k)) <= excuses[k] + oneIf(inProgress(keyRow[k]))
    BY <1>0, CountFacts
  <2>3. /\ oneIf(keyRow'[k] # None) = oneIf(keyRow[k] # None)
        /\ oneIf(inProgress(keyRow'[k])) \in {0, 1} /\ oneIf(inProgress(keyRow'[k])) >= oneIf(inProgress(keyRow[k])) - 1
    BY <1>8 DEF oneIf, inProgress, completed
  <2>4. excuses'[k] \in Nat /\ excuses'[k] >= excuses[k] + oneIf(to = "release")
    BY <1>0, <1>3, <2>2 DEF oneIf
  <2>5. /\ Cardinality(effects[k]) + Cardinality(Loose(k)) - oneIf(isLoose(phase[r])) + oneIf(isLoose(to))
             <= excuses'[k] + oneIf(keyRow'[k] # None)
        /\ Cardinality(Loose(k)) + Cardinality(Keeping(k)) - oneIf(isLoose(phase[r])) - oneIf(isKeeping(phase[r]))
             + oneIf(isLoose(to)) + oneIf(isKeeping(to)) <= excuses'[k] + oneIf(inProgress(keyRow'[k]))
    BY <2>1, <2>2, <2>3, <2>4
  <2>6. to \in Phases
    BY DEF Phases
  <2> QED
    BY <1>0, <1>2, <1>3, <1>4, <1>8, <1>9, <2>5, <2>6, MoveExplained
<1>13. HeldByLive'
  <2>1. \A i \in Keys : inProgress(keyRow'[i]) => keyRow'[i] = keyRow[i]
    BY <1>8 DEF inProgress, completed
  <2>2. crashes' + failures' # 0 \/ ~inProgress(keyRow'[k]) \/ ~matchesAttempt(r)
    <3>1. CASE complete(r, kind)
      <4>1. keyRow' = Kept(r, kind)
        BY <3>1 DEF complete
      <4>2. ~matchesAttempt(r) \/ completed(Kept(r, kind)[k])
        BY <1>0, KeptDoes
      <4> QED
        BY <4>1, <4>2 DEF inProgress, completed
    <3> QED
      BY <1>5, <3>1
  <2> QED
    BY <1>2, <1>4, <1>5, <1>9, <2>1, <2>2, HeldMoved DEF Phases
<1> QED
  BY <1>6, <1>9, <1>10, <1>11, <1>12, <1>13 DEF KeysInv

\* A request frees its key, or fails to, or is cut off.
LEMMA EndKeeps ==
  ASSUME KeysInv, NEW r \in Requests, release(r) \/ releaseFails(r) \/ cutOff(r)
  PROVE  KeysInv'
<1> DEFINE k == KeyOf[r]
<1>0. k \in Keys /\ phase[r] \notin {"new", "end"} /\ phase[r] \in Phases
  BY IdempotencyAssumption DEF release, releaseFails, cutOff, KeysInv, IdempotencyTypeOK
<1>1. /\ UNCHANGED <<now, startedAt, tries, outcome, effects, excuses>>
      /\ go(r, "end") /\ \E kind \in {"error", "cut"} : reply(r, kind, None)
      /\ keyRow' = keyRow \/ (phase[r] = "release" /\ keyRow' = Released(r))
  BY DEF release, releaseFails, cutOff, reply, history
<1>2. /\ crashes' \in 0..MaxCrashes /\ failures' \in 0..MaxFailures
      /\ crashes' + failures' = 0 => release(r) /\ crashes + failures = 0
  BY IdempotencyAssumption DEF release, KeysInv, IdempotencyTypeOK, releaseFails, Failure, cutOff
<1>3. answer' \in [Requests -> Answers] /\ AnswersTrue'
  BY <1>1, AnswersKept, PlainAnswers
<1>4. phase' \in [Requests -> Phases] /\ phase'[r] = "end" /\ \A y \in Requests \ {r} : phase'[y] = phase[y]
  BY <1>1 DEF go, KeysInv, IdempotencyTypeOK, Phases
<1>5. /\ keyRow' \in [Keys -> KeyRows \cup {None}]
      /\ \A i \in Keys \ {k} : keyRow'[i] = keyRow[i]
      /\ \/ keyRow' = keyRow
         \/ phase[r] = "release" /\ inProgress(keyRow[k]) /\ keyRow'[k] = None
  BY <1>0, <1>1, ReleasedDoes DEF KeysInv, IdempotencyTypeOK
<1>6. IdempotencyTypeOK'
  BY <1>1, <1>2, <1>3, <1>4, <1>5 DEF KeysInv, IdempotencyTypeOK
<1>7. PhasesTrue' /\ ResponsesTrue'
  BY <1>1, <1>4, <1>5 DEF KeysInv, PhasesTrue, ResponsesTrue, completed
<1>8. EffectsExplained' /\ HoldersExplained'
  <2>1. /\ oneIf(isLoose(phase[r])) \in {0, 1} /\ oneIf(isKeeping(phase[r])) \in {0, 1}
        /\ oneIf(isLoose("end")) = 0 /\ oneIf(isKeeping("end")) = 0
    BY DEF oneIf, isLoose, isKeeping
  <2>2. /\ Cardinality(effects[k]) \in Nat /\ Cardinality(Loose(k)) \in Nat /\ Cardinality(Keeping(k)) \in Nat
        /\ excuses[k] \in Nat /\ oneIf(keyRow[k] # None) \in {0, 1} /\ oneIf(inProgress(keyRow[k])) \in {0, 1}
        /\ Cardinality(effects[k]) + Cardinality(Loose(k)) <= excuses[k] + oneIf(keyRow[k] # None)
        /\ Cardinality(Loose(k)) + Cardinality(Keeping(k)) <= excuses[k] + oneIf(inProgress(keyRow[k]))
    BY <1>0, CountFacts
  <2>3. /\ oneIf(keyRow'[k] # None) \in {0, 1} /\ oneIf(keyRow'[k] # None) >= oneIf(keyRow[k] # None) - oneIf(isLoose(phase[r]))
        /\ oneIf(inProgress(keyRow'[k])) \in {0, 1}
        /\ oneIf(inProgress(keyRow'[k])) >= oneIf(inProgress(keyRow[k])) - oneIf(isLoose(phase[r]))
    BY <1>5 DEF oneIf, inProgress, isLoose
  <2>4. /\ Cardinality(effects[k]) + Cardinality(Loose(k)) - oneIf(isLoose(phase[r])) + oneIf(isLoose("end"))
             <= excuses[k] + oneIf(keyRow'[k] # None)
        /\ Cardinality(Loose(k)) + Cardinality(Keeping(k)) - oneIf(isLoose(phase[r])) - oneIf(isKeeping(phase[r]))
             + oneIf(isLoose("end")) + oneIf(isKeeping("end")) <= excuses[k] + oneIf(inProgress(keyRow'[k]))
    BY <2>1, <2>2, <2>3
  <2>5. "end" \in Phases
    BY DEF Phases
  <2> QED
    BY <1>0, <1>1, <1>5, <1>6, <2>4, <2>5, MoveExplained
<1>9. HeldByLive'
  <2>1. \A i \in Keys : inProgress(keyRow'[i]) => keyRow'[i] = keyRow[i]
    BY <1>5 DEF inProgress
  <2>2. crashes' + failures' # 0 \/ ~inProgress(keyRow'[k]) \/ ~matchesAttempt(r)
    BY <1>0, ReleasedDoes, <1>2 DEF release, inProgress
  <2> QED
    BY <1>1, <1>2, <1>6, <2>1, <2>2, HeldMoved DEF Phases
<1> QED
  BY <1>3, <1>6, <1>7, <1>8, <1>9 DEF KeysInv

\* The jobs that end the life of a key, and the clock.
LEMMA JobsKeepKeys ==
  ASSUME KeysInv, NEW k \in Keys, cleanUp(k) \/ forget(k)
  PROVE  KeysInv'
<1>1. UNCHANGED <<now, phase, startedAt, tries, outcome, answer, crashes, failures>>
  BY DEF cleanUp, forget, requestVars
<1>2. /\ keyRow' \in [Keys -> KeyRows \cup {None}] /\ keyRow'[k] = None
      /\ effects' \in [Keys -> SUBSET Requests] /\ effects'[k] = {}
      /\ excuses' \in [Keys -> Nat] /\ excuses'[k] = excuses[k] + oneIf(inProgress(keyRow[k]))
      /\ \A i \in Keys \ {k} : keyRow'[i] = keyRow[i] /\ effects'[i] = effects[i] /\ excuses'[i] = excuses[i]
  <2>1. CASE cleanUp(k)
    BY <2>1 DEF cleanUp, KeysInv, IdempotencyTypeOK, oneIf
  <2>2. CASE forget(k)
    BY <2>2 DEF forget, completed, inProgress, KeysInv, IdempotencyTypeOK, oneIf
  <2> QED
    BY <2>1, <2>2
<1>3. IdempotencyTypeOK'
  BY <1>1, <1>2 DEF KeysInv, IdempotencyTypeOK
<1>4. PhasesTrue' /\ AnswersTrue'
  BY <1>1 DEF KeysInv, PhasesTrue, AnswersTrue
<1>5. ResponsesTrue'
  BY <1>1, <1>2 DEF KeysInv, ResponsesTrue, completed
<1>6. EffectsExplained' /\ HoldersExplained'
  <2>0. \A i \in Keys : Loose(i)' = Loose(i) /\ Keeping(i)' = Keeping(i)
    BY <1>1 DEF Loose, Keeping
  <2>1. ASSUME NEW i \in Keys
        PROVE  /\ Cardinality(effects'[i]) + Cardinality(Loose(i)) <= excuses'[i] + oneIf(keyRow'[i] # None)
               /\ Cardinality(Loose(i)) + Cardinality(Keeping(i)) <= excuses'[i] + oneIf(inProgress(keyRow'[i]))
    <3>1. CASE i # k
      BY <1>2, <3>1, CountFacts
    <3>2. CASE i = k
      <4>1. /\ Cardinality(Loose(k)) \in Nat /\ Cardinality(Keeping(k)) \in Nat
            /\ excuses[k] \in Nat /\ oneIf(inProgress(keyRow[k])) \in {0, 1}
            /\ Cardinality(Loose(k)) + Cardinality(Keeping(k)) <= excuses[k] + oneIf(inProgress(keyRow[k]))
        BY CountFacts
      <4>2. Cardinality(effects'[k]) = 0
        BY <1>2, FS_EmptySet
      <4>3. oneIf(keyRow'[k] # None) = 0 /\ oneIf(inProgress(keyRow'[k])) = 0 /\ excuses'[k] = excuses[k] + oneIf(inProgress(keyRow[k]))
        BY <1>2 DEF oneIf, inProgress
      <4> QED
        BY <3>2, <4>1, <4>2, <4>3
    <3> QED
      BY <3>1, <3>2
  <2>2. \A i \in Keys : inProgress(keyRow[i])' <=> inProgress(keyRow'[i])
    BY DEF inProgress
  <2> QED
    BY <2>0, <2>1, <2>2 DEF EffectsExplained, HoldersExplained, oneIf
<1>7. HeldByLive'
  BY <1>1, <1>2 DEF KeysInv, HeldByLive, inProgress
<1> QED
  BY <1>3, <1>4, <1>5, <1>6, <1>7 DEF KeysInv

\* The clock, and steps of others.
LEMMA ClockKeepsKeys ==
  ASSUME KeysInv, passRequestTime \/ UNCHANGED idempotencyVars
  PROVE  KeysInv'
<1>1. UNCHANGED <<phase, startedAt, tries, outcome, answer, keyRow, effects, excuses, crashes, failures>>
  BY DEF passRequestTime, idempotencyVars, requestVars, history
<1>2. now' \in 0..MaxTime /\ now' >= now /\ now \in 0..MaxTime
  BY IdempotencyAssumption DEF passRequestTime, idempotencyVars, KeysInv, IdempotencyTypeOK
<1>3. IdempotencyTypeOK'
  BY <1>1, <1>2 DEF KeysInv, IdempotencyTypeOK
<1>4. PhasesTrue'
  BY <1>1, <1>2, IdempotencyAssumption DEF KeysInv, PhasesTrue, IdempotencyTypeOK
<1>5. AnswersTrue' /\ ResponsesTrue'
  BY <1>1 DEF KeysInv, AnswersTrue, ResponsesTrue, completed
<1>6. EffectsExplained' /\ HoldersExplained'
  BY <1>1 DEF KeysInv, EffectsExplained, HoldersExplained, Loose, Keeping, inProgress, oneIf
<1>7. HeldByLive'
  BY <1>1 DEF KeysInv, HeldByLive, inProgress
<1> QED
  BY <1>3, <1>4, <1>5, <1>6, <1>7 DEF KeysInv

\* The empty table satisfies the invariant.
LEMMA NoKeysYet ==
  ASSUME IdempotencyInit
  PROVE  KeysInv
<1>1. IdempotencyTypeOK
  <2>1. <<"none", None>> \in Answers
    BY PlainAnswers
  <2>2. answer \in [Requests -> Answers]
    BY <2>1 DEF IdempotencyInit
  <2>3. tries \in [Requests -> 0..(Tries - 1)]
    BY IdempotencyAssumption DEF IdempotencyInit
  <2>4. now \in 0..MaxTime /\ crashes \in 0..MaxCrashes /\ failures \in 0..MaxFailures
    BY IdempotencyAssumption DEF IdempotencyInit
  <2>5. /\ phase \in [Requests -> Phases] /\ startedAt \in [Requests -> Nat] /\ outcome \in [Requests -> Outcomes]
        /\ effects \in [Keys -> SUBSET Requests] /\ excuses \in [Keys -> Nat]
    BY DEF IdempotencyInit, Phases, Outcomes
  <2>6. keyRow \in [Keys -> KeyRows \cup {None}]
    BY DEF IdempotencyInit
  <2> QED
    BY <2>2, <2>3, <2>4, <2>5, <2>6 DEF IdempotencyTypeOK
<1>2. PhasesTrue /\ ResponsesTrue /\ HeldByLive
  BY DEF IdempotencyInit, PhasesTrue, ResponsesTrue, completed, HeldByLive, inProgress
<1>3. AnswersTrue
  BY DEF IdempotencyInit, AnswersTrue, Kinds
<1>4. EffectsExplained /\ HoldersExplained
  <2>1. \A k \in Keys : effects[k] = {} /\ Loose(k) = {} /\ Keeping(k) = {} /\ excuses[k] = 0
    BY DEF IdempotencyInit, Loose, Keeping
  <2>2. Cardinality({}) = 0
    BY FS_EmptySet
  <2>3. ASSUME NEW k \in Keys
        PROVE  /\ Cardinality(effects[k]) = 0 /\ Cardinality(Loose(k)) = 0 /\ Cardinality(Keeping(k)) = 0 /\ excuses[k] = 0
               /\ keyRow[k] = None
    BY <2>1, <2>2 DEF IdempotencyInit
  <2> QED
    BY <2>3 DEF EffectsExplained, HoldersExplained, oneIf, inProgress
<1> QED
  BY <1>1, <1>2, <1>3, <1>4 DEF KeysInv

\* Every step of every request, job and clock keeps the invariant.
LEMMA KeysStep ==
  ASSUME KeysInv, [IdempotencyNext]_idempotencyVars
  PROVE  KeysInv'
<1>1. ASSUME NEW r \in Requests, intercept(r) \/ claim(r) \/ find(r) \/ beginFails(r)
      PROVE  KeysInv'
  BY <1>1, InterceptKeeps, ClaimKeeps, FindKeeps
<1>2. ASSUME NEW r \in Requests, failsDone(r) \/ \E how \in Outcomes \ {"none"} : operate(r, how)
      PROVE  KeysInv'
  BY <1>2, OperateKeeps DEF Outcomes
<1>3. ASSUME NEW r \in Requests, NEW kind \in Kinds, complete(r, kind) \/ completeFails(r, kind)
      PROVE  KeysInv'
  BY <1>3, KeepKeeps
<1>4. ASSUME NEW r \in Requests, release(r) \/ releaseFails(r) \/ cutOff(r)
      PROVE  KeysInv'
  BY <1>4, EndKeeps
<1>5. ASSUME NEW k \in Keys, cleanUp(k) \/ forget(k)
      PROVE  KeysInv'
  BY <1>5, JobsKeepKeys
<1>6. CASE passRequestTime \/ UNCHANGED idempotencyVars
  BY <1>6, ClockKeepsKeys
<1> QED
  BY <1>1, <1>2, <1>3, <1>4, <1>5, <1>6 DEF IdempotencyNext

\* The invariant has what the clients are promised.
LEMMA KeysPromise ==
  ASSUME KeysInv
  PROVE  IdempotencyTypeOK /\ AnswersTrue /\ RepeatsExplained /\ HeldByLive
<1>1. ASSUME NEW k \in Keys
      PROVE  Cardinality(effects[k]) <= 1 + excuses[k]
  BY CountFacts
<1> QED
  BY <1>1 DEF KeysInv, RepeatsExplained

\* A response that is kept and has not expired is replaced by nobody: a claim needs it expired when the request came,
\* and a late end of another request matches only a row in progress.
LEMMA KeptStays ==
  ASSUME KeysInv, [IdempotencyNext]_idempotencyVars, NEW k \in Keys, completed(keyRow[k]), ~ExpiredRow(keyRow[k], now)
  PROVE  keyRow'[k] \in {keyRow[k], None}
<1>0. keyRow \in [Keys -> KeyRows \cup {None}] /\ KeyOf \in [Requests -> Keys]
  BY IdempotencyAssumption DEF KeysInv, IdempotencyTypeOK
<1>1. ASSUME NEW r \in Requests, take(r)
      PROVE  keyRow'[k] = keyRow[k]
  <2>1. CASE KeyOf[r] = k
    <3>1. ExpiredRow(keyRow[k], startedAt[r])
      BY <1>1, <2>1 DEF take, Takeable, completed, TakenOver, inProgress
    <3>2. keyRow[k].expiresAt \in Nat /\ startedAt[r] \in Nat /\ now \in Nat /\ startedAt[r] <= now
      BY <1>0, IdempotencyAssumption DEF completed, KeyRows, KeysInv, IdempotencyTypeOK, PhasesTrue
    <3>3. ExpiredRow(keyRow[k], now)
      BY <3>1, <3>2 DEF ExpiredRow
    <3> QED
      BY <3>3
  <2>2. CASE KeyOf[r] # k
    BY <1>0, <1>1, <2>2, TakeDoes
  <2> QED
    BY <2>1, <2>2
<1>2. ASSUME NEW r \in Requests, NEW kind \in Kinds
      PROVE  Kept(r, kind)[k] = keyRow[k] /\ Released(r)[k] = keyRow[k]
  <2>0. KeyOf[r] \in Keys
    BY <1>0
  <2>1. KeyOf[r] = k => ~matchesAttempt(r)
    BY DEF matchesAttempt, inProgress, completed
  <2>2. Kept(r, kind)[k] = keyRow[k]
    BY <2>1, <1>0, <2>0 DEF Kept
  <2>3. Released(r)[k] = keyRow[k]
    BY <2>0, <2>1, ReleasedDoes
  <2> QED
    BY <2>2, <2>3
<1>3. ASSUME NEW r \in Requests, intercept(r) \/ claim(r) \/ find(r) \/ beginFails(r) \/ cutOff(r)
      PROVE  keyRow'[k] = keyRow[k]
  BY <1>1, <1>3 DEF intercept, claim, find, beginFails, cutOff
<1>4. ASSUME NEW r \in Requests, failsDone(r) \/ \E how \in Outcomes \ {"none"} : operate(r, how)
      PROVE  keyRow'[k] = keyRow[k]
  BY <1>4 DEF operate, failsDone
<1>5. ASSUME NEW r \in Requests, NEW kind \in Kinds, complete(r, kind) \/ completeFails(r, kind)
      PROVE  keyRow'[k] = keyRow[k]
  BY <1>2, <1>5 DEF complete, completeFails
<1>6. ASSUME NEW r \in Requests, release(r) \/ releaseFails(r)
      PROVE  keyRow'[k] = keyRow[k]
  BY <1>6, <1>2 DEF release, releaseFails, Kinds
<1>7. ASSUME NEW i \in Keys, cleanUp(i) \/ forget(i)
      PROVE  keyRow'[k] \in {keyRow[k], None}
  BY <1>0, <1>7 DEF cleanUp, forget
<1>8. CASE passRequestTime \/ UNCHANGED idempotencyVars
  BY <1>8 DEF passRequestTime, idempotencyVars
<1> QED
  BY <1>3, <1>4, <1>5, <1>6, <1>7, <1>8 DEF IdempotencyNext

\* Requests with the same key, for any number of them and any crashes and failures: clients are told what really
\* happened, an operation is repeated only with an excuse, without failures no key stays locked, and a kept response
\* is not replaced (IdempotencyInterceptor, IdempotencyStore).
THEOREM KeysAreAlwaysHonest == IdempotencySpec => KeysAreHonest
<1>1. IdempotencyInit => KeysInv
  BY NoKeysYet
<1>2. KeysInv /\ [IdempotencyNext]_idempotencyVars => KeysInv'
  BY KeysStep
<1>3. KeysInv => IdempotencyTypeOK /\ AnswersTrue /\ RepeatsExplained /\ HeldByLive
  BY KeysPromise
<1>4. KeysInv /\ [IdempotencyNext]_idempotencyVars =>
        [\A k \in Keys : completed(keyRow[k]) /\ ~ExpiredRow(keyRow[k], now) => keyRow'[k] \in {keyRow[k], None}]_idempotencyVars
  BY KeptStays
<1> QED
  BY <1>1, <1>2, <1>3, <1>4, PTL DEF IdempotencySpec, KeysAreHonest, KeptIsStable

-----------------------------------------------------------------------------
(* The jobs of a process, and the one that archives.                       *)

\* The runs of the map.
RunsInMap == {<<j, running[j]>> : j \in {i \in Jobs : running[i] # 0}}

\* The shutdown waits for all the runs of the map, and nothing adds to them while it does.
JobRunsInv ==
  /\ JobsDoNotOverlap
  /\ running \in [Jobs -> Nat] /\ started \in [Jobs -> Nat] /\ DOMAIN working = Jobs
  /\ process \in {"up", "stopping", "closed"}
  /\ process = "stopping" => ~accepting /\ awaited = RunsInMap
  /\ process = "closed" => ~accepting /\ RunsInMap = {}

\* A run ends: it leaves the map and what the shutdown waits for.
LEMMA RunEnds ==
  ASSUME JobRunsInv, NEW j \in Jobs, NEW theRun \in working[j], endRun(j, theRun)
  PROVE  JobRunsInv'
<1>1. running[j] = theRun /\ working[j] = {theRun} /\ running[j] # 0
  BY DEF JobRunsInv, JobsDoNotOverlap
<1>2. /\ running' = [running EXCEPT ![j] = 0] /\ working' = [working EXCEPT ![j] = {}]
      /\ awaited' = awaited \ {<<j, theRun>>} /\ UNCHANGED <<accepting, started, process>>
  BY <1>1 DEF endRun
<1>3. running' \in [Jobs -> Nat] /\ DOMAIN working' = Jobs
  BY <1>2 DEF JobRunsInv
<1>4. JobsDoNotOverlap'
  BY <1>2 DEF JobRunsInv, JobsDoNotOverlap
<1>5. RunsInMap' = RunsInMap \ {<<j, theRun>>}
  BY <1>1, <1>2 DEF JobRunsInv, RunsInMap
<1> QED
  BY <1>2, <1>3, <1>4, <1>5 DEF JobRunsInv

\* A theRun starts: only while runs are accepted, and of a job that is not running.
LEMMA RunStarts ==
  ASSUME JobRunsInv, NEW j \in Jobs, runJob(j)
  PROVE  JobRunsInv'
<1>1. running[j] = 0 /\ working[j] = {} /\ process = "up"
  BY DEF JobRunsInv, JobsDoNotOverlap, runJob, isRunning
<1>2. started'[j] = started[j] + 1 /\ started'[j] \in Nat /\ started'[j] # 0
  BY DEF JobRunsInv, runJob
<1>3. /\ running' = [running EXCEPT ![j] = started'[j]]
      /\ working' = [working EXCEPT ![j] = {started'[j]}]
      /\ started' \in [Jobs -> Nat] /\ UNCHANGED <<accepting, awaited, process>>
  BY <1>1, <1>2 DEF JobRunsInv, runJob
<1>4. running' \in [Jobs -> Nat] /\ DOMAIN working' = Jobs
  BY <1>2, <1>3 DEF JobRunsInv
<1>5. JobsDoNotOverlap'
  BY <1>2, <1>3 DEF JobRunsInv, JobsDoNotOverlap
<1> QED
  BY <1>1, <1>3, <1>4, <1>5 DEF JobRunsInv

\* No job overlaps itself, and none works once the process closed what it uses.
LEMMA JobsStep == JobRunsInv /\ [JobsNext]_jobsVars => JobRunsInv'
<1> SUFFICES ASSUME JobRunsInv, [JobsNext]_jobsVars
             PROVE  JobRunsInv'
  OBVIOUS
<1>1. ASSUME NEW j \in Jobs, runJob(j) \/ \E theRun \in working[j] : endRun(j, theRun)
      PROVE  JobRunsInv'
  BY <1>1, RunStarts, RunEnds
<1>2. CASE stopJobRuns
  BY <1>2 DEF stopJobRuns, acceptsWhileStopping, JobRunsInv, JobsDoNotOverlap, RunsInMap
<1>3. CASE closeApp
  BY <1>3 DEF closeApp, JobRunsInv, JobsDoNotOverlap, RunsInMap
<1>4. CASE restartApp
  BY <1>4 DEF restartApp, JobRunsInv, JobsDoNotOverlap, RunsInMap
<1>5. CASE UNCHANGED jobsVars
  BY <1>5 DEF jobsVars, JobRunsInv, JobsDoNotOverlap, RunsInMap
<1> QED
  BY <1>1, <1>2, <1>3, <1>4, <1>5 DEF JobsNext

\* A job runs alone and only while what it uses is open, however the clock, the runs and the shutdown interleave.
LEMMA JobsAlwaysAlone == JobsSpec => []JobsRunAlone
<1>1. JobsInit => JobRunsInv
  BY DEF JobsInit, JobRunsInv, JobsDoNotOverlap, RunsInMap
<1>2. ASSUME JobRunsInv
      PROVE  JobsRunAlone
  <2>1. ASSUME process = "closed", NEW j \in Jobs
        PROVE  running[j] = 0
    BY <1>2, <2>1 DEF JobRunsInv, RunsInMap
  <2> QED
    BY <1>2, <2>1 DEF JobRunsInv, JobsRunAlone, NoJobAfterClose, JobsDoNotOverlap
<1> QED
  BY <1>1, <1>2, JobsStep, PTL DEF JobsSpec

\* The run deletes only what a file it kept holds; files go only once their own time is over.
ArchiveInv ==
  /\ NoRecordLost
  /\ archiveRun.step = "delete" /\ dayAge # "expired" => ToSet(archiveRun.exported) \in archiveFiles
  /\ DOMAIN archiveRun = {"step", "exported", "draft"}

\* Each step of the archive of audit entries keeps its invariant.
LEMMA ArchiveStep == ArchiveInv /\ [ArchiveNext]_archiveVars => ArchiveInv'
<1> SUFFICES ASSUME ArchiveInv, [ArchiveNext]_archiveVars
             PROVE  ArchiveInv'
  OBVIOUS
<1>1. ASSUME NEW r \in Records, recordAudit(r)
      PROVE  ArchiveInv'
  BY <1>1 DEF recordAudit, ArchiveInv, NoRecordLost
<1>2. CASE growOld
  BY <1>2 DEF growOld, ArchiveInv, NoRecordLost
<1>3. CASE startArchive \/ crashArchive \/ exportBatch
  BY <1>3 DEF startArchive, crashArchive, exportBatch, NoRun, ArchiveInv, NoRecordLost
<1>4. CASE keepDraft
  BY <1>4 DEF keepDraft, readBack, ArchiveInv, NoRecordLost
<1>5. CASE deleteDay
  BY <1>5 DEF deleteDay, ArchiveInv, NoRecordLost
<1>6. CASE deleteExpired
  BY <1>6 DEF deleteExpired, ArchiveInv, NoRecordLost, NoRun
<1>7. CASE UNCHANGED archiveVars
  BY <1>7 DEF archiveVars, ArchiveInv, NoRecordLost
<1> QED
  BY <1>1, <1>2, <1>3, <1>4, <1>5, <1>6, <1>7 DEF ArchiveNext

\* The jobs of a process, for any jobs, batch size and number of records: none runs twice at once or after the
\* shutdown closed what it uses, and the archive loses no record whatever stops it halfway (runJob, stopJobRuns,
\* ArchiveAudit).
THEOREM JobsAlwaysHold == JobsSpec /\ ArchiveSpec => []JobsHold
<1>1. ArchiveInit => ArchiveInv
  BY DEF ArchiveInit, ArchiveInv, NoRecordLost, NoRun
<1>2. ArchiveInv => NoRecordLost
  BY DEF ArchiveInv
<1>3. ArchiveSpec => []NoRecordLost
  BY <1>1, <1>2, ArchiveStep, PTL DEF ArchiveSpec
<1> QED
  BY <1>3, JobsAlwaysAlone, PTL DEF JobsHold

-----------------------------------------------------------------------------
(* A transaction and its nested steps.                                     *)

Mark == [writes : Nat, beforeCommit : Nat, afterCommit : Nat]

ScopeTypes ==
  /\ writes \in Seq(Nat) /\ stored \in Seq(Nat) /\ dispatched \in Seq(Nat)
  /\ marks \in Seq(Mark) /\ nextWrite \in Nat
  /\ committed \in BOOLEAN

\* A mark counts as many callbacks as rows, no more than there are, and no less than the marks around it.
MarksNest ==
  \A i \in 1..Len(marks) :
    /\ marks[i].beforeCommit = marks[i].writes /\ marks[i].afterCommit = marks[i].writes
    /\ marks[i].writes <= Len(writes)
    /\ \A j \in 1..i : marks[j].writes <= marks[i].writes

\* What the callbacks did at each phase.
PhaseTells ==
  \/ /\ txPhase = "work" /\ ~committed /\ stored = <<>> /\ dispatched = <<>> /\ MarksNest
  \/ /\ txPhase = "before" /\ ~committed /\ IsPrefixOf(stored, writes) /\ dispatched = <<>>
  \/ /\ txPhase = "commit" /\ ~committed /\ stored = writes /\ dispatched = <<>>
  \/ /\ txPhase = "after" /\ committed /\ stored = writes /\ IsPrefixOf(dispatched, writes) /\ afterCommitCallbacks = writes
  \/ /\ txPhase = "end" /\ stored = writes /\ dispatched = writes
     /\ committed \/ writes = <<>>

ScopeInv == ScopeTypes /\ CallbacksFollowWrites /\ PhaseTells

\* The next element of a sequence extends what is a prefix of it.
LEMMA PrefixGrows ==
  ASSUME NEW s \in Seq(Nat), NEW t \in Seq(Nat), IsPrefixOf(s, t), Len(s) # Len(t)
  PROVE  /\ Append(s, t[Len(s) + 1]) \in Seq(Nat)
         /\ IsPrefixOf(Append(s, t[Len(s) + 1]), t)
<1> DEFINE n == Len(s) + 1
           u == Append(s, t[n])
<1>1. Len(s) \in Nat /\ Len(t) \in Nat /\ Len(s) <= Len(t) /\ n \in 1..Len(t)
  BY DEF IsPrefixOf
<1>2. t[n] \in Nat
  BY <1>1
<1>3. u \in Seq(Nat) /\ Len(u) = n /\ (\A i \in 1..Len(s) : u[i] = s[i]) /\ u[n] = t[n]
  BY <1>1, <1>2
<1>4. \A i \in 1..n : t[i] \in Nat
  BY <1>1
<1>5. /\ SubSeq(t, 1, n) \in Seq(Nat) /\ Len(SubSeq(t, 1, n)) = n
      /\ \A i \in 1..n : SubSeq(t, 1, n)[i] = t[i]
  BY <1>1, <1>4, SubSeqProperties
<1>6. \A i \in 1..Len(s) : s[i] = t[i]
  <2>1. \A i \in 1..Len(s) : t[i] \in Nat
    BY <1>1, ElementOfSeq
  <2>2. \A i \in 1..Len(s) : SubSeq(t, 1, Len(s))[i] = t[i]
    BY <1>1, <2>1, SubSeqProperties
  <2> QED
    BY <2>2 DEF IsPrefixOf
<1>7. \A i \in 1..n : u[i] = SubSeq(t, 1, n)[i]
  BY <1>1, <1>3, <1>5, <1>6
<1>8. u = SubSeq(t, 1, n)
  BY <1>3, <1>5, <1>7, SeqEqual
<1> QED
  BY <1>1, <1>3, <1>8 DEF IsPrefixOf

\* A prefix of the same length is the sequence.
LEMMA PrefixFull ==
  ASSUME NEW s \in Seq(Nat), NEW t \in Seq(Nat), IsPrefixOf(s, t), Len(s) = Len(t)
  PROVE  s = t
BY SubSeqFull DEF IsPrefixOf

\* Nothing and everything are prefixes.
LEMMA PrefixEnds ==
  ASSUME NEW t \in Seq(Nat)
  PROVE  IsPrefixOf(<<>>, t) /\ IsPrefixOf(t, t)
<1>1. SubSeq(t, 1, Len(<<>>)) = <<>> /\ Len(<<>>) = 0
  BY SubSeqEmpty
<1>2. Len(t) \in Nat
  OBVIOUS
<1> QED
  BY <1>1, <1>2, SubSeqFull DEF IsPrefixOf

\* The marks without the last one.
LEMMA MarkPopped ==
  ASSUME ScopeInv, txPhase = "work", marks # <<>>
  PROVE  LET rest == SubSeq(marks, 1, Len(marks) - 1)
             m == marks[Len(marks)]
         IN /\ rest \in Seq(Mark) /\ Len(rest) = Len(marks) - 1
            /\ Len(marks) \in 1..Len(marks) /\ m \in Mark
            /\ m.writes \in 0..Len(writes) /\ m.beforeCommit = m.writes /\ m.afterCommit = m.writes
            /\ \A i \in 1..Len(rest) : rest[i] = marks[i] /\ marks[i].writes <= m.writes
<1> DEFINE rest == SubSeq(marks, 1, Len(marks) - 1)
           m == marks[Len(marks)]
<1>1. marks \in Seq(Mark) /\ MarksNest /\ writes \in Seq(Nat)
  BY DEF ScopeInv, ScopeTypes, PhaseTells
<1>2. Len(marks) \in Nat \ {0}
  BY <1>1, EmptySeq
<1>3. \A i \in 1..(Len(marks) - 1) : marks[i] \in Mark
  BY <1>1, <1>2
<1>4. /\ rest \in Seq(Mark) /\ Len(rest) = Len(marks) - 1
      /\ \A i \in 1..(Len(marks) - 1) : rest[i] = marks[i]
  <2> DEFINE n == Len(marks) - 1
  <2>1. n \in Nat /\ n \in Int /\ 1 \in Int
    BY <1>2
  <2>2. \A i \in 1..n : marks[i] \in Mark
    BY <1>3
  <2> HIDE DEF n
  <2>3. n - 1 + 1 = n /\ (1 <= n \/ n = 0) /\ \A i \in 1..n : 1 + i - 1 = i
    BY <2>1
  <2>4. /\ SubSeq(marks, 1, n) \in Seq(Mark)
        /\ Len(SubSeq(marks, 1, n)) = IF 1 <= n THEN n - 1 + 1 ELSE 0
        /\ \A i \in 1..(n - 1 + 1) : SubSeq(marks, 1, n)[i] = marks[1 + i - 1]
    BY <2>1, <2>2, SubSeqProperties
  <2>5. Len(SubSeq(marks, 1, n)) = n /\ \A i \in 1..n : SubSeq(marks, 1, n)[i] = marks[i]
    BY <2>1, <2>3, <2>4
  <2> QED
    BY <2>4, <2>5 DEF n
<1>5. m \in Mark /\ Len(marks) \in 1..Len(marks)
  BY <1>1, <1>2
<1>6. /\ m.writes <= Len(writes) /\ m.beforeCommit = m.writes /\ m.afterCommit = m.writes
      /\ \A j \in 1..Len(marks) : marks[j].writes <= m.writes
  BY <1>1, <1>5 DEF MarksNest
<1>7. m.writes \in Nat /\ Len(writes) \in Nat
  BY <1>1, <1>5 DEF Mark
<1> QED
  BY <1>2, <1>4, <1>5, <1>6, <1>7

\* A row is written, and a callback left for before and after the commit.
LEMMA ScopeWrites ==
  ASSUME ScopeInv, write
  PROVE  ScopeInv'
<1>1. txPhase = "work" /\ beforeCommitCallbacks = writes /\ afterCommitCallbacks = writes /\ MarksNest
  BY DEF ScopeInv, CallbacksFollowWrites, PhaseTells, write, Working
<1>2. nextWrite \in Nat /\ writes \in Seq(Nat) /\ Len(writes) \in Nat /\ Len(writes') = Len(writes) + 1 /\ writes' \in Seq(Nat)
  BY DEF ScopeInv, ScopeTypes, write
<1>3. marks' = marks /\ marks \in Seq(Mark) /\ Len(marks) \in Nat
  BY DEF ScopeInv, ScopeTypes, write
<1>4. \A i \in 1..Len(marks) : marks[i].writes \in Nat
  <2>1. \A i \in 1..Len(marks) : marks[i] \in Mark
    BY <1>3, ElementOfSeq
  <2> QED
    BY <2>1 DEF Mark
<1>5. MarksNest'
  BY <1>1, <1>2, <1>3, <1>4 DEF MarksNest
<1>6. ScopeTypes'
  BY <1>2, <1>3 DEF ScopeInv, ScopeTypes, write
<1>7. CallbacksFollowWrites'
  BY <1>1 DEF CallbacksFollowWrites, write
<1>8. PhaseTells'
  BY <1>1, <1>5 DEF ScopeInv, PhaseTells, write
<1> QED
  BY <1>6, <1>7, <1>8 DEF ScopeInv

\* A nested step begins: it marks what there is.
LEMMA ScopeBegins ==
  ASSUME ScopeInv, beginNested
  PROVE  ScopeInv'
<1>1. /\ txPhase = "work" /\ beforeCommitCallbacks = writes /\ afterCommitCallbacks = writes /\ MarksNest
      /\ ~committed /\ stored = <<>> /\ dispatched = <<>>
  BY DEF ScopeInv, CallbacksFollowWrites, PhaseTells, beginNested, Working
<1>2. writes \in Seq(Nat) /\ Len(writes) \in Nat /\ marks \in Seq(Mark) /\ Len(marks) \in Nat
  BY DEF ScopeInv, ScopeTypes
<1>3. mark \in Mark /\ mark.writes = Len(writes) /\ mark.beforeCommit = Len(writes) /\ mark.afterCommit = Len(writes)
  BY <1>1, <1>2 DEF mark, Mark
<1>4. /\ marks' \in Seq(Mark) /\ Len(marks') = Len(marks) + 1
      /\ \A i \in 1..Len(marks) : marks'[i] = marks[i]
      /\ marks'[Len(marks) + 1] = mark
  BY <1>2, <1>3 DEF beginNested
<1>5. \A i \in 1..Len(marks) : marks[i].writes <= Len(writes)
  BY <1>1 DEF MarksNest
<1>6. UNCHANGED <<txPhase, writes, beforeCommitCallbacks, afterCommitCallbacks, stored, dispatched, committed, nextWrite>>
  BY DEF beginNested
<1>7. ASSUME NEW i \in 1..Len(marks')
      PROVE  /\ marks'[i].beforeCommit = marks'[i].writes /\ marks'[i].afterCommit = marks'[i].writes
             /\ marks'[i].writes <= Len(writes)
             /\ \A j \in 1..i : marks'[j].writes <= marks'[i].writes
  <2>1. CASE i \in 1..Len(marks)
    <3>1. \A j \in 1..i : j \in 1..Len(marks)
      BY <1>2, <2>1
    <3> QED
      BY <1>1, <1>4, <2>1, <3>1 DEF MarksNest
  <2>2. CASE i = Len(marks) + 1
    <3>1. \A j \in 1..i : j \in 1..Len(marks) \/ j = i
      BY <1>2, <2>2
    <3>2. marks'[i] = mark /\ marks'[i].writes = Len(writes)
      BY <1>3, <1>4, <2>2
    <3>3. \A j \in 1..i : marks'[j].writes <= Len(writes)
      <4>1. Len(writes) <= Len(writes)
        BY <1>2
      <4>2. \A j \in 1..Len(marks) : marks'[j].writes <= Len(writes)
        BY <1>4, <1>5
      <4> QED
        BY <3>1, <3>2, <4>1, <4>2
    <3> QED
      BY <1>2, <1>3, <3>2, <3>3
  <2> QED
    BY <1>2, <1>4, <2>1, <2>2
<1>8. MarksNest'
  BY <1>6, <1>7 DEF MarksNest
<1> QED
  BY <1>1, <1>4, <1>6, <1>8 DEF ScopeInv, ScopeTypes, CallbacksFollowWrites, PhaseTells

\* A nested step ends well, and its mark goes.
LEMMA ScopeReleases ==
  ASSUME ScopeInv, releaseNested
  PROVE  ScopeInv'
<1>1. /\ txPhase = "work" /\ beforeCommitCallbacks = writes /\ afterCommitCallbacks = writes /\ MarksNest
      /\ ~committed /\ stored = <<>> /\ dispatched = <<>> /\ marks # <<>>
  BY DEF ScopeInv, CallbacksFollowWrites, PhaseTells, releaseNested, Working
<1>2. /\ marks' \in Seq(Mark) /\ Len(marks') = Len(marks) - 1 /\ Len(marks) \in 1..Len(marks)
      /\ \A i \in 1..Len(marks') : marks'[i] = marks[i]
  BY <1>1, MarkPopped DEF releaseNested
<1>3. UNCHANGED <<txPhase, writes, beforeCommitCallbacks, afterCommitCallbacks, stored, dispatched, committed, nextWrite>>
  BY DEF releaseNested
<1>4. Len(marks) \in Nat
  BY DEF ScopeInv, ScopeTypes
<1>5. \A i \in 1..Len(marks') : i \in 1..Len(marks) /\ \A j \in 1..i : j \in 1..Len(marks')
  BY <1>2, <1>4
<1>6. MarksNest'
  BY <1>1, <1>2, <1>3, <1>5 DEF MarksNest
<1> QED
  BY <1>1, <1>2, <1>3, <1>6 DEF ScopeInv, ScopeTypes, CallbacksFollowWrites, PhaseTells

\* A nested step is undone: its rows and the callbacks about them go together.
LEMMA ScopeUndoes ==
  ASSUME ScopeInv, undoNested
  PROVE  ScopeInv'
<1> DEFINE m == marks[Len(marks)]
<1>1. /\ txPhase = "work" /\ beforeCommitCallbacks = writes /\ afterCommitCallbacks = writes /\ MarksNest
      /\ ~committed /\ stored = <<>> /\ dispatched = <<>> /\ marks # <<>> /\ writes \in Seq(Nat) /\ Len(writes) \in Nat
  BY DEF ScopeInv, ScopeTypes, CallbacksFollowWrites, PhaseTells, undoNested
<1>2. /\ marks' \in Seq(Mark) /\ Len(marks') = Len(marks) - 1 /\ Len(marks) \in 1..Len(marks)
      /\ m.writes \in 0..Len(writes) /\ m.beforeCommit = m.writes /\ m.afterCommit = m.writes
      /\ \A i \in 1..Len(marks') : marks'[i] = marks[i] /\ marks[i].writes <= m.writes
  BY <1>1, MarkPopped DEF undoNested
<1>3. UNCHANGED <<txPhase, stored, dispatched, committed, nextWrite>>
  BY DEF undoNested
<1>4. Len(marks) \in Nat
  BY DEF ScopeInv, ScopeTypes
<1>5. \A i \in 1..Len(marks') : i \in 1..Len(marks) /\ \A j \in 1..i : j \in 1..Len(marks')
  BY <1>2, <1>4
<1>6. /\ writes' \in Seq(Nat) /\ beforeCommitCallbacks' = writes' /\ afterCommitCallbacks' = writes'
      /\ \A i \in 1..Len(marks') : marks[i].writes <= Len(writes')
  <2>1. CASE broken
    BY <2>1, <1>1, <1>5 DEF undoNested, MarksNest
  <2>2. CASE ~broken
    <3>1. writes' = SubSeq(writes, 1, m.writes) /\ discardSince(m)
      BY <2>2 DEF undoNested
    <3>2. keptOf(writes, m.writes) = SubSeq(writes, 1, m.writes)
      BY <1>1, <1>2 DEF keptOf
    <3>3. beforeCommitCallbacks' = writes' /\ afterCommitCallbacks' = writes'
      BY <1>1, <1>2, <3>1, <3>2 DEF discardSince
    <3>4. \A i \in 1..m.writes : writes[i] \in Nat
      BY <1>1, <1>2
    <3>5. writes' \in Seq(Nat) /\ Len(writes') = m.writes
      BY <1>2, <3>1, <3>4, SubSeqProperties
    <3> QED
      BY <1>2, <3>3, <3>5
  <2> QED
    BY <2>1, <2>2
<1>7. MarksNest'
  BY <1>1, <1>2, <1>5, <1>6 DEF MarksNest
<1> QED
  BY <1>1, <1>2, <1>3, <1>6, <1>7 DEF ScopeInv, ScopeTypes, CallbacksFollowWrites, PhaseTells

\* The phases of the end: what is stored and dispatched follows the callbacks.
LEMMA ScopeEnds ==
  ASSUME ScopeInv, rollback \/ workDone \/ runBeforeCommitCallbacks \/ commitWork \/ runAfterCommitCallbacks
  PROVE  ScopeInv'
<1>0. ScopeTypes /\ CallbacksFollowWrites /\ PhaseTells /\ <<>> \in Seq(Nat)
  BY EmptySeq DEF ScopeInv
<1>1. CASE rollback
  BY <1>0, <1>1 DEF rollback, ScopeInv, ScopeTypes, CallbacksFollowWrites, PhaseTells
<1>2. CASE workDone
  BY <1>0, PrefixEnds, <1>2 DEF ScopeTypes, workDone, Working, ScopeInv, CallbacksFollowWrites, PhaseTells
<1>3. CASE runBeforeCommitCallbacks
  <2>1. /\ txPhase = "before" /\ ~committed /\ IsPrefixOf(stored, writes) /\ dispatched = <<>>
        /\ beforeCommitCallbacks = writes /\ afterCommitCallbacks = writes
    BY <1>0, <1>3 DEF runBeforeCommitCallbacks, CallbacksFollowWrites, PhaseTells
  <2>2. UNCHANGED <<beforeCommitCallbacks, afterCommitCallbacks, marks, dispatched, committed, nextWrite>>
    BY <1>3 DEF runBeforeCommitCallbacks
  <2>3. CASE Len(stored) = Len(writes)
    BY <1>0, <2>1, <2>3, PrefixFull, <1>3, <2>2 DEF ScopeTypes, runBeforeCommitCallbacks, ScopeInv, CallbacksFollowWrites,
       PhaseTells
  <2>4. CASE Len(stored) # Len(writes) /\ UNCHANGED <<txPhase, writes>> /\ stored' = Append(stored, writes[Len(stored) + 1])
    BY <1>0, <2>1, <2>4, PrefixGrows, <2>2 DEF ScopeTypes, ScopeInv, CallbacksFollowWrites, PhaseTells
  <2>5. CASE txPhase' = "end" /\ writes' = <<>> /\ stored' = <<>>
    BY <1>0, <2>1, <2>2, <2>5 DEF ScopeInv, ScopeTypes, CallbacksFollowWrites, PhaseTells
  <2> QED
    BY <1>3, <2>1, <2>3, <2>4, <2>5 DEF runBeforeCommitCallbacks
<1>4. CASE commitWork
  BY <1>0, PrefixEnds, <1>4 DEF ScopeTypes, commitWork, ScopeInv, CallbacksFollowWrites, PhaseTells
<1>5. CASE runAfterCommitCallbacks
  <2>1. /\ txPhase = "after" /\ committed /\ stored = writes /\ IsPrefixOf(dispatched, writes) /\ afterCommitCallbacks = writes
    BY <1>0, <1>5 DEF runAfterCommitCallbacks, PhaseTells
  <2>2. UNCHANGED <<writes, beforeCommitCallbacks, afterCommitCallbacks, marks, stored, committed, nextWrite>>
    BY <1>5 DEF runAfterCommitCallbacks
  <2>3. CASE Len(dispatched) = Len(writes)
    BY <1>0, <2>1, <2>3, PrefixFull, <1>5, <2>2 DEF ScopeTypes, runAfterCommitCallbacks, ScopeInv, CallbacksFollowWrites,
       PhaseTells
  <2>4. CASE Len(dispatched) # Len(writes)
    <3>1. UNCHANGED txPhase /\ dispatched' = Append(dispatched, writes[Len(dispatched) + 1])
      BY <1>5, <2>1, <2>4 DEF runAfterCommitCallbacks
    <3>2. dispatched' \in Seq(Nat) /\ IsPrefixOf(dispatched', writes)
      BY <1>0, <2>1, <2>4, <3>1, PrefixGrows DEF ScopeTypes
    <3>3. IsPrefixOf(dispatched', writes')
      BY <2>2, <3>2
    <3> QED
      BY <1>0, <2>1, <2>2, <3>1, <3>2, <3>3 DEF ScopeInv, ScopeTypes, CallbacksFollowWrites, PhaseTells
  <2> QED
    BY <2>3, <2>4
<1> QED
  BY <1>1, <1>2, <1>3, <1>4, <1>5

\* What a transaction tells on commit is what it did, for any nesting, failures and number of writes: callbacks follow
\* the writes that stay, and events are stored and dispatched for those alone (runNested, discardSince).
THEOREM TransactionsTellAll == ScopeSpec => []CommitsTellAll
<1>1. ScopeInit => ScopeInv
  <2> SUFFICES ASSUME ScopeInit
               PROVE  ScopeInv
    OBVIOUS
  <2>1. ScopeTypes
    BY EmptySeq DEF ScopeInit, ScopeTypes
  <2>2. MarksNest
    BY DEF ScopeInit, MarksNest
  <2> QED
    BY <2>1, <2>2 DEF ScopeInit, ScopeInv, CallbacksFollowWrites, PhaseTells
<1>2. ScopeInv /\ [ScopeNext]_scopeVars => ScopeInv'
  <2> SUFFICES ASSUME ScopeInv, [ScopeNext]_scopeVars
               PROVE  ScopeInv'
    OBVIOUS
  <2>1. CASE fail \/ handleError \/ UNCHANGED scopeVars
    <3>1. UNCHANGED <<txPhase, writes, beforeCommitCallbacks, afterCommitCallbacks, marks, stored, dispatched, committed, nextWrite>>
      BY <2>1 DEF fail, handleError, scopeVars
    <3>2. ScopeTypes' /\ MarksNest' = MarksNest
      BY <3>1 DEF ScopeInv, ScopeTypes, MarksNest
    <3> QED
      BY <3>1, <3>2 DEF ScopeInv, CallbacksFollowWrites, PhaseTells, IsPrefixOf
  <2> QED
    BY <2>1, ScopeWrites, ScopeBegins, ScopeReleases, ScopeUndoes, ScopeEnds DEF ScopeNext
<1>3. ScopeInv => CommitsTellAll
  BY PrefixEnds DEF ScopeInv, CommitsTellAll, ScopeTypes, PhaseTells, EventsTellTheTruth
<1> QED
  BY <1>1, <1>2, <1>3, PTL DEF ScopeSpec

------------------------------------------------------------------------------
(* What the operator configures: the paths.                                 *)

\* The paths without a "..", and what resolve makes of a path and the next part.
Plain(S) == {p \in Seq(S) : \A k \in 1..Len(p) : p[k] # ".."}
upTo(path, part) == IF part # ".." THEN Append(path, part) ELSE IF path = <<>> THEN path ELSE Front(path)

\* Taking the next part of a path, or going up at a "..", leaves no "..".
LEMMA UpIsPlain ==
  ASSUME NEW S, NEW path \in Plain(S), NEW part \in S
  PROVE  upTo(path, part) \in Plain(S)
<1>1. path \in Seq(S)
  BY DEF Plain
<1>2. CASE part # ".."
  <2>1. Append(path, part) \in Seq(S) /\ Len(Append(path, part)) = Len(path) + 1
    BY <1>1, AppendProperties
  <2>2. \A k \in 1..Len(Append(path, part)) : Append(path, part)[k] # ".."
    BY <1>1, <1>2, <2>1 DEF Plain
  <2> QED
    BY <1>2, <2>1, <2>2 DEF upTo, Plain
<1>3. CASE part = ".." /\ path = <<>>
  BY <1>3 DEF upTo
<1>4. CASE part = ".." /\ path # <<>>
  <2>1. Len(path) \in Nat /\ \A i \in 1..(Len(path) - 1) : path[i] \in S
    BY <1>1
  <2>2. /\ Front(path) \in Seq(S)
        /\ Len(Front(path)) = IF 1 <= Len(path) - 1 THEN Len(path) - 1 ELSE 0
        /\ \A i \in 1..(Len(path) - 1) : Front(path)[i] = path[i]
    BY <2>1, SubSeqProperties DEF Front
  <2> QED
    BY <1>4, <2>1, <2>2 DEF upTo, Plain
<1> QED
  BY <1>2, <1>3, <1>4

\* resolve leaves no "..", however many parts and ".." the operator wrote: by counting up the parts it has read.
LEMMA ResolvedIsPlain ==
  ASSUME NEW S, NEW v, v.at \in Seq(S)
  PROVE  resolvePath(v) \in Plain(S \cup {"srv", "app"})
<1> DEFINE seq == v.at
<1> DEFINE base == IF v.is = "absolute" THEN <<>> ELSE cwd
<1> DEFINE N == Len(seq)
<1> DEFINE Both == S \cup {"srv", "app"}
<1> DEFINE P == Plain(Both)
<1>0. N \in Nat /\ DOMAIN seq = 1..N /\ \A i \in 1..N : seq[i] \in Both
  OBVIOUS
<1>1. base \in P
  <2>1. <<>> \in P
    BY EmptySeq DEF Plain
  <2>2. \A a, b \in Both : <<a, b>> \in Seq(Both)
    OBVIOUS
  <2>3. cwd \in Seq(Both)
    BY <2>2 DEF cwd
  <2>4. Len(cwd) = 2 /\ \A k \in 1..2 : cwd[k] # ".."
    BY DEF cwd
  <2>5. cwd \in P
    BY <2>3, <2>4 DEF Plain
  <2> QED
    BY <2>1, <2>5
<1> DEFINE G == [p \in (1..N) \X P |-> upTo(p[2], seq[p[1]])]
<1>a. ASSUME NEW p \in P, NEW x \in Both
      PROVE  upTo(p, x) \in P
  BY UpIsPlain
<1>2. G \in [(1..N) \X P -> P]
  BY <1>0, <1>a
<1>3. PICK f : Iterates(f, N, base, P, G)
  <2> HIDE DEF N, G, base, P
  <2> QED
    BY <1>0, <1>1, <1>2, FoldExists
<1>4. f = [s \in SUBSET (DOMAIN seq) |-> IF s = {} THEN base ELSE upTo(f[s \ {Max(s)}], seq[Max(s)])]
  <2>1. f \in [SUBSET (1..N) -> P]
    BY <1>3 DEF Iterates
  <2>2. ASSUME NEW s \in SUBSET (1..N), s # {}
        PROVE  f[s] = upTo(f[s \ {Max(s)}], seq[Max(s)])
    BY <1>0, <2>2, MaxIsOne, <1>3, <2>1 DEF Iterates
  <2>3. f[{}] = base
    BY <1>3 DEF Iterates
  <2> HIDE DEF G, base, P
  <2> QED
    BY <1>0, <2>1, <2>2, <2>3
<1> DEFINE iter == CHOOSE it : it = [s \in SUBSET (DOMAIN seq) |-> IF s = {} THEN base ELSE upTo(it[s \ {Max(s)}], seq[Max(s)])]
<1>5. iter = [s \in SUBSET (DOMAIN seq) |-> IF s = {} THEN base ELSE upTo(iter[s \ {Max(s)}], seq[Max(s)])]
  <2> HIDE DEF base, G, P
  <2> QED
    BY <1>4
<1>6. resolvePath(v) = iter[1..N]
  BY <1>0 DEF resolvePath, FoldLeft, MapThenFoldSet, upTo
<1> DEFINE T == {i \in Nat : i <= N => iter[1..i] \in P}
<1>7. 0 \in T
  <2>1. 1..0 = {}
    OBVIOUS
  <2>2. iter[{}] = base
    <3> HIDE DEF iter, base, P
    <3> QED
      BY <1>5
  <2> HIDE DEF iter, base, P
  <2> QED
    BY <1>1, <2>1, <2>2
<1>8. ASSUME NEW i \in Nat, i \in T
      PROVE  i + 1 \in T
  <2> SUFFICES ASSUME i + 1 <= N PROVE iter[1..(i + 1)] \in P
    OBVIOUS
  <2>1. i + 1 \in 1..N /\ iter[1..i] \in P
    BY <1>0, <1>8
  <2>2. /\ 1..(i + 1) \in SUBSET (1..N) /\ 1..(i + 1) # {} /\ Max(1..(i + 1)) = i + 1
        /\ (1..(i + 1)) \ {Max(1..(i + 1))} = 1..i
    BY <1>0, <2>1, FirstOnes
  <2>3. iter[1..(i + 1)] = upTo(iter[1..i], seq[i + 1])
    <3> HIDE DEF iter, base, P
    <3> QED
      BY <1>0, <1>5, <2>2
  <2> HIDE DEF iter, base, P
  <2> QED
    BY <1>0, <1>a, <2>1, <2>3
<1>9. N \in T
  <2> HIDE DEF T
  <2> QED
    BY <1>0, <1>7, <1>8, NatSets
<1> HIDE DEF iter
<1> QED
  BY <1>0, <1>6, <1>9

\* A folder that begins like another is inside it, or is it: without "..", the way from one to the other never goes up.
LEMMA PrefixIsInside ==
  ASSUME NEW S, NEW folder \in Plain(S), NEW parent \in Plain(S), IsPrefix(parent, folder)
  PROVE  isSameOrInside(folder, parent)
<1> DEFINE m == Len(parent)
<1> DEFINE n == Len(folder)
<1>1. parent \in Seq(S) /\ folder \in Seq(S) /\ m \in Nat /\ n \in Nat
  BY DEF Plain
<1>2. m <= n /\ SubSeq(parent, 1, m) = SubSeq(folder, 1, m)
  BY DEF IsPrefix
<1>3. \A i \in 1..m : parent[i] = folder[i]
  BY <1>1, <1>2, SubSeqProperties
<1> DEFINE Fits(k) == /\ k <= n /\ SubSeq(parent, 1, k) = SubSeq(folder, 1, k)
                      /\ (k = m \/ k = n \/ parent[k + 1] # folder[k + 1])
<1>4. Fits(m)
  BY <1>2
<1>5. \A k \in 0..m : Fits(k) => k = m
  BY <1>1, <1>2, <1>3
<1> DEFINE shared == CHOOSE k \in 0..m : Fits(k)
<1>6. shared = m
  <2> HIDE DEF Fits
  <2>1. m \in 0..m
    BY <1>1
  <2> QED
    BY <1>4, <1>5, <2>1
<1> DEFINE path == [i \in 1..(m - shared) |-> ".."] \o SubSeq(folder, shared + 1, n)
<1>7. relative(parent, folder) = path
  BY DEF relative
<1>8. path = SubSeq(folder, m + 1, n)
  <2>1. \A i \in (m + 1)..n : folder[i] \in S
    BY <1>1
  <2>2. SubSeq(folder, m + 1, n) \in Seq(S)
    BY <1>1, <2>1, SubSeqProperties
  <2>3. [i \in 1..(m - shared) |-> ".."] = <<>>
    <3>1. [i \in 1..0 |-> ".."] = <<>>
      OBVIOUS
    <3> HIDE DEF shared
    <3>2. m - shared = 0
      BY <1>1, <1>6
    <3> QED
      BY <3>1, <3>2
  <2> HIDE DEF shared
  <2> QED
    BY <1>6, <2>2, <2>3, ConcatEmptySeq
<1>9. CASE m = n
  <2>1. SubSeq(folder, m + 1, n) = <<>>
    BY <1>1, <1>9, SubSeqEmpty
  <2> HIDE DEF path
  <2> QED
    BY <1>7, <1>8, <2>1 DEF isSameOrInside
<1>10. CASE m < n
  <2>1. \A i \in (m + 1)..n : folder[i] \in S
    BY <1>1
  <2>2. \A i \in 1..(n - (m + 1) + 1) : SubSeq(folder, m + 1, n)[i] = folder[m + 1 + i - 1]
    BY <1>1, <2>1, SubSeqProperties
  <2>3. SubSeq(folder, m + 1, n)[1] = folder[m + 1]
    BY <1>1, <1>10, <2>2
  <2>4. folder[m + 1] # ".."
    BY <1>1, <1>10 DEF Plain
  <2> HIDE DEF path
  <2> QED
    BY <1>7, <1>8, <2>3, <2>4 DEF isSameOrInside
<1> QED
  BY <1>1, <1>2, <1>9, <1>10

-----------------------------------------------------------------------------
\* The names of the variables of each kind.
LEMMA NumbersAre ==
  DOMAIN Numbers =
    {"PORT", "CACHE_TTL_SECONDS", "VAT_RATE_BP", "MAX_ADDRESSES_PER_CUSTOMER", "SMTP_PORT", "IMAGE_MAX_BYTES",
     "PERSONAL_DATA_OPERATIONAL_MONTHS", "PERSONAL_DATA_BLOCKED_MONTHS", "SPENT_REFRESH_TOKEN_RETENTION_DAYS",
     "INACTIVE_GUEST_CART_RETENTION_DAYS", "PROCESSED_WEBHOOK_EVENT_RETENTION_DAYS", "DELIVERED_EVENT_RETENTION_DAYS",
     "AUDIT_RETENTION_MONTHS", "AUDIT_ARCHIVE_RETENTION_MONTHS"}
<1>1. DOMAIN Numbers = DOMAIN StoreNumbers \cup DOMAIN MailNumbers \cup DOMAIN ImageNumbers \cup DOMAIN RetentionNumbers
  BY DEF Numbers, Merge
<1>2. DOMAIN StoreNumbers = {"PORT", "CACHE_TTL_SECONDS", "VAT_RATE_BP", "MAX_ADDRESSES_PER_CUSTOMER"}
  BY DEF StoreNumbers
<1>3. DOMAIN MailNumbers = {"SMTP_PORT"} /\ DOMAIN ImageNumbers = {"IMAGE_MAX_BYTES"}
  BY DEF MailNumbers, ImageNumbers
<1>4. DOMAIN RetentionNumbers =
        {"PERSONAL_DATA_OPERATIONAL_MONTHS", "PERSONAL_DATA_BLOCKED_MONTHS", "SPENT_REFRESH_TOKEN_RETENTION_DAYS",
         "INACTIVE_GUEST_CART_RETENTION_DAYS", "PROCESSED_WEBHOOK_EVENT_RETENTION_DAYS", "DELIVERED_EVENT_RETENTION_DAYS",
         "AUDIT_RETENTION_MONTHS", "AUDIT_ARCHIVE_RETENTION_MONTHS"}
  BY DEF RetentionNumbers
<1> QED
  BY <1>1, <1>2, <1>3, <1>4

\* The folders with a default.
LEMMA FoldersAre == DOMAIN Folders = {"IMAGE_STORAGE_DIR", "AUDIT_ARCHIVE_DIR"}
BY DEF Folders

\* The texts of the store the environment names.
LEMMA TextsAre == DOMAIN StoreTexts = {"STORE_NAME", "STORE_ADDRESS", "STORE_PHONE", "TICKET_FOOTER", "WORK_ORDER_FOOTER"}
BY DEF StoreTexts

\* The lifetimes the environment gives.
LEMMA LifetimesAre ==
  DOMAIN Lifetimes = {"ACCESS_TOKEN_TTL", "REFRESH_TOKEN_TTL", "EMAIL_VERIFICATION_TTL", "PASSWORD_RESET_TTL", "ORDER_ACCESS_LINK_TTL", "RESERVATION_TTL"}
BY DEF Lifetimes

\* The parts of a folder: what an operator wrote, and those of the defaults.
PathParts == STRING \cup {"srv", "app", "storage", "images", "audit"}

\* A folder that is not set is its default, and a blank one is not accepted.
LEMMA FolderTransformed ==
  ASSUME NEW name \in DOMAIN Folders, NEW v
  PROVE  /\ transform(name, v) = IF v = Unset THEN Folders[name] ELSE v
         /\ \A w : isValid(name, w) => w # Blank
<1>1. name \in {"IMAGE_STORAGE_DIR", "AUDIT_ARCHIVE_DIR"}
  BY FoldersAre
<1>2. name \notin DOMAIN Numbers /\ name \notin DOMAIN StoreTexts /\ name \notin DOMAIN Lifetimes
  BY <1>1, NumbersAre, TextsAre, LifetimesAre
<1>3. name # INACTIVE /\ name \notin SuperadminNames /\ name # "JWT_SECRET" /\ name \notin Booleans
  BY <1>1 DEF INACTIVE, SuperadminNames, Booleans
<1>4. name \notin RATE_LIMITS_SET /\ name \notin BaseUrls
  BY <1>1 DEF RATE_LIMITS_SET, BaseUrls
<1>5. name \notin {"SMTP_HOST", "MAIL_FROM"} /\ name # "CORS_ALLOWED_ORIGINS" /\ name # "DATABASE_URL"
  BY <1>1
<1>6. transform(name, v) = IF v = Unset THEN Folders[name] ELSE v
  BY <1>2, <1>3, <1>4, <1>5 DEF transform
<1>7. ASSUME NEW w PROVE isValid(name, w) = (w # Blank)
  BY <1>2, <1>3, <1>4, <1>5 DEF isValid
<1> QED
  BY <1>6, <1>7

\* What is made of a number that was written, and what is accepted of it.
LEMMA NumberTransformed ==
  ASSUME NEW name \in DOMAIN Numbers, NEW v
  PROVE  /\ transform(name, v) = IF v = Unset THEN num(Numbers[name].default) ELSE toNumber(v)
         /\ \A w : isValid(name, w) => within(w, Numbers[name].min, Numbers[name].max)
<1>1. name \notin DOMAIN StoreTexts /\ name # INACTIVE /\ name \notin SuperadminNames
  BY NumbersAre, TextsAre DEF INACTIVE, SuperadminNames
<1>2. name \notin DOMAIN Lifetimes /\ name \notin DOMAIN Folders /\ name # "JWT_SECRET" /\ name \notin Booleans
  BY NumbersAre, LifetimesAre, FoldersAre DEF Booleans
<1>3. name \notin RATE_LIMITS_SET /\ name \notin BaseUrls
  BY NumbersAre DEF RATE_LIMITS_SET, BaseUrls
<1>4. name \notin {"SMTP_HOST", "MAIL_FROM"} /\ name # "CORS_ALLOWED_ORIGINS" /\ name # "DATABASE_URL"
  BY NumbersAre
<1>5. transform(name, v) = IF v = Unset THEN num(Numbers[name].default) ELSE toNumber(v)
  BY <1>1, <1>2, <1>3, <1>4 DEF transform
<1>6. ASSUME NEW w PROVE isValid(name, w) = within(w, Numbers[name].min, Numbers[name].max)
  BY <1>1, <1>2, <1>3, <1>4 DEF isValid
<1> QED
  BY <1>5, <1>6

\* The months of the inactive erasure may be left out; if not they are twelve or more.
LEMMA InactiveTransformed ==
  ASSUME NEW v
  PROVE  /\ transform(INACTIVE, v) = IF v \in {Unset, Blank} THEN Unset ELSE toNumber(v)
         /\ \A w : isValid(INACTIVE, w) => w = Unset \/ within(w, 12, 240)
<1>1. INACTIVE \notin DOMAIN Numbers /\ INACTIVE \notin DOMAIN StoreTexts /\ INACTIVE \notin SuperadminNames
  BY NumbersAre, TextsAre DEF INACTIVE, SuperadminNames
<1>2. INACTIVE \notin DOMAIN Lifetimes /\ INACTIVE \notin DOMAIN Folders /\ INACTIVE # "JWT_SECRET" /\ INACTIVE \notin Booleans
  BY LifetimesAre, FoldersAre DEF Booleans, INACTIVE
<1>3. INACTIVE \notin RATE_LIMITS_SET /\ INACTIVE \notin BaseUrls
  BY DEF RATE_LIMITS_SET, BaseUrls, INACTIVE
<1>4. INACTIVE \notin {"SMTP_HOST", "MAIL_FROM"} /\ INACTIVE # "CORS_ALLOWED_ORIGINS" /\ INACTIVE # "DATABASE_URL"
  BY DEF INACTIVE
<1>5. transform(INACTIVE, v) = IF v \in {Unset, Blank} THEN Unset ELSE toNumber(v)
  BY <1>1, <1>2, <1>3, <1>4 DEF transform
<1>6. ASSUME NEW w PROVE isValid(INACTIVE, w) = (w = Unset \/ within(w, 12, 240))
  BY <1>1, <1>2, <1>3, <1>4 DEF isValid
<1> QED
  BY <1>5, <1>6

\* A base URL that was accepted is http or https.
LEMMA LinkValid ==
  ASSUME NEW name \in BaseUrls, NEW w, isValid(name, w)
  PROVE  w.is = "url" /\ w.at[1] \in {"http:", "https:"}
<1>1. name \in {"FRONTEND_BASE_URL", "BACKOFFICE_BASE_URL", "IMAGE_BASE_URL"}
  BY DEF BaseUrls
<1>2. name \notin DOMAIN Numbers /\ name \notin DOMAIN StoreTexts /\ name # INACTIVE /\ name \notin SuperadminNames
  BY <1>1, NumbersAre, TextsAre DEF INACTIVE, SuperadminNames
<1>3. name # "JWT_SECRET" /\ name \notin Booleans /\ name \notin DOMAIN Lifetimes /\ name \notin RATE_LIMITS_SET
  BY <1>1, LifetimesAre DEF Booleans, RATE_LIMITS_SET
<1>4. name \notin DOMAIN Folders /\ name \notin {"SMTP_HOST", "MAIL_FROM"} /\ name # "CORS_ALLOWED_ORIGINS" /\ name # "DATABASE_URL"
  BY <1>1, FoldersAre
<1>5. isBaseUrl(w)
  BY <1>2, <1>3, <1>4 DEF isValid
<1> QED
  BY <1>5 DEF isBaseUrl

\* A blank secret is no secret.
LEMMA SecretTransformed ==
  ASSUME NEW v
  PROVE  transform("JWT_SECRET", v) = IF v = Blank THEN Unset ELSE v
<1>1. "JWT_SECRET" \notin DOMAIN Numbers /\ "JWT_SECRET" \notin DOMAIN StoreTexts /\ "JWT_SECRET" # INACTIVE
  BY NumbersAre, TextsAre DEF INACTIVE
<1>2. "JWT_SECRET" \notin DOMAIN Lifetimes /\ "JWT_SECRET" \notin DOMAIN Folders /\ "JWT_SECRET" \notin Booleans
  BY LifetimesAre, FoldersAre DEF Booleans
<1>3. "JWT_SECRET" \notin RATE_LIMITS_SET /\ "JWT_SECRET" \notin BaseUrls
  BY DEF RATE_LIMITS_SET, BaseUrls
<1> QED
  BY <1>1, <1>2, <1>3 DEF transform

\* What a variable of the environment is made of, for any that was written.
LEMMA EnvironmentIs ==
  ASSUME NEW given, NEW name \in EnvironmentVariables
  PROVE  instanceOf(given)[name] = transform(name, inText(given, name))
BY DEF instanceOf

\* The text of a variable that was written is what the operator wrote.
LEMMA WrittenIs ==
  ASSUME NEW given \in RawEnvironments, NEW name
  PROVE  /\ inText(given, name) # Unset => name \in DOMAIN given /\ inText(given, name) = given[name]
         /\ inText(given, name).n \in Int
<1>1. Unset.n \in Int
  BY DEF Unset, raw
<1> QED
  BY <1>1, StartUpAssumption DEF inText

\* A folder that was accepted is a path of parts.
LEMMA FoldersAccepted ==
  ASSUME NEW given \in RawEnvironments, NEW name \in DOMAIN Folders, isValid(name, instanceOf(given)[name])
  PROVE  /\ resolvePath(instanceOf(given)[name]) \in Plain(PathParts)
         /\ instanceOf(given)[name] # Blank
<1> DEFINE v == instanceOf(given)[name]
<1>0. name \in EnvironmentVariables
  BY DEF EnvironmentVariables
<1>1. v = (IF inText(given, name) = Unset THEN Folders[name] ELSE inText(given, name)) /\ v # Blank
  BY <1>0, EnvironmentIs, FolderTransformed
<1>2. v.at \in Seq(PathParts)
  <2>1. CASE inText(given, name) = Unset
    <3>1. \A a, b \in PathParts : <<a, b>> \in Seq(PathParts)
      OBVIOUS
    <3>2. Folders[name].at \in {<<"storage", "images">>, <<"storage", "audit">>}
      BY FoldersAre DEF Folders, dir, raw
    <3>3. Folders[name].at \in Seq(PathParts)
      BY <3>1, <3>2 DEF PathParts
    <3> QED
      BY <1>1, <2>1, <3>3
  <2>2. CASE inText(given, name) # Unset
    <3>1. v = given[name] /\ name \in DOMAIN given /\ v \notin {Unset, Blank}
      BY <1>1, <2>2, WrittenIs
    <3>2. v.at \in Seq(STRING)
      BY <3>1, StartUpAssumption
    <3>3. STRING \subseteq PathParts
      BY DEF PathParts
    <3> HIDE DEF v
    <3> QED
      BY <3>2, <3>3, SeqMonotonic
  <2> QED
    BY <2>1, <2>2
<1>3. PathParts \cup {"srv", "app"} = PathParts
  BY DEF PathParts
<1>4. resolvePath(v) \in Plain(PathParts)
  <2> HIDE DEF v
  <2> QED
    BY <1>2, <1>3, ResolvedIsPlain
<1> QED
  BY <1>1, <1>4

\* A number that was accepted is one.
LEMMA NumbersAccepted ==
  ASSUME NEW given \in RawEnvironments, NEW name \in DOMAIN Numbers, isValid(name, instanceOf(given)[name]),
         Numbers[name].default \in Int
  PROVE  instanceOf(given)[name].n \in Int /\ instanceOf(given)[name].is = "number"
<1>0. name \in EnvironmentVariables
  BY DEF EnvironmentVariables
<1> DEFINE v == instanceOf(given)[name]
<1>1. v = IF inText(given, name) = Unset THEN num(Numbers[name].default) ELSE toNumber(inText(given, name))
  BY <1>0, EnvironmentIs, NumberTransformed
<1>2. inText(given, name).n \in Int
  BY WrittenIs
<1>3. num(Numbers[name].default).n \in Int
  BY DEF num, raw
<1>4. toNumber(inText(given, name)).n \in Int
  BY <1>2 DEF toNumber, num, raw, NaN
<1>5. v.is = "number"
  BY NumberTransformed DEF within
<1> QED
  BY <1>1, <1>3, <1>4, <1>5

\* Accepted months of the inactive erasure are at least twelve.
LEMMA InactiveAccepted ==
  ASSUME NEW given \in RawEnvironments, isValid(INACTIVE, instanceOf(given)[INACTIVE])
  PROVE  \/ instanceOf(given)[INACTIVE] = Unset
         \/ instanceOf(given)[INACTIVE].n \in Int /\ instanceOf(given)[INACTIVE].n >= 12
<1>0. INACTIVE \in EnvironmentVariables
  BY DEF EnvironmentVariables
<1> DEFINE v == instanceOf(given)[INACTIVE]
<1>1. v = IF inText(given, INACTIVE) \in {Unset, Blank} THEN Unset ELSE toNumber(inText(given, INACTIVE))
  BY <1>0, EnvironmentIs, InactiveTransformed
<1>2. inText(given, INACTIVE).n \in Int
  BY WrittenIs
<1>3. toNumber(inText(given, INACTIVE)).n \in Int
  BY <1>2 DEF toNumber, num, raw, NaN
<1>4. v = Unset \/ within(v, 12, 240)
  BY InactiveTransformed
<1> QED
  BY <1>1, <1>3, <1>4 DEF within

\* validateEnvironment lets the API start.
Accepted(given) == ~hasProblems(given, instanceOf(given))

\* What the checks of the environment rule out, for any that passed them.
LEMMA AcceptedMeans ==
  ASSUME NEW given \in RawEnvironments, Accepted(given), NEW env, env = instanceOf(given)
  PROVE  /\ ~IsPrefix(resolvePath(env["IMAGE_STORAGE_DIR"]), resolvePath(env["AUDIT_ARCHIVE_DIR"]))
         /\ ~IsPrefix(resolvePath(env["IMAGE_STORAGE_DIR"]), cwd)
         /\ env["AUDIT_RETENTION_MONTHS"].n < env["AUDIT_ARCHIVE_RETENTION_MONTHS"].n
         /\ env[INACTIVE] # Unset => env[INACTIVE].n \in Int /\ env[INACTIVE].n >= 12
         /\ env["NODE_ENV"] = mode("production") =>
              /\ \A name \in {"FRONTEND_BASE_URL", "BACKOFFICE_BASE_URL"} :
                   env[name].at[1] = "http:" => env[name].is = "url" /\ env[name].at[2] # ""
              /\ env["JWT_SECRET"] # Unset
<1>1. \A name \in EnvironmentVariables : isValid(name, env[name])
  BY DEF Accepted, hasProblems
<1>2. "IMAGE_STORAGE_DIR" \in DOMAIN Folders /\ "AUDIT_ARCHIVE_DIR" \in DOMAIN Folders
  BY FoldersAre
<1>3. /\ resolvePath(env["IMAGE_STORAGE_DIR"]) \in Plain(PathParts) /\ env["IMAGE_STORAGE_DIR"] # Blank
      /\ resolvePath(env["AUDIT_ARCHIVE_DIR"]) \in Plain(PathParts) /\ env["AUDIT_ARCHIVE_DIR"] # Blank
  BY <1>1, <1>2, FoldersAccepted DEF EnvironmentVariables
<1>4. cwd \in Plain(PathParts)
  BY DEF cwd, PathParts, Plain
<1>5. ~IsPrefix(resolvePath(env["IMAGE_STORAGE_DIR"]), resolvePath(env["AUDIT_ARCHIVE_DIR"]))
  BY <1>3, PrefixIsInside DEF Accepted, hasProblems, auditArchiveProblems
<1>6. ~IsPrefix(resolvePath(env["IMAGE_STORAGE_DIR"]), cwd)
  BY <1>3, <1>4, PrefixIsInside DEF Accepted, hasProblems, imageStorageProblems
<1>7. env["AUDIT_RETENTION_MONTHS"].n < env["AUDIT_ARCHIVE_RETENTION_MONTHS"].n
  <2>1. DOMAIN Numbers \subseteq EnvironmentVariables
    BY DEF EnvironmentVariables
  <2>2. /\ Numbers["AUDIT_RETENTION_MONTHS"].default \in Int /\ Numbers["AUDIT_ARCHIVE_RETENTION_MONTHS"].default \in Int
    BY DEF Numbers, Merge, StoreNumbers, MailNumbers, ImageNumbers, RetentionNumbers, range
  <2>3. /\ env["AUDIT_RETENTION_MONTHS"].n \in Int /\ env["AUDIT_RETENTION_MONTHS"].is = "number"
        /\ env["AUDIT_ARCHIVE_RETENTION_MONTHS"].n \in Int /\ env["AUDIT_ARCHIVE_RETENTION_MONTHS"].is = "number"
    BY <1>1, <2>1, <2>2, NumbersAre, NumbersAccepted
  <2>4. NaN.is = "nan"
    BY DEF NaN, raw
  <2>5. ~(env["AUDIT_ARCHIVE_RETENTION_MONTHS"].n <= env["AUDIT_RETENTION_MONTHS"].n)
    BY <2>3, <2>4 DEF Accepted, hasProblems, auditArchiveProblems
  <2> QED
    BY <2>3, <2>5
<1>8. env[INACTIVE] # Unset => env[INACTIVE].n \in Int /\ env[INACTIVE].n >= 12
  BY <1>1, InactiveAccepted DEF EnvironmentVariables
<1>9. ASSUME env["NODE_ENV"] = mode("production"), NEW name \in {"FRONTEND_BASE_URL", "BACKOFFICE_BASE_URL"},
             env[name].at[1] = "http:"
      PROVE  env[name].is = "url" /\ env[name].at[2] # ""
  BY <1>1, LinkValid, <1>9 DEF BaseUrls, EnvironmentVariables, Accepted, hasProblems, frontendLinkProblems
<1>10. ASSUME env["NODE_ENV"] = mode("production")
       PROVE  env["JWT_SECRET"] # Unset
  BY <1>10, EnvironmentIs, SecretTransformed DEF Accepted, hasProblems, missingInProduction, REQUIRED_IN_PRODUCTION,
     EnvironmentVariables
<1> QED
  BY <1>5, <1>6, <1>7, <1>8, <1>9, <1>10

-----------------------------------------------------------------------------
\* Nothing leaves an API whose environment was not accepted; in production one key signs every token, of every start.
EnvironmentAccepted == api = "running" \/ sessionKey # NoKey \/ left.what # "none" => Accepted(rawEnvironment)
ProductionKeyed ==
  inProduction => /\ api = "running" => signingKey = <<"configured">>
                  /\ sessionKey \in {NoKey, <<"configured">>}
LeftSound ==
  /\ left.what = "file" => left.value = "image"
  /\ left.what = "archived" => left.value = "kept"
  /\ left.what = "idle" => environment[INACTIVE] # Unset /\ left.value >= environment[INACTIVE].n /\ left.value >= 12
  /\ left.what = "email" /\ inProduction => left.value
  /\ left.what = "link" /\ left.value = "http:" /\ inProduction => spacedLink
StartUpInv == rawEnvironment \in RawEnvironments /\ EnvironmentAccepted /\ ProductionKeyed /\ LeftSound

\* The invariant says what is checked of what leaves the API.
LEMMA StartUpImplies == StartUpInv => RunsAsConfigured
<1> SUFFICES ASSUME StartUpInv
             PROVE  RunsAsConfigured
  OBVIOUS
<1>1. retentionPolicyOf(environment).inactiveCustomerMonths = environment[INACTIVE]
  BY DEF retentionPolicyOf
<1>2. api = "running" /\ sessionKey \notin {NoKey, signingKey} => ~inProduction
  BY DEF StartUpInv, ProductionKeyed
<1> QED
  BY <1>1, <1>2 DEF StartUpInv, LeftSound, RunsAsConfigured

\* What leaves keeps the invariant if it is sound.
LEMMA LeavingKeeps ==
  ASSUME StartUpInv, NEW what, NEW value, happens(what, value), LeftSound'
  PROVE  StartUpInv'
<1>1. /\ api = "running" /\ UNCHANGED <<rawEnvironment, api, signingKey, sessionKey>>
  BY DEF happens
<1>2. Accepted(rawEnvironment)
  BY <1>1 DEF StartUpInv, EnvironmentAccepted
<1> QED
  BY <1>1, <1>2 DEF StartUpInv, EnvironmentAccepted, ProductionKeyed, inProduction, environment

\* Every step of an API that starts, runs or stops keeps the invariant.
LEMMA StartUpStep ==
  ASSUME StartUpInv, StartUpNext \/ UNCHANGED startUpVars
  PROVE  StartUpInv'
<1> DEFINE env == instanceOf(rawEnvironment)
<1>0. api = "running" \/ sessionKey # NoKey =>
        /\ Accepted(rawEnvironment)
        /\ ~IsPrefix(resolvePath(env["IMAGE_STORAGE_DIR"]), resolvePath(env["AUDIT_ARCHIVE_DIR"]))
        /\ ~IsPrefix(resolvePath(env["IMAGE_STORAGE_DIR"]), cwd)
        /\ env["AUDIT_RETENTION_MONTHS"].n < env["AUDIT_ARCHIVE_RETENTION_MONTHS"].n
        /\ env[INACTIVE] # Unset => env[INACTIVE].n \in Int /\ env[INACTIVE].n >= 12
        /\ env["NODE_ENV"] = mode("production") =>
             /\ \A name \in {"FRONTEND_BASE_URL", "BACKOFFICE_BASE_URL"} :
                  env[name].at[1] = "http:" => env[name].is = "url" /\ env[name].at[2] # ""
             /\ env["JWT_SECRET"] # Unset
  BY AcceptedMeans DEF StartUpInv, EnvironmentAccepted
<1>e. environment = env
  BY DEF environment
<1> HIDE DEF env
<1>1. CASE validateEnvironment
  <2>0. UNCHANGED <<rawEnvironment, sessionKey, left>>
    BY <1>1 DEF validateEnvironment
  <2>1. CASE hasProblems(rawEnvironment, environment)
    <3>1. api' = "refused"
      BY <1>1, <2>1 DEF validateEnvironment
    <3> QED
      BY <2>0, <3>1 DEF StartUpInv, EnvironmentAccepted, ProductionKeyed, LeftSound, inProduction, spacedLink, environment
  <2>2. CASE ~hasProblems(rawEnvironment, environment)
    <3>1. Accepted(rawEnvironment) /\ api' = "running" /\ signingKey' = fromConfig
      BY <1>1, <2>2 DEF validateEnvironment, Accepted, environment
    <3>2. inProduction => signingKey' = <<"configured">>
      BY <3>1, <1>e, AcceptedMeans DEF StartUpInv, inProduction, env, fromConfig, get
    <3> QED
      BY <2>0, <3>1, <3>2 DEF StartUpInv, EnvironmentAccepted, ProductionKeyed, LeftSound, inProduction, spacedLink, environment
  <2> QED
    BY <2>1, <2>2
<1>2. CASE restart
  BY <1>2 DEF restart, StartUpInv, EnvironmentAccepted, ProductionKeyed, LeftSound, inProduction, spacedLink, environment
<1>3. CASE signAccessToken
  BY <1>3 DEF signAccessToken, StartUpInv, EnvironmentAccepted, ProductionKeyed, LeftSound, inProduction, spacedLink, environment
<1>4. CASE serveMedia
  <2>1. PICK f \in Files : IsPrefix(resolvePath(get("IMAGE_STORAGE_DIR")), f.at) /\ ~f.dotted /\ happens("file", f.kind)
    BY <1>4 DEF serveMedia
  <2>2. get("IMAGE_STORAGE_DIR") = env["IMAGE_STORAGE_DIR"] /\ get("AUDIT_ARCHIVE_DIR") = env["AUDIT_ARCHIVE_DIR"]
    BY <1>e DEF get
  <2>3. api = "running"
    BY <2>1 DEF happens
  <2>4. f.kind = "image"
    <3>1. f \in {[kind |-> "image", at |-> resolvePath(env["IMAGE_STORAGE_DIR"]), dotted |-> FALSE],
                  [kind |-> "upload", at |-> resolvePath(env["IMAGE_STORAGE_DIR"]), dotted |-> TRUE],
                  [kind |-> "archive", at |-> resolvePath(env["AUDIT_ARCHIVE_DIR"]), dotted |-> FALSE],
                  [kind |-> "draft", at |-> resolvePath(env["AUDIT_ARCHIVE_DIR"]), dotted |-> TRUE],
                  [kind |-> "code", at |-> cwd, dotted |-> FALSE], [kind |-> ".env", at |-> cwd, dotted |-> TRUE]}
      BY <2>2 DEF Files, file
    <3>2. f.at # resolvePath(env["AUDIT_ARCHIVE_DIR"]) /\ f.at # cwd
      BY <1>0, <2>1, <2>2, <2>3
    <3> QED
      BY <2>1, <3>1, <3>2
  <2>5. LeftSound'
    BY <2>1, <2>4 DEF happens, LeftSound
  <2> QED
    BY <2>1, <2>5, LeavingKeeps
<1>5. CASE link
  <2>1. PICK name \in {"FRONTEND_BASE_URL", "BACKOFFICE_BASE_URL"} : happens("link", env[name].at[1])
    BY <1>5, <1>e DEF link, get
  <2>2. api = "running" /\ left' = [what |-> "link", value |-> env[name].at[1]] /\ UNCHANGED rawEnvironment
    BY <2>1 DEF happens
  <2>3. env[name].at[1] = "http:" /\ inProduction => spacedLink
    BY <1>0, <1>e, <2>2 DEF inProduction, spacedLink
  <2>4. LeftSound'
    BY <2>2, <2>3 DEF LeftSound, inProduction, spacedLink, environment
  <2> QED
    BY <2>1, <2>4, LeavingKeeps
<1>6. CASE send
  <2>1. PICK offered \in BOOLEAN : /\ get("SMTP_PORT").n = 465 \/ offered \/ get("NODE_ENV") # mode("production")
                                  /\ happens("email", get("SMTP_PORT").n = 465 \/ offered)
    BY <1>6 DEF send
  <2>2. left' = [what |-> "email", value |-> get("SMTP_PORT").n = 465 \/ offered] /\ UNCHANGED rawEnvironment
    BY <2>1 DEF happens
  <2>3. inProduction => get("SMTP_PORT").n = 465 \/ offered
    BY <2>1 DEF inProduction, get
  <2>4. LeftSound'
    BY <2>2, <2>3 DEF LeftSound, inProduction, environment
  <2> QED
    BY <2>1, <2>4, LeavingKeeps
<1>7. CASE anonymizeInactive
  <2>1. PICK months \in {0, 11, 12, 240} : get(INACTIVE) # Unset /\ months >= get(INACTIVE).n /\ happens("idle", months)
    BY <1>7 DEF anonymizeInactive
  <2>2. api = "running" /\ left' = [what |-> "idle", value |-> months] /\ UNCHANGED rawEnvironment
    BY <2>1 DEF happens
  <2>3. env[INACTIVE] # Unset /\ months >= env[INACTIVE].n
    BY <1>e, <2>1 DEF get
  <2>4. env[INACTIVE].n \in Int /\ env[INACTIVE].n >= 12
    BY <1>0, <2>2, <2>3
  <2>5. months >= 12
    BY <2>3, <2>4
  <2>6. LeftSound'
    BY <1>e, <2>2, <2>3, <2>5 DEF LeftSound, environment
  <2> QED
    BY <2>1, <2>6, LeavingKeeps
<1>8. CASE archiveAudit
  BY <1>8, <1>e, <1>0, LeavingKeeps DEF archiveAudit, get, happens, LeftSound
<1>9. CASE UNCHANGED startUpVars
  BY <1>9 DEF startUpVars, StartUpInv, EnvironmentAccepted, ProductionKeyed, LeftSound, inProduction, spacedLink, environment
<1> QED
  BY <1>1, <1>2, <1>3, <1>4, <1>5, <1>6, <1>7, <1>8, <1>9 DEF StartUpNext

\* Whatever the operator wrote, an API that runs serves, keeps, erases and sends as RunsAsConfigured says
\* (validateEnvironment and those who read the environment), for every environment and any number of starts.
THEOREM AlwaysRunsAsConfigured == StartUpSpec => []RunsAsConfigured
<1>1. StartUpInit => StartUpInv
  BY DEF StartUpInit, StartIn, StartUpInv, EnvironmentAccepted, ProductionKeyed, LeftSound
<1>2. StartUpInv /\ [StartUpNext]_startUpVars => StartUpInv'
  BY StartUpStep
<1> QED
  BY <1>1, <1>2, StartUpImplies, PTL DEF StartUpSpec

-----------------------------------------------------------------------------
(* Listings: the inductive invariant.                                      *)

\* What is in a slot that holds a row.
SlotRows == [key : SortValues \cup {NULL}, status : {"open", "closed"}, person : Persons \cup {Gone},
             customer : Persons \cup {Guest}, blocked : BOOLEAN]
Views == [contact : Persons \cup {Gone}, customer : Persons \cup {Guest}]

Walks == [listing : ByPage \cup ByCursor, filter : Filters, direction : {"asc", "desc"}, pageSize : PageSizes,
          page : Nat \ {0}, step : {"rows", "total", "page", "end"}, seen : Seq(RowIds),
          people : Seq(Views), total : Nat, position : [at : Nat, id : Nat]]

ListingsType == listed \in [RowIds -> {EmptySlot, Deleted} \cup SlotRows] /\ walk \in Walks /\ rowChanges \in Nat

Matching == matching(walk.listing, walk.filter)
Shown == {walk.seen[i] : i \in 1..Len(walk.seen)}
\* Which row comes before which, what is ahead of the cursor, and how many of the rows come before each.
Order == {pair \in RowIds \X RowIds : precedes(walk.listing, walk.direction, pair[1], pair[2])}
Later == {id \in RowIds : afterCursor(walk.position, id)}
rank == [id \in RowIds |-> Cardinality({x \in Matching : <<x, id>> \in Order})]
AllOf == Cardinality(Matching)

\* What did not change matches still; only the listings that can hide a person have blocked rows.
RowsSound ==
  /\ steadily \subseteq Matching
  /\ \A id \in Listed : listed[id].blocked => walk.listing \in WithBlocking

\* A cursor goes back in time, through rows that have one.
TimesKnown == walk.listing \in ByCursor => walk.direction = "desc" /\ walk.step # "total" /\ \A id \in Listed : listed[id].key # NULL

\* What a walk by cursor showed never comes again, and what it did not show yet is ahead of it.
ShownOnce == \A i, j \in 1..Len(walk.seen) : i < j => walk.seen[i] # walk.seen[j]
ShownInOrder ==
  \A i, j \in 1..Len(walk.seen) : i < j /\ walk.seen[i] \in Listed /\ walk.seen[j] \in Listed => <<walk.seen[i], walk.seen[j]>> \in Order
ShownStays == \A i \in 1..Len(walk.seen) : listed[walk.seen[i]] # EmptySlot
ShownBehind ==
  walk.step # "end" => /\ walk.position = NoPosition => walk.seen = <<>>
                       /\ \A i \in 1..Len(walk.seen) : walk.seen[i] \in Listed => walk.seen[i] \notin Later
NoneMissed == \A id \in steadily : id \in Shown \/ (walk.step # "end" /\ id \in Later)
CursorSound == walk.listing \in ByCursor => ShownOnce /\ ShownInOrder /\ ShownStays /\ ShownBehind /\ NoneMissed

\* What pages showed so far are the first of the rows.
AskedFor == walk.page * walk.pageSize
FirstRows == \A i \in 1..Len(walk.seen) : walk.seen[i] \in Matching /\ rank[walk.seen[i]] = i - 1
HowMany ==
  /\ walk.step = "rows" => Len(walk.seen) = pageOffset(walk.page, walk.pageSize) /\ Len(walk.seen) <= AllOf
  /\ walk.step # "rows" => Len(walk.seen) = IF AskedFor <= AllOf THEN AskedFor ELSE AllOf
  /\ walk.step = "page" => AskedFor < AllOf
  /\ walk.step = "end" => walk.total = AllOf /\ AllOf <= AskedFor
PagesSound == walk.listing \in ByPage /\ rowChanges = 0 => FirstRows /\ HowMany

ListingsInv == ListingsType /\ RowsSound /\ TimesKnown /\ CursorSound /\ PagesSound

-----------------------------------------------------------------------------
(* Listings: the order is total, and rows answered in it hold each once.   *)

\* An empty slot and a deleted row are no rows a listing may answer.
LEMMA SlotFacts ==
  /\ EmptySlot.key = 0 /\ EmptySlot.status = "none" /\ Deleted.key = 0 /\ Deleted.status = "deleted"
  /\ \A r \in SlotRows : r # EmptySlot /\ r # Deleted
<1>1. EmptySlot.key = 0 /\ EmptySlot.status = "none"
  BY DEF EmptySlot, NULL
<1>2. Deleted.key = 0 /\ Deleted.status = "deleted"
  BY DEF Deleted, EmptySlot, NULL
<1>3. \A r \in SlotRows : r.status # "none" /\ r.status # "deleted"
  BY DEF SlotRows
<1> QED
  BY <1>1, <1>2, <1>3

\* The keys by which rows are sorted are numbers.
LEMMA RowKeys ==
  ASSUME ListingsType
  PROVE  /\ \A id \in RowIds : id \in Nat /\ listed[id].key \in Nat
         /\ \A id \in Listed : id \in RowIds /\ listed[id] \in SlotRows
<1>1. \A r \in {EmptySlot, Deleted} \cup SlotRows : r.key \in Nat
  <2>1. \A r \in SlotRows : r.key \in Nat
    <3>1. SortValues \cup {NULL} \subseteq Nat
      BY ListingsAssumption DEF NULL
    <3>2. \A r \in SlotRows : r.key \in SortValues \cup {NULL}
      BY DEF SlotRows
    <3> QED
      BY <3>1, <3>2
  <2>2. EmptySlot.key = 0 /\ Deleted.key = 0
    BY SlotFacts
  <2> QED
    BY <2>1, <2>2
<1>2. \A id \in RowIds : listed[id] \in {EmptySlot, Deleted} \cup SlotRows
  BY DEF ListingsType
<1>3. \A id \in RowIds : id \in Nat
  BY ListingsAssumption
<1> QED
  BY <1>1, <1>2, <1>3 DEF Listed

\* The order of a listing is total, whatever key and direction: a page has one first row left to answer.
LEMMA Comparable ==
  ASSUME ListingsType, NEW l, NEW d, NEW a \in RowIds, NEW b \in RowIds, NEW c \in RowIds
  PROVE  /\ a # b => precedes(l, d, a, b) \/ precedes(l, d, b, a)
         /\ ~(precedes(l, d, a, b) /\ precedes(l, d, b, a))
         /\ precedes(l, d, a, b) /\ precedes(l, d, b, c) => precedes(l, d, a, c)
<1> DEFINE x == listed[a].key
           y == listed[b].key
           z == listed[c].key
           bef(s, t) == IF s = t THEN FALSE ELSE IF t = 0 THEN TRUE ELSE IF s = 0 THEN FALSE ELSE IF d = "asc" THEN s < t ELSE s > t
           tie(i, j) == IF l \in ByCursor THEN i > j ELSE i < j
           pre(s, t, i, j) == bef(s, t) \/ (~bef(t, s) /\ tie(i, j))
<1>1. x \in Nat /\ y \in Nat /\ z \in Nat /\ a \in Nat /\ b \in Nat /\ c \in Nat
  BY RowKeys
<1>2. /\ precedes(l, d, a, b) <=> pre(x, y, a, b)
      /\ precedes(l, d, b, a) <=> pre(y, x, b, a)
      /\ precedes(l, d, b, c) <=> pre(y, z, b, c)
      /\ precedes(l, d, a, c) <=> pre(x, z, a, c)
  BY DEF before, NULL, precedes, tieBreak
<1> HIDE DEF x, y, z
<1>3. a # b => pre(x, y, a, b) \/ pre(y, x, b, a)
  BY <1>1
<1>4. ~(pre(x, y, a, b) /\ pre(y, x, b, a))
  BY <1>1
<1>5. pre(x, y, a, b) /\ pre(y, z, b, c) => pre(x, z, a, c)
  BY <1>1
<1> HIDE DEF pre
<1> QED
  BY <1>2, <1>3, <1>4, <1>5

\* What a table answers in order: each row once, each after the ones before it.
LEMMA SortedRows ==
  ASSUME ListingsType, NEW l, NEW d, NEW S \in SUBSET RowIds, NEW p \in SortedIds(l, d, S)
  PROVE  /\ IsFiniteSet(S) /\ Cardinality(S) \in Nat
         /\ p \in Seq(RowIds) /\ Len(p) = Cardinality(S) /\ \A i \in 1..Len(p) : p[i] \in S
         /\ \A i, j \in 1..Len(p) : i < j => p[i] # p[j] /\ precedes(l, d, p[i], p[j])
         /\ \A x \in S : \E i \in 1..Len(p) : p[i] = x
<1> DEFINE n == Cardinality(S)
<1>1. IsFiniteSet(S) /\ n \in Nat
  BY FS_Subset, FS_CardinalityType, ListingsAssumption
<1>2. p \in [1..n -> S] /\ \A i, j \in 1..n : i < j => p[i] # p[j] /\ ~precedes(l, d, p[j], p[i])
  BY DEF SortedIds
<1>3. p \in Seq(RowIds) /\ Len(p) = n
  <2> HIDE DEF n
  <2>1. p \in [1..n -> RowIds]
    BY <1>2
  <2> QED
    BY <1>1, <2>1
<1>4. \A i, j \in 1..n : i < j => precedes(l, d, p[i], p[j])
  BY <1>2, Comparable
<1>5. \A x \in S : \E i \in 1..n : p[i] = x
  <2>1. \A i, j \in 1..n : p[i] = p[j] => i = j
    BY <1>2, <1>1
  <2>2. p \in Injection(1..n, S)
    BY <1>2, <2>1 DEF Injection, IsInjective
  <2>3. IsFiniteSet(1..n) /\ Cardinality(1..n) = n
    BY <1>1, FS_Interval
  <2>4. p \in Surjection(1..n, S)
    BY <2>2, <2>3, <1>1, FS_Injection
  <2> QED
    BY <2>4 DEF Surjection
<1> QED
  BY <1>1, <1>2, <1>3, <1>4, <1>5

\* As many rows come before one as there are before it in the answer.
LEMMA RankIsPlace ==
  ASSUME ListingsType, NEW l, NEW d, NEW S \in SUBSET RowIds, NEW p \in SortedIds(l, d, S), NEW i \in 1..Len(p)
  PROVE  Cardinality({x \in S : precedes(l, d, x, p[i])}) = i - 1
<1> DEFINE T == {x \in S : precedes(l, d, x, p[i])}
           f == [k \in 1..(i - 1) |-> p[k]]
<1>1. /\ Len(p) \in Nat /\ \A k \in 1..Len(p) : p[k] \in S
      /\ \A k, j \in 1..Len(p) : k < j => p[k] # p[j] /\ precedes(l, d, p[k], p[j])
      /\ \A x \in S : \E k \in 1..Len(p) : p[k] = x
  BY SortedRows
<1>2. \A k \in 1..(i - 1) : k \in 1..Len(p) /\ k < i
  BY <1>1
<1>3. \A k \in 1..(i - 1) : p[k] \in T
  BY <1>1, <1>2
<1>4. \A k, j \in 1..(i - 1) : p[k] = p[j] => k = j
  BY <1>1, <1>2
<1>5. \A x \in T : \E k \in 1..(i - 1) : p[k] = x
  <2> TAKE x \in T
  <2>1. PICK k \in 1..Len(p) : p[k] = x
    BY <1>1
  <2>2. precedes(l, d, p[k], p[i])
    BY <2>1
  <2>3. ~precedes(l, d, p[i], p[k])
    BY <2>2, <1>1, Comparable
  <2>4. ~(i < k)
    BY <2>3, <1>1
  <2>5. i # k
    BY <2>2, <2>3
  <2>6. k \in 1..(i - 1)
    BY <2>4, <2>5, <1>1
  <2> QED
    BY <2>1, <2>6
<1>6. f \in Bijection(1..(i - 1), T)
  <2> HIDE DEF T
  <2>1. f \in [1..(i - 1) -> T]
    BY <1>3
  <2>2. f \in Injection(1..(i - 1), T)
    BY <2>1, <1>4 DEF Injection, IsInjective
  <2>3. f \in Surjection(1..(i - 1), T)
    BY <2>1, <1>5 DEF Surjection
  <2> QED
    BY <2>2, <2>3 DEF Bijection
<1>7. ExistsBijection(1..(i - 1), T)
  BY <1>6 DEF ExistsBijection
<1>8. i - 1 \in Nat
  BY <1>1
<1> HIDE DEF T
<1>9. Cardinality(T) = i - 1
  BY <1>7, <1>8, FS_CountingElements
<1> QED
  BY <1>9 DEF T

\* What one page of the rows is.
LEMMA SliceOf ==
  ASSUME NEW S, NEW rows \in Seq(S), NEW offset \in Nat, NEW limit \in Nat, offset <= Len(rows)
  PROVE  /\ slice(rows, offset, limit) \in Seq(S)
         /\ Len(slice(rows, offset, limit)) = IF offset + limit < Len(rows) THEN limit ELSE Len(rows) - offset
         /\ \A i \in 1..Len(slice(rows, offset, limit)) : offset + i \in 1..Len(rows) /\ slice(rows, offset, limit)[i] = rows[offset + i]
<1> DEFINE top == IF offset + limit < Len(rows) THEN offset + limit ELSE Len(rows)
           s == SubSeq(rows, offset + 1, top)
<1>1. slice(rows, offset, limit) = s
  BY DEF slice
<1>2. top \in Nat /\ offset <= top /\ top <= Len(rows) /\ Len(rows) \in Nat
  OBVIOUS
<1>3. top - offset = IF offset + limit < Len(rows) THEN limit ELSE Len(rows) - offset
  OBVIOUS
<1> HIDE DEF top
<1>4. \A i \in (offset + 1)..top : rows[i] \in S
  BY <1>2
<1>5. /\ s \in Seq(S) /\ Len(s) = IF offset + 1 <= top THEN top - (offset + 1) + 1 ELSE 0
      /\ \A i \in 1..(top - (offset + 1) + 1) : s[i] = rows[(offset + 1) + i - 1]
  BY <1>2, <1>4, SubSeqProperties
<1> HIDE DEF s
<1>6. Len(s) = top - offset
  BY <1>5, <1>2
<1>7. \A i \in 1..Len(s) : offset + i \in 1..Len(rows) /\ s[i] = rows[offset + i]
  BY <1>6, <1>2, <1>5
<1> QED
  BY <1>1, <1>3, <1>5, <1>6, <1>7

-----------------------------------------------------------------------------
(* Listings: what is asked stays, and what a read shows.                   *)

\* What the rows and the question say of a walk is the same while neither changes.
LEMMA SameRows ==
  ASSUME UNCHANGED <<listed, rowChanges, steadily>>,
         walk'.listing = walk.listing, walk'.filter = walk.filter, walk'.direction = walk.direction
  PROVE  Listed' = Listed /\ Matching' = Matching /\ Order' = Order /\ rank' = rank /\ AllOf' = AllOf
<1>1. Listed' = Listed
  BY DEF Listed
<1>2. Matching' = Matching
  BY <1>1 DEF Matching, matching
<1>3. Order' = Order
  BY DEF Order, precedes, before
<1> QED
  BY <1>1, <1>2, <1>3 DEF rank, AllOf

\* The rows a listing matches are finitely many, so that a total counts them.
LEMMA MatchingIsFinite ==
  ASSUME ListingsType
  PROVE  Matching \subseteq Listed /\ Matching \subseteq RowIds /\ IsFiniteSet(Matching) /\ AllOf \in Nat
<1>1. Matching \subseteq Listed /\ Listed \subseteq RowIds
  BY DEF Matching, matching, Listed
<1> QED
  BY <1>1, ListingsAssumption, FS_Subset, FS_CardinalityType DEF AllOf

\* What is shown of a row.
LEMMA ViewType ==
  ASSUME NEW l, NEW r \in SlotRows
  PROVE  view(l, r) \in Views
<1>1. r.person \in Persons \cup {Gone} /\ r.customer \in Persons \cup {Guest}
  BY DEF SlotRows
<1>2. [contact |-> r.person, customer |-> r.customer] \in Views /\ [contact |-> r.person, customer |-> Guest] \in Views
  BY <1>1 DEF Views
<1>3. [contact |-> Gone, customer |-> r.customer] \in Views /\ [contact |-> Gone, customer |-> Guest] \in Views
  BY <1>1 DEF Views
<1>4. toAdminSummaryView(r) \in Views
  BY <1>2, <1>3 DEF toAdminSummaryView, toSummaryView
<1> QED
  BY <1>2, <1>3, <1>4 DEF view, toSummaryView, toShipmentView, shown

\* The walk after it showed some rows.
LEMMA ShowFacts ==
  ASSUME ListingsType, NEW ids \in Seq(RowIds), \A i \in 1..Len(ids) : ids[i] \in Listed
  PROVE  /\ show(ids) \in Walks /\ show(ids).seen = walk.seen \o ids
         /\ show(ids).listing = walk.listing /\ show(ids).filter = walk.filter /\ show(ids).direction = walk.direction
         /\ show(ids).pageSize = walk.pageSize /\ show(ids).page = walk.page /\ show(ids).position = walk.position
<1> DEFINE views == [i \in 1..Len(ids) |-> view(walk.listing, listed[ids[i]])]
<1>1. walk \in Walks
  BY DEF ListingsType
<1>2. \A i \in 1..Len(ids) : view(walk.listing, listed[ids[i]]) \in Views
  BY RowKeys, ViewType
<1>3. views \in Seq(Views)
  BY <1>2
<1>4. show(ids) = [walk EXCEPT !.seen = @ \o ids, !.people = @ \o views]
  BY DEF show
<1> HIDE DEF views
<1>5. walk.seen \o ids \in Seq(RowIds) /\ walk.people \o views \in Seq(Views)
  BY <1>1, <1>3 DEF Walks
<1> QED
  BY <1>1, <1>4, <1>5 DEF Walks

\* A step of the reader leaves the rows and what is known of their times.
LEMMA RowsAndTimesStay ==
  ASSUME ListingsInv, UNCHANGED <<listed, rowChanges, steadily>>, walk' \in Walks,
         walk'.listing = walk.listing, walk'.filter = walk.filter, walk'.direction = walk.direction,
         walk.listing \in ByCursor => walk'.step # "total"
  PROVE  ListingsType' /\ RowsSound' /\ TimesKnown'
<1>1. Listed' = Listed /\ Matching' = Matching
  BY SameRows
<1>2. ListingsType'
  BY DEF ListingsInv, ListingsType
<1>3. RowsSound'
  BY <1>1 DEF ListingsInv, RowsSound
<1>4. TimesKnown'
  BY <1>1 DEF ListingsInv, TimesKnown
<1> QED
  BY <1>2, <1>3, <1>4

\* A listing walks by page or by cursor.
LEMMA ListingNames == ByPage \cap ByCursor = {} /\ "stockBySku" \in ByPage
  BY DEF ByPage, ByCursor, WithBlocking

-----------------------------------------------------------------------------
(* Listings by page.                                                       *)

\* A page that begins after the last row is empty.
LEMMA SliceBeyond ==
  ASSUME NEW S, NEW rows \in Seq(S), NEW offset \in Nat, NEW limit \in Nat, offset > Len(rows)
  PROVE  slice(rows, offset, limit) = <<>>
<1>1. Len(rows) \in Nat
  OBVIOUS
<1>2. ~(offset + limit < Len(rows)) /\ Len(rows) < offset + 1
  BY <1>1
<1>3. SubSeq(rows, offset + 1, Len(rows)) = <<>>
  BY <1>1, <1>2, SubSeqEmpty
<1> QED
  BY <1>2, <1>3 DEF slice

\* Pages follow each other with no row between them.
LEMMA OffsetFacts ==
  ASSUME NEW page \in Nat \ {0}, NEW size \in Nat \ {0}
  PROVE  /\ pageOffset(page, size) \in Nat /\ page * size \in Nat /\ page * size = pageOffset(page, size) + size
         /\ pageOffset(page + 1, size) = page * size
<1>1. page - 1 \in Nat
  OBVIOUS
<1>2. (page - 1) * size \in Nat
  BY <1>1
<1>3. page * size \in Nat
  OBVIOUS
<1>4. page * size = (page - 1) * size + size
  OBVIOUS
<1>5. (page + 1) - 1 = page
  OBVIOUS
<1> QED
  BY <1>2, <1>3, <1>4, <1>5 DEF pageOffset

\* How many pages there are: a page is the last one when it reaches the total.
LEMMA PagesFacts ==
  ASSUME NEW page \in Nat \ {0}, NEW size \in Nat \ {0}, NEW n \in Nat
  PROVE  page < totalPages(n, size) <=> page * size < n
<1> DEFINE q == (n + size - 1) \div size
           r == (n + size - 1) % size
<1>1. q \in Int /\ r \in 0..(size - 1) /\ n + size - 1 = size * q + r
  OBVIOUS
<1> HIDE DEF q, r
<1>2. CASE page < q
  <2>1. PICK k \in Nat : q = page + 1 + k
    BY <1>1, <1>2
  <2>2. size * q = page * size + size + size * k
    BY <2>1
  <2>3. size * k >= 0 /\ page * size \in Int
    BY <2>1
  <2> QED
    BY <1>1, <1>2, <2>2, <2>3 DEF totalPages, q
<1>3. CASE ~(page < q)
  <2>1. PICK k \in Nat : page = q + k
    BY <1>1, <1>3
  <2>2. page * size = size * q + size * k
    BY <2>1, <1>1
  <2>3. size * k >= 0 /\ size * q \in Int
    BY <2>1, <1>1
  <2> QED
    BY <1>1, <1>3, <2>2, <2>3 DEF totalPages, q
<1> QED
  BY <1>2, <1>3

\* The place of a row in the answer is its rank.
LEMMA RanksOfRows ==
  ASSUME ListingsType, NEW rows \in SortedIds(walk.listing, walk.direction, Matching)
  PROVE  /\ rows \in Seq(RowIds) /\ Len(rows) = AllOf
         /\ \A i \in 1..Len(rows) : rows[i] \in Matching /\ rank[rows[i]] = i - 1
<1>1. Matching \subseteq RowIds
  BY MatchingIsFinite
<1>2. rows \in Seq(RowIds) /\ Len(rows) = AllOf /\ \A i \in 1..Len(rows) : rows[i] \in Matching
  BY <1>1, SortedRows DEF AllOf
<1>3. ASSUME NEW i \in 1..Len(rows)
      PROVE  rank[rows[i]] = i - 1
  <2>1. Cardinality({x \in Matching : precedes(walk.listing, walk.direction, x, rows[i])}) = i - 1
    BY <1>1, RankIsPlace
  <2>2. rows[i] \in RowIds
    BY <1>1, <1>2
  <2>3. {x \in Matching : <<x, rows[i]>> \in Order} = {x \in Matching : precedes(walk.listing, walk.direction, x, rows[i])}
    BY <1>1, <2>2 DEF Order
  <2> QED
    BY <2>1, <2>2, <2>3 DEF rank
<1> QED
  BY <1>2, <1>3

\* The rows of the next page are the next ones.
LEMMA NextOnes ==
  ASSUME ListingsInv, walk.listing \in ByPage, walk.step = "rows", NEW rows \in SortedIds(walk.listing, walk.direction, Matching),
         NEW ids, ids = slice(rows, pageOffset(walk.page, walk.pageSize), walk.pageSize)
  PROVE  /\ ids \in Seq(RowIds) /\ \A i \in 1..Len(ids) : ids[i] \in Listed
         /\ rowChanges = 0 =>
              /\ \A i \in 1..Len(walk.seen \o ids) : (walk.seen \o ids)[i] \in Matching /\ rank[(walk.seen \o ids)[i]] = i - 1
              /\ Len(walk.seen \o ids) = IF AskedFor <= AllOf THEN AskedFor ELSE AllOf
<1> DEFINE off == pageOffset(walk.page, walk.pageSize)
           size == walk.pageSize
           old == walk.seen
<1>1. ListingsType /\ walk.page \in Nat \ {0} /\ size \in Nat \ {0} /\ old \in Seq(RowIds)
  BY ListingsAssumption DEF ListingsInv, ListingsType, Walks
<1>2. off \in Nat /\ AskedFor = off + size
  BY <1>1, OffsetFacts DEF AskedFor
<1>3. rows \in Seq(RowIds) /\ Len(rows) = AllOf /\ \A i \in 1..Len(rows) : rows[i] \in Matching /\ rank[rows[i]] = i - 1
  BY <1>1, RanksOfRows
<1>4. AllOf \in Nat /\ Matching \subseteq Listed
  BY <1>1, MatchingIsFinite
<1>5. ids = slice(rows, off, size)
  OBVIOUS
<1>6. rowChanges = 0 => Len(old) = off /\ off <= AllOf /\ \A i \in 1..Len(old) : old[i] \in Matching /\ rank[old[i]] = i - 1
  BY DEF ListingsInv, PagesSound, FirstRows, HowMany
<1> HIDE DEF off, size, old
<1>7. CASE off > Len(rows)
  <2>1. ids = <<>>
    BY <1>1, <1>2, <1>3, <1>5, <1>7, SliceBeyond
  <2>2. rowChanges # 0
    BY <1>2, <1>3, <1>4, <1>6, <1>7
  <2> QED
    BY <2>1, <2>2
<1>8. CASE off <= Len(rows)
  <2>1. /\ ids \in Seq(RowIds) /\ Len(ids) = IF off + size < Len(rows) THEN size ELSE Len(rows) - off
        /\ \A i \in 1..Len(ids) : off + i \in 1..Len(rows) /\ ids[i] = rows[off + i]
    <3>1. size \in Nat /\ off \in Nat /\ rows \in Seq(RowIds)
      BY <1>1, <1>2, <1>3
    <3>2. /\ slice(rows, off, size) \in Seq(RowIds)
          /\ Len(slice(rows, off, size)) = IF off + size < Len(rows) THEN size ELSE Len(rows) - off
          /\ \A i \in 1..Len(slice(rows, off, size)) : off + i \in 1..Len(rows) /\ slice(rows, off, size)[i] = rows[off + i]
      BY <3>1, <1>8, SliceOf
    <3> QED
      BY <3>2, <1>5
  <2>2. \A i \in 1..Len(ids) : ids[i] \in Listed
    BY <2>1, <1>3, <1>4
  <2>3. ASSUME rowChanges = 0
        PROVE  Len(old \o ids) = IF AskedFor <= AllOf THEN AskedFor ELSE AllOf
    <3>1. Len(old \o ids) = Len(old) + Len(ids)
      BY <1>1, <2>1
    <3>2. Len(ids) = IF off + size < AllOf THEN size ELSE AllOf - off
      BY <2>1, <1>3
    <3>3. Len(old) = off
      BY <1>6, <2>3
    <3>4. size \in Nat
      BY <1>1
    <3> QED
      BY <3>1, <3>2, <3>3, <3>4, <1>2, <1>4
  <2>4. ASSUME rowChanges = 0, NEW i \in 1..Len(old \o ids)
        PROVE  (old \o ids)[i] \in Matching /\ rank[(old \o ids)[i]] = i - 1
    <3>1. CASE i <= Len(old)
      <4>1. i \in 1..Len(old) /\ (old \o ids)[i] = old[i]
        BY <3>1, <1>1, <2>1
      <4> QED
        BY <4>1, <1>6, <2>4
    <3>2. CASE i > Len(old)
      <4>1. i - Len(old) \in 1..Len(ids) /\ (old \o ids)[i] = ids[i - Len(old)]
        BY <3>2, <1>1, <2>1
      <4>2. Len(old) = off
        BY <1>6, <2>4
      <4>3. i - off \in 1..Len(ids) /\ off + (i - off) = i
        BY <4>1, <4>2, <1>2
      <4>4. i \in 1..Len(rows) /\ ids[i - off] = rows[i]
        BY <4>3, <2>1
      <4> QED
        BY <4>1, <4>2, <4>4, <1>3
    <3>3. Len(old) \in Nat
      BY <1>1
    <3> QED
      BY <3>1, <3>2, <3>3
  <2> QED
    BY <2>1, <2>2, <2>3, <2>4 DEF old
<1>9. Len(rows) \in Nat
  BY <1>3
<1>10. off > Len(rows) \/ off <= Len(rows)
  BY <1>2, <1>9
<1> QED
  BY <1>7, <1>8, <1>10

\* Reading a page of rows keeps the invariant.
LEMMA ReadRowsKeeps ==
  ASSUME ListingsInv, readRows
  PROVE  ListingsInv'
<1>1. /\ walk.listing \in ByPage /\ walk.step = "rows" /\ UNCHANGED <<listed, rowChanges, steadily>> /\ walk.listing \notin ByCursor
  BY ListingNames DEF readRows
<1>2. PICK rows \in SortedIds(walk.listing, walk.direction, Matching) :
        walk' = [show(slice(rows, pageOffset(walk.page, walk.pageSize), walk.pageSize)) EXCEPT !.step = "total"]
  BY DEF readRows, Matching
<1> DEFINE ids == slice(rows, pageOffset(walk.page, walk.pageSize), walk.pageSize)
<1>3. walk' = [show(ids) EXCEPT !.step = "total"]
  BY <1>2
<1>4. /\ ids \in Seq(RowIds) /\ \A i \in 1..Len(ids) : ids[i] \in Listed
      /\ rowChanges = 0 =>
           /\ \A i \in 1..Len(walk.seen \o ids) : (walk.seen \o ids)[i] \in Matching /\ rank[(walk.seen \o ids)[i]] = i - 1
           /\ Len(walk.seen \o ids) = IF AskedFor <= AllOf THEN AskedFor ELSE AllOf
  BY <1>1, NextOnes
<1> HIDE DEF ids
<1>5. /\ show(ids) \in Walks /\ show(ids).seen = walk.seen \o ids
      /\ show(ids).listing = walk.listing /\ show(ids).filter = walk.filter /\ show(ids).direction = walk.direction
      /\ show(ids).pageSize = walk.pageSize /\ show(ids).page = walk.page
  BY <1>4, ShowFacts DEF ListingsInv
<1>6. /\ walk' \in Walks /\ walk'.seen = walk.seen \o ids /\ walk'.step = "total"
      /\ walk'.listing = walk.listing /\ walk'.filter = walk.filter /\ walk'.direction = walk.direction
      /\ walk'.pageSize = walk.pageSize /\ walk'.page = walk.page
  BY <1>3, <1>5 DEF Walks
<1>7. ListingsType' /\ RowsSound' /\ TimesKnown'
  BY <1>1, <1>6, RowsAndTimesStay
<1>8. Matching' = Matching /\ rank' = rank /\ AllOf' = AllOf
  BY <1>1, <1>6, SameRows
<1>9. CursorSound'
  BY <1>1, <1>6 DEF CursorSound
<1>10. AskedFor' = AskedFor
  BY <1>6 DEF AskedFor
<1>11. PagesSound'
  BY <1>1, <1>4, <1>6, <1>8, <1>10 DEF PagesSound, FirstRows, HowMany
<1> QED
  BY <1>7, <1>9, <1>11 DEF ListingsInv

\* Reading the total after the rows keeps the invariant, rows having changed between the two.
LEMMA ReadTotalKeeps ==
  ASSUME ListingsInv, readTotal
  PROVE  ListingsInv'
<1>1. walk.step = "total" /\ UNCHANGED <<listed, rowChanges, steadily>>
  BY DEF readTotal
<1>2. walk' = [walk EXCEPT !.total = AllOf, !.step = IF walk.page < totalPages(AllOf, walk.pageSize) THEN "page" ELSE "end"]
  BY DEF readTotal, AllOf, Matching
<1>3. walk \in Walks /\ ListingsType
  BY DEF ListingsInv, ListingsType
<1>4. walk.page \in Nat \ {0} /\ walk.pageSize \in Nat \ {0} /\ AllOf \in Nat
  BY <1>3, MatchingIsFinite, ListingsAssumption DEF Walks
<1>5. walk.listing \in ByPage /\ walk.listing \notin ByCursor
  BY <1>1, <1>3, ListingNames DEF ListingsInv, TimesKnown, Walks
<1>6. /\ walk' \in Walks /\ walk'.seen = walk.seen /\ walk'.total = AllOf
      /\ walk'.step = (IF walk.page < totalPages(AllOf, walk.pageSize) THEN "page" ELSE "end")
      /\ walk'.listing = walk.listing /\ walk'.filter = walk.filter /\ walk'.direction = walk.direction
      /\ walk'.pageSize = walk.pageSize /\ walk'.page = walk.page
  BY <1>2, <1>3, <1>4 DEF Walks
<1>7. ListingsType' /\ RowsSound' /\ TimesKnown'
  BY <1>1, <1>5, <1>6, RowsAndTimesStay
<1>8. Matching' = Matching /\ rank' = rank /\ AllOf' = AllOf /\ AskedFor' = AskedFor
  BY <1>1, <1>6, SameRows DEF AskedFor
<1>9. CursorSound'
  BY <1>5, <1>6 DEF CursorSound
<1>10. walk.page < totalPages(AllOf, walk.pageSize) <=> AskedFor < AllOf
  BY <1>4, PagesFacts DEF AskedFor
<1>11. AskedFor \in Nat
  BY <1>4 DEF AskedFor
<1>12. PagesSound'
  <2> SUFFICES ASSUME rowChanges = 0
               PROVE  FirstRows' /\ HowMany'
    BY <1>1 DEF PagesSound
  <2>1. FirstRows /\ HowMany
    BY <1>5 DEF ListingsInv, PagesSound
  <2>2. FirstRows'
    BY <2>1, <1>6, <1>8 DEF FirstRows
  <2>3. Len(walk.seen) = IF AskedFor <= AllOf THEN AskedFor ELSE AllOf
    BY <2>1, <1>1 DEF HowMany
  <2>4. HowMany'
    BY <2>3, <1>4, <1>6, <1>8, <1>10, <1>11 DEF HowMany
  <2> QED
    BY <2>2, <2>4
<1> QED
  BY <1>7, <1>9, <1>12 DEF ListingsInv

\* Listing the stock of one SKU keeps the invariant.
LEMMA ListBySkuKeeps ==
  ASSUME ListingsInv, listBySku
  PROVE  ListingsInv'
<1>1. walk.listing \in ByPage /\ walk.listing \notin ByCursor /\ walk.step = "rows" /\ UNCHANGED <<listed, rowChanges, steadily>>
  BY ListingNames DEF listBySku
<1>2. PICK all \in SortedIds(walk.listing, walk.direction, Matching) :
        walk' = [show(slice(all, pageOffset(walk.page, walk.pageSize), walk.pageSize)) EXCEPT
                   !.total = Len(all), !.step = IF walk.page < totalPages(Len(all), walk.pageSize) THEN "page" ELSE "end"]
  BY DEF listBySku, Matching
<1> DEFINE ids == slice(all, pageOffset(walk.page, walk.pageSize), walk.pageSize)
<1>3. walk \in Walks /\ ListingsType
  BY DEF ListingsInv, ListingsType
<1>4. walk.page \in Nat \ {0} /\ walk.pageSize \in Nat \ {0} /\ AllOf \in Nat
  BY <1>3, MatchingIsFinite, ListingsAssumption DEF Walks
<1>5. Len(all) = AllOf
  BY <1>3, RanksOfRows
<1>6. walk' = [show(ids) EXCEPT !.total = AllOf, !.step = IF walk.page < totalPages(AllOf, walk.pageSize) THEN "page" ELSE "end"]
  BY <1>2, <1>5
<1>7. /\ ids \in Seq(RowIds) /\ \A i \in 1..Len(ids) : ids[i] \in Listed
      /\ rowChanges = 0 =>
           /\ \A i \in 1..Len(walk.seen \o ids) : (walk.seen \o ids)[i] \in Matching /\ rank[(walk.seen \o ids)[i]] = i - 1
           /\ Len(walk.seen \o ids) = IF AskedFor <= AllOf THEN AskedFor ELSE AllOf
  BY <1>1, NextOnes
<1> HIDE DEF ids
<1>8. /\ show(ids) \in Walks /\ show(ids).seen = walk.seen \o ids
      /\ show(ids).listing = walk.listing /\ show(ids).filter = walk.filter /\ show(ids).direction = walk.direction
      /\ show(ids).pageSize = walk.pageSize /\ show(ids).page = walk.page
  BY <1>3, <1>7, ShowFacts
<1>9. /\ walk' \in Walks /\ walk'.seen = walk.seen \o ids /\ walk'.total = AllOf
      /\ walk'.step = (IF walk.page < totalPages(AllOf, walk.pageSize) THEN "page" ELSE "end")
      /\ walk'.listing = walk.listing /\ walk'.filter = walk.filter /\ walk'.direction = walk.direction
      /\ walk'.pageSize = walk.pageSize /\ walk'.page = walk.page
  BY <1>4, <1>6, <1>8 DEF Walks
<1>10. ListingsType' /\ RowsSound' /\ TimesKnown'
  BY <1>1, <1>9, RowsAndTimesStay
<1>11. Matching' = Matching /\ rank' = rank /\ AllOf' = AllOf /\ AskedFor' = AskedFor
  BY <1>1, <1>9, SameRows DEF AskedFor
<1>12. CursorSound'
  BY <1>1, <1>9 DEF CursorSound
<1>13. walk.page < totalPages(AllOf, walk.pageSize) <=> AskedFor < AllOf
  BY <1>4, PagesFacts DEF AskedFor
<1>14. AskedFor \in Nat
  BY <1>4 DEF AskedFor
<1>15. PagesSound'
  BY <1>1, <1>7, <1>9, <1>11, <1>4, <1>13, <1>14 DEF PagesSound, FirstRows, HowMany
<1> QED
  BY <1>10, <1>12, <1>15 DEF ListingsInv

\* Asking for the next page keeps the invariant.
LEMMA NextPageKeeps ==
  ASSUME ListingsInv, nextPage
  PROVE  ListingsInv'
<1>1. walk.step = "page" /\ walk' = [walk EXCEPT !.page = walk.page + 1, !.step = "rows"] /\ UNCHANGED <<listed, rowChanges, steadily>>
  BY DEF nextPage
<1>2. walk \in Walks /\ ListingsType
  BY DEF ListingsInv, ListingsType
<1>3. walk.page \in Nat \ {0} /\ walk.pageSize \in Nat \ {0} /\ AllOf \in Nat
  BY <1>2, MatchingIsFinite, ListingsAssumption DEF Walks
<1>4. /\ walk' \in Walks /\ walk'.seen = walk.seen /\ walk'.step = "rows" /\ walk'.position = walk.position
      /\ walk'.listing = walk.listing /\ walk'.filter = walk.filter /\ walk'.direction = walk.direction
      /\ walk'.pageSize = walk.pageSize /\ walk'.page = walk.page + 1
  <2>1. walk.page + 1 \in Nat \ {0}
    BY <1>3
  <2>2. walk' = [walk EXCEPT !.page = walk.page + 1, !.step = "rows"]
    BY <1>1
  <2> DEFINE next == walk.page + 1
  <2> HIDE DEF next
  <2>3. next \in Nat \ {0} /\ walk' = [walk EXCEPT !.page = next, !.step = "rows"]
    BY <2>1, <2>2 DEF next
  <2>4. /\ walk' \in Walks /\ walk'.seen = walk.seen /\ walk'.step = "rows" /\ walk'.position = walk.position
        /\ walk'.listing = walk.listing /\ walk'.filter = walk.filter /\ walk'.direction = walk.direction
        /\ walk'.pageSize = walk.pageSize /\ walk'.page = next
    BY <2>3, <1>2 DEF Walks
  <2> QED
    BY <2>4 DEF next
<1>5. ListingsType' /\ RowsSound' /\ TimesKnown'
  BY <1>1, <1>4, RowsAndTimesStay
<1>6. Listed' = Listed /\ Matching' = Matching /\ rank' = rank /\ AllOf' = AllOf /\ Order' = Order
  BY <1>1, <1>4, SameRows
<1>7. Later' = Later /\ Shown' = Shown
  BY <1>1, <1>4 DEF Later, afterCursor, Shown
<1>8. CursorSound'
  <2> SUFFICES ASSUME walk.listing \in ByCursor
               PROVE  ShownOnce' /\ ShownInOrder' /\ ShownStays' /\ ShownBehind' /\ NoneMissed'
    BY <1>4 DEF CursorSound
  <2>1. ShownOnce /\ ShownInOrder /\ ShownStays /\ ShownBehind /\ NoneMissed
    BY DEF ListingsInv, CursorSound
  <2>2. ShownOnce' /\ ShownInOrder' /\ ShownStays'
    BY <2>1, <1>1, <1>4, <1>6 DEF ShownOnce, ShownInOrder, ShownStays
  <2>3. ShownBehind'
    BY <2>1, <1>1, <1>4, <1>6, <1>7 DEF ShownBehind
  <2>4. NoneMissed'
    BY <2>1, <1>1, <1>4, <1>7 DEF NoneMissed
  <2> QED
    BY <2>2, <2>3, <2>4
<1>9. PagesSound'
  <2> SUFFICES ASSUME walk.listing \in ByPage, rowChanges = 0
               PROVE  FirstRows' /\ HowMany'
    BY <1>1, <1>4 DEF PagesSound
  <2>1. FirstRows /\ HowMany
    BY DEF ListingsInv, PagesSound
  <2>2. FirstRows'
    BY <2>1, <1>4, <1>6 DEF FirstRows
  <2>3. AskedFor < AllOf /\ Len(walk.seen) = AskedFor
    BY <1>3, <2>1, <1>1 DEF AskedFor, HowMany
  <2>4. pageOffset(walk'.page, walk'.pageSize) = AskedFor
    BY <1>3, <1>4, OffsetFacts DEF AskedFor
  <2>5. AskedFor \in Nat
    BY <1>3 DEF AskedFor
  <2>6. HowMany'
    BY <2>3, <2>4, <2>5, <1>3, <1>4, <1>6 DEF HowMany
  <2> QED
    BY <2>2, <2>6
<1> QED
  BY <1>5, <1>8, <1>9 DEF ListingsInv

-----------------------------------------------------------------------------
(* Listings by cursor.                                                     *)

\* What is after the place of a row is what comes after the row.
LEMMA CursorAtRow ==
  ASSUME ListingsType, NEW l \in ByCursor, NEW a \in RowIds, NEW c \in RowIds, listed[a].key # NULL, listed[c].key # NULL,
         NEW place, place = [at |-> listed[c].key, id |-> c]
  PROVE  place # NoPosition /\ (afterCursor(place, a) <=> precedes(l, "desc", c, a))
<1>1. /\ listed[a].key \in Nat /\ listed[c].key \in Nat /\ a \in Nat /\ c \in Nat
      /\ place.at = listed[c].key /\ place.id = c /\ NoPosition.at = NULL
  BY RowKeys DEF NoPosition
<1>2. place # NoPosition
  BY <1>1
<1>3. afterCursor(place, a) <=> listed[a].key < listed[c].key \/ (listed[a].key = listed[c].key /\ a < c)
  BY <1>1, <1>2 DEF afterCursor
<1>4. precedes(l, "desc", c, a) <=> listed[c].key > listed[a].key \/ (~(listed[a].key > listed[c].key) /\ c > a)
  BY <1>1 DEF precedes, before, tieBreak
<1>5. precedes(l, "desc", c, a) <=> listed[a].key < listed[c].key \/ (listed[a].key = listed[c].key /\ a < c)
  BY <1>1, <1>4
<1> QED
  BY <1>2, <1>3, <1>5

\* A row the cursor passed comes before a row it did not pass.
LEMMA CursorParts ==
  ASSUME ListingsType, NEW l \in ByCursor, NEW place, place \in [at : Nat, id : Nat], NEW a \in RowIds, NEW b \in RowIds,
         listed[a].key # NULL, listed[b].key # NULL, ~afterCursor(place, a), afterCursor(place, b)
  PROVE  precedes(l, "desc", a, b)
<1>1. /\ listed[a].key \in Nat /\ listed[b].key \in Nat /\ a \in Nat /\ b \in Nat
      /\ place.at \in Nat /\ place.id \in Nat
  BY RowKeys
<1>2. /\ ~(listed[a].key < place.at) /\ ~(listed[a].key = place.at /\ a < place.id)
      /\ listed[b].key < place.at \/ (listed[b].key = place.at /\ b < place.id)
  BY DEF afterCursor
<1>3. precedes(l, "desc", a, b) <=> listed[a].key > listed[b].key \/ (~(listed[b].key > listed[a].key) /\ a > b)
  BY <1>1 DEF precedes, before, tieBreak
<1> QED
  BY <1>1, <1>2, <1>3

\* Each row of two parts is a row of one of them.
LEMMA ConcatParts ==
  ASSUME NEW S, NEW u \in Seq(S), NEW v \in Seq(S)
  PROVE  /\ \A i \in 1..Len(u \o v) :
              \/ i \in 1..Len(u) /\ (u \o v)[i] = u[i]
              \/ i > Len(u) /\ i - Len(u) \in 1..Len(v) /\ (u \o v)[i] = v[i - Len(u)]
         /\ \A i \in 1..Len(u) : i \in 1..Len(u \o v) /\ (u \o v)[i] = u[i]
         /\ \A i \in 1..Len(v) : Len(u) + i \in 1..Len(u \o v) /\ (u \o v)[Len(u) + i] = v[i]
<1>1. Len(u) \in Nat /\ Len(v) \in Nat /\ Len(u \o v) = Len(u) + Len(v)
  OBVIOUS
<1>2. \A i \in 1..Len(u) : (u \o v)[i] = u[i]
  OBVIOUS
<1>3. \A i \in (Len(u) + 1)..(Len(u) + Len(v)) : (u \o v)[i] = v[i - Len(u)]
  OBVIOUS
<1>4. ASSUME NEW i \in 1..Len(u \o v)
      PROVE  \/ i \in 1..Len(u) /\ (u \o v)[i] = u[i]
             \/ i > Len(u) /\ i - Len(u) \in 1..Len(v) /\ (u \o v)[i] = v[i - Len(u)]
  <2>1. CASE i <= Len(u)
    BY <2>1, <1>1, <1>2
  <2>2. CASE i > Len(u)
    BY <2>2, <1>1, <1>3
  <2> QED
    BY <2>1, <2>2, <1>1
<1>5. ASSUME NEW i \in 1..Len(v)
      PROVE  Len(u) + i \in 1..Len(u \o v) /\ (u \o v)[Len(u) + i] = v[i]
  BY <1>1, <1>3
<1>6. \A i \in 1..Len(u) : i \in 1..Len(u \o v)
  BY <1>1
<1> QED
  BY <1>2, <1>4, <1>5, <1>6

\* A relation of each row to the later ones holds of two parts together when it holds within and across them.
LEMMA PairsOfConcat ==
  ASSUME NEW S, NEW R, NEW u \in Seq(S), NEW v \in Seq(S),
         \A i, j \in 1..Len(u) : i < j => <<u[i], u[j]>> \in R,
         \A i, j \in 1..Len(v) : i < j => <<v[i], v[j]>> \in R,
         \A i \in 1..Len(u) : \A j \in 1..Len(v) : <<u[i], v[j]>> \in R
  PROVE  \A i, j \in 1..Len(u \o v) : i < j => <<(u \o v)[i], (u \o v)[j]>> \in R
<1> TAKE i, j \in 1..Len(u \o v)
<1> HAVE i < j
<1>1. Len(u) \in Nat /\ i \in Nat /\ j \in Nat
  BY ConcatParts
<1>2. \/ i \in 1..Len(u) /\ (u \o v)[i] = u[i]
      \/ i > Len(u) /\ i - Len(u) \in 1..Len(v) /\ (u \o v)[i] = v[i - Len(u)]
  BY ConcatParts
<1>3. \/ j \in 1..Len(u) /\ (u \o v)[j] = u[j]
      \/ j > Len(u) /\ j - Len(u) \in 1..Len(v) /\ (u \o v)[j] = v[j - Len(u)]
  BY ConcatParts
<1>4. CASE j \in 1..Len(u) /\ (u \o v)[j] = u[j]
  BY <1>1, <1>2, <1>4
<1>5. CASE j - Len(u) \in 1..Len(v) /\ (u \o v)[j] = v[j - Len(u)]
  <2>1. CASE i \in 1..Len(u) /\ (u \o v)[i] = u[i]
    BY <1>5, <2>1
  <2>2. CASE i - Len(u) \in 1..Len(v) /\ (u \o v)[i] = v[i - Len(u)]
    BY <1>1, <1>5, <2>2
  <2> QED
    BY <1>2, <2>1, <2>2
<1> QED
  BY <1>3, <1>4, <1>5

\* What the first rows are.
LEMMA FirstSlice ==
  ASSUME NEW S, NEW rows \in Seq(S), NEW limit \in Nat
  PROVE  /\ slice(rows, 0, limit) \in Seq(S)
         /\ Len(slice(rows, 0, limit)) = IF limit < Len(rows) THEN limit ELSE Len(rows)
         /\ \A i \in 1..Len(slice(rows, 0, limit)) : i \in 1..Len(rows) /\ slice(rows, 0, limit)[i] = rows[i]
<1>1. Len(rows) \in Nat
  OBVIOUS
<1>2. ASSUME NEW offset \in Nat, offset = 0
      PROVE  /\ slice(rows, offset, limit) \in Seq(S)
             /\ Len(slice(rows, offset, limit)) = IF limit < Len(rows) THEN limit ELSE Len(rows)
             /\ \A i \in 1..Len(slice(rows, offset, limit)) : i \in 1..Len(rows) /\ slice(rows, offset, limit)[i] = rows[i]
  <2> DEFINE s == slice(rows, offset, limit)
  <2>1. offset <= Len(rows) /\ offset + limit = limit /\ Len(rows) - offset = Len(rows)
    BY <1>1, <1>2
  <2>2. s \in Seq(S)
    BY <2>1, SliceOf
  <2>3. Len(s) = IF offset + limit < Len(rows) THEN limit ELSE Len(rows) - offset
    BY <2>1, SliceOf
  <2>4. \A i \in 1..Len(s) : offset + i \in 1..Len(rows) /\ s[i] = rows[offset + i]
    BY <2>1, SliceOf
  <2> HIDE DEF s
  <2>5. \A i \in 1..Len(s) : offset + i = i
    BY <1>2
  <2> QED
    BY <2>1, <2>2, <2>3, <2>4, <2>5 DEF s
<1> QED
  BY <1>2

\* One row more than asked is read.
Entries(rows, size, found, entries) == found = slice(rows, 0, size + 1) /\ entries = slice(found, 0, size)

\* Of what was read, what is shown are the first ones; there are more when it is more than was asked.
LEMMA EntriesOf ==
  ASSUME NEW S, NEW rows \in Seq(S), NEW size \in Nat \ {0}, NEW found, NEW entries, Entries(rows, size, found, entries)
  PROVE  /\ Len(found) > size <=> Len(rows) > size
         /\ entries \in Seq(S) /\ Len(entries) = IF Len(rows) > size THEN size ELSE Len(rows)
         /\ \A i \in 1..Len(entries) : i \in 1..Len(rows) /\ entries[i] = rows[i]
         /\ Len(rows) > size => Last(entries) = rows[size] /\ size \in 1..Len(rows)
<1>1. Len(rows) \in Nat /\ size + 1 \in Nat /\ size \in Nat
  OBVIOUS
<1>2. /\ found \in Seq(S) /\ Len(found) = IF size + 1 < Len(rows) THEN size + 1 ELSE Len(rows)
      /\ \A i \in 1..Len(found) : i \in 1..Len(rows) /\ found[i] = rows[i]
  BY <1>1, FirstSlice DEF Entries
<1>3. Len(found) \in Nat
  BY <1>2
<1>4. /\ entries \in Seq(S) /\ Len(entries) = IF size < Len(found) THEN size ELSE Len(found)
      /\ \A i \in 1..Len(entries) : i \in 1..Len(found) /\ entries[i] = found[i]
  BY <1>1, <1>2, FirstSlice DEF Entries
<1>5. Len(found) > size <=> Len(rows) > size
  BY <1>1, <1>2
<1>6. Len(entries) = IF Len(rows) > size THEN size ELSE Len(rows)
  BY <1>1, <1>2, <1>4
<1>7. \A i \in 1..Len(entries) : i \in 1..Len(rows) /\ entries[i] = rows[i]
  BY <1>2, <1>4
<1>8. Len(rows) > size => Last(entries) = rows[size] /\ size \in 1..Len(rows)
  BY <1>1, <1>6, <1>7 DEF Last
<1> QED
  BY <1>4, <1>5, <1>6, <1>7, <1>8

\* Reading on from a cursor keeps the invariant: what comes after the cursor comes after all that was answered.
LEMMA ReadFromCursorKeeps ==
  ASSUME ListingsInv, readFromCursor
  PROVE  ListingsInv'
<1> DEFINE cand == {id \in Matching : afterCursor(walk.position, id)}
<1>1. walk.listing \in ByCursor /\ walk.step = "rows" /\ UNCHANGED <<listed, rowChanges, steadily>> /\ walk.listing \notin ByPage
  BY ListingNames DEF readFromCursor
<1>2. PICK rows \in SortedIds(walk.listing, walk.direction, cand) :
        LET found == slice(rows, 0, walk.pageSize + 1)
            entries == slice(found, 0, walk.pageSize)
        IN  walk' = [show(entries) EXCEPT
               !.step = IF Len(found) > walk.pageSize THEN "page" ELSE "end",
               !.position = IF Len(found) > walk.pageSize THEN [at |-> listed[Last(entries)].key, id |-> Last(entries)] ELSE walk.position]
  BY DEF readFromCursor, Matching, show, ListingsInv, ListingsType, Walks
<1> DEFINE found == slice(rows, 0, walk.pageSize + 1)
           entries == slice(found, 0, walk.pageSize)
           last == Last(entries)
           more == Len(found) > walk.pageSize
           size == walk.pageSize
           old == walk.seen
<1>3. walk' = [show(entries) EXCEPT !.step = IF more THEN "page" ELSE "end",
                                    !.position = IF more THEN [at |-> listed[last].key, id |-> last] ELSE walk.position]
  BY <1>2
<1>4. walk \in Walks /\ ListingsType /\ size \in Nat \ {0} /\ old \in Seq(RowIds) /\ walk.position \in [at : Nat, id : Nat]
  BY ListingsAssumption DEF ListingsInv, ListingsType, Walks
<1>5. /\ Matching \subseteq Listed /\ Matching \subseteq RowIds /\ cand \in SUBSET RowIds
      /\ cand = Matching \cap Later
  BY <1>4, MatchingIsFinite DEF Later
<1>6. walk.direction = "desc" /\ \A id \in Listed : id \in RowIds /\ listed[id].key # NULL
  BY <1>1, <1>4, RowKeys DEF ListingsInv, TimesKnown
<1>7. \A a, b \in RowIds : <<a, b>> \in Order <=> precedes(walk.listing, "desc", a, b)
  BY <1>6 DEF Order
<1> HIDE DEF cand
<1>8. /\ rows \in Seq(RowIds) /\ \A i \in 1..Len(rows) : rows[i] \in cand
      /\ \A i, j \in 1..Len(rows) : i < j => rows[i] # rows[j] /\ precedes(walk.listing, walk.direction, rows[i], rows[j])
      /\ \A x \in cand : \E i \in 1..Len(rows) : rows[i] = x
  <2>1. rows \in SortedIds(walk.listing, walk.direction, cand) /\ ListingsType /\ cand \in SUBSET RowIds
    BY <1>2, <1>4, <1>5
  <2>2. /\ rows \in Seq(RowIds) /\ \A i \in 1..Len(rows) : rows[i] \in cand
        /\ \A x \in cand : \E i \in 1..Len(rows) : rows[i] = x
    BY <2>1, SortedRows
  <2>3. \A i, j \in 1..Len(rows) : i < j => rows[i] # rows[j] /\ precedes(walk.listing, walk.direction, rows[i], rows[j])
    BY <2>1, SortedRows
  <2> QED
    BY <2>2, <2>3
<1>9. \A i, j \in 1..Len(rows) : i < j => <<rows[i], rows[j]>> \in Order
  BY <1>5, <1>6, <1>7, <1>8
<1>parts. Entries(rows, size, found, entries) /\ (more <=> Len(found) > size) /\ last = Last(entries)
  BY DEF Entries
<1> HIDE DEF found, entries, last, more, size, old
<1>10. /\ more <=> Len(rows) > size
       /\ entries \in Seq(RowIds) /\ Len(entries) = IF Len(rows) > size THEN size ELSE Len(rows)
       /\ \A i \in 1..Len(entries) : i \in 1..Len(rows) /\ entries[i] = rows[i]
       /\ Len(rows) > size => last = rows[size] /\ size \in 1..Len(rows)
  BY <1>4, <1>8, <1>parts, EntriesOf
<1>11. \A i \in 1..Len(entries) : entries[i] \in cand /\ entries[i] \in Listed /\ entries[i] \in Later
  BY <1>5, <1>8, <1>10
<1>12. /\ show(entries) \in Walks /\ show(entries).seen = old \o entries
       /\ show(entries).listing = walk.listing /\ show(entries).filter = walk.filter /\ show(entries).direction = walk.direction
  BY <1>4, <1>10, <1>11, ShowFacts DEF old
<1>13. more => last \in cand /\ last \in Listed /\ last \in RowIds
  BY <1>5, <1>8, <1>10
<1> DEFINE place == IF more THEN [at |-> listed[last].key, id |-> last] ELSE walk.position
<1>14. place \in [at : Nat, id : Nat]
  BY <1>4, <1>13, RowKeys
<1>15. /\ walk' \in Walks /\ walk'.seen = old \o entries /\ walk'.step = (IF more THEN "page" ELSE "end") /\ walk'.position = place
       /\ walk'.listing = walk.listing /\ walk'.filter = walk.filter /\ walk'.direction = walk.direction
  <2>1. walk' = [show(entries) EXCEPT !.step = IF more THEN "page" ELSE "end", !.position = place]
    BY <1>3
  <2> HIDE DEF place
  <2> QED
    BY <1>12, <1>14, <2>1 DEF Walks
<1>16. ListingsType' /\ RowsSound' /\ TimesKnown'
  BY <1>1, <1>15, RowsAndTimesStay
<1>17. Listed' = Listed /\ Order' = Order
  BY <1>1, <1>15, SameRows
<1>18. ShownOnce /\ ShownInOrder /\ ShownStays /\ ShownBehind /\ NoneMissed
  BY <1>1 DEF ListingsInv, CursorSound
<1>19. \A i \in 1..Len(old) : old[i] \in RowIds /\ (old[i] \in Listed => old[i] \notin Later)
  BY <1>1, <1>4, <1>18 DEF ShownBehind, old
<1>20. \A a, b \in Listed : a \notin Later /\ b \in Later => <<a, b>> \in Order
  BY <1>6, <1>1, <1>4, <1>7, CursorParts DEF Later
<1>21. ShownOnce' /\ ShownInOrder'
  <2> DEFINE R == {pair \in RowIds \X RowIds : pair[1] # pair[2] /\ (pair[1] \in Listed /\ pair[2] \in Listed => pair \in Order)}
  <2>1. \A a, b \in RowIds : <<a, b>> \in R <=> a # b /\ (a \in Listed /\ b \in Listed => <<a, b>> \in Order)
    OBVIOUS
  <2> HIDE DEF R
  <2>2. \A i, j \in 1..Len(old) : i < j => <<old[i], old[j]>> \in R
    BY <1>18, <1>19, <2>1 DEF ShownOnce, ShownInOrder, old
  <2>3. \A i, j \in 1..Len(entries) : i < j => <<entries[i], entries[j]>> \in R
    BY <1>10, <1>5, <1>8, <1>9, <2>1
  <2>4. \A i \in 1..Len(old) : \A j \in 1..Len(entries) : <<old[i], entries[j]>> \in R
    <3> TAKE i \in 1..Len(old)
    <3> TAKE j \in 1..Len(entries)
    <3>1. entries[j] \in Listed /\ entries[j] \in Later /\ entries[j] \in RowIds
      BY <1>6, <1>11
    <3>2. old[i] \in RowIds /\ (old[i] \in Listed => old[i] \notin Later)
      BY <1>19
    <3>3. old[i] \in Listed => <<old[i], entries[j]>> \in Order
      BY <3>1, <3>2, <1>20
    <3> QED
      BY <3>1, <3>2, <3>3, <2>1
  <2>5. \A i, j \in 1..Len(old \o entries) : i < j => <<(old \o entries)[i], (old \o entries)[j]>> \in R
    BY <2>2, <2>3, <2>4, <1>4, <1>10, PairsOfConcat
  <2>6. old \o entries \in Seq(RowIds)
    BY <1>4, <1>10
  <2>7. \A i \in 1..Len(old \o entries) : (old \o entries)[i] \in RowIds
    BY <2>6
  <2>8. \A i, j \in 1..Len(old \o entries) : i < j =>
          /\ (old \o entries)[i] # (old \o entries)[j]
          /\ (old \o entries)[i] \in Listed /\ (old \o entries)[j] \in Listed => <<(old \o entries)[i], (old \o entries)[j]>> \in Order
    BY <2>1, <2>5, <2>7
  <2> QED
    BY <2>8, <1>15, <1>17 DEF ShownOnce, ShownInOrder
<1>22. \A i \in 1..Len(old \o entries) : \/ i \in 1..Len(old) /\ (old \o entries)[i] = old[i]
                                        \/ \E j \in 1..Len(entries) : (old \o entries)[i] = entries[j]
  BY <1>4, <1>10, ConcatParts
<1>23. ShownStays'
  BY <1>18, <1>11, <1>22, <1>1, <1>15 DEF Listed, ShownStays, old
<1>24. ASSUME more, NEW a \in Listed
       PROVE  walk'.position # NoPosition /\ (a \in Later' <=> <<last, a>> \in Order)
  <2>1. place = [at |-> listed[last].key, id |-> last] /\ a \in RowIds /\ last \in RowIds /\ listed[a].key # NULL /\ listed[last].key # NULL
    BY <1>6, <1>13, <1>24
  <2> HIDE DEF place
  <2>2. place # NoPosition /\ (afterCursor(place, a) <=> precedes(walk.listing, "desc", last, a))
    BY <2>1, <1>1, <1>4, CursorAtRow
  <2>3. a \in Later' <=> afterCursor(place, a)
    BY <2>1, <1>1, <1>15 DEF Later, afterCursor
  <2> QED
    BY <2>1, <2>2, <2>3, <1>7, <1>15
<1>25. ShownBehind'
  <2> SUFFICES ASSUME more
               PROVE  /\ walk'.position # NoPosition
                      /\ \A i \in 1..Len(old \o entries) : (old \o entries)[i] \in Listed => (old \o entries)[i] \notin Later'
    BY <1>15, <1>17 DEF ShownBehind
  <2>1. last = rows[size] /\ size \in 1..Len(rows) /\ Len(entries) = size /\ last \in Listed /\ last \in Later /\ last \in RowIds
    BY <1>5, <1>10, <1>13
  <2>2. \A a, b \in RowIds : ~(<<a, b>> \in Order /\ <<b, a>> \in Order) /\ <<a, a>> \notin Order
    BY <1>4, <1>7, Comparable
  <2>3. ASSUME NEW i \in 1..Len(old), old[i] \in Listed
        PROVE  old[i] \notin Later'
    BY <2>1, <2>3, <1>19, <1>20, <2>2, <1>24
  <2>4. ASSUME NEW j \in 1..Len(entries)
        PROVE  entries[j] \notin Later'
    <3>1. entries[j] = rows[j] /\ j \in 1..Len(rows) /\ entries[j] \in Listed /\ entries[j] \in RowIds
      BY <1>6, <1>10, <1>11
    <3>2. <<last, entries[j]>> \notin Order
      <4>1. CASE j = size
        BY <4>1, <3>1, <2>1, <2>2
      <4>2. CASE j # size
        <5>1. j < size
          BY <4>2, <2>1, <1>4
        <5>2. <<rows[j], rows[size]>> \in Order
          BY <5>1, <3>1, <2>1, <1>9
        <5> QED
          BY <5>2, <3>1, <2>1, <2>2
      <4> QED
        BY <4>1, <4>2
    <3> QED
      BY <3>1, <3>2, <1>24
  <2> QED
    BY <2>1, <2>3, <2>4, <1>22, <1>24
<1>26. NoneMissed'
  <2> SUFFICES ASSUME NEW id \in steadily
               PROVE  id \in Shown' \/ (more /\ id \in Later')
    BY <1>1, <1>15 DEF NoneMissed
  <2>1. Shown' = {(old \o entries)[i] : i \in 1..Len(old \o entries)}
    BY <1>15 DEF Shown
  <2>2. /\ \A i \in 1..Len(old) : old[i] \in Shown'
        /\ \A i \in 1..Len(entries) : entries[i] \in Shown'
    <3>1. /\ \A i \in 1..Len(old) : i \in 1..Len(old \o entries) /\ (old \o entries)[i] = old[i]
          /\ \A i \in 1..Len(entries) : Len(old) + i \in 1..Len(old \o entries) /\ (old \o entries)[Len(old) + i] = entries[i]
      BY <1>4, <1>10, ConcatParts
    <3>2. \A i \in 1..Len(old) : old[i] \in Shown'
      BY <2>1, <3>1
    <3>3. \A i \in 1..Len(entries) : entries[i] \in Shown'
      BY <2>1, <3>1
    <3> QED
      BY <3>2, <3>3
  <2>3. id \in Matching
    BY DEF ListingsInv, RowsSound
  <2>4. CASE id \in Shown
    BY <2>2, <2>4 DEF Shown, old
  <2>5. CASE id \notin Shown
    <3>1. id \in cand
      BY <2>3, <2>5, <1>5, <1>18 DEF NoneMissed
    <3>2. PICK k \in 1..Len(rows) : rows[k] = id
      BY <3>1, <1>8
    <3>3. CASE k \in 1..Len(entries)
      BY <2>2, <3>2, <3>3, <1>10
    <3>4. CASE k \notin 1..Len(entries)
      <4>1. Len(rows) > size /\ size < k
        BY <3>4, <1>4, <1>8, <1>10
      <4>2. more /\ last = rows[size] /\ size \in 1..Len(rows)
        BY <4>1, <1>10
      <4>3. <<last, id>> \in Order
        BY <4>1, <4>2, <3>2, <1>9
      <4> QED
        BY <4>2, <4>3, <2>3, <1>5, <1>24
    <3> QED
      BY <3>3, <3>4
  <2> QED
    BY <2>4, <2>5
<1>27. CursorSound'
  BY <1>21, <1>23, <1>25, <1>26 DEF CursorSound
<1>28. PagesSound'
  BY <1>1, <1>15 DEF PagesSound
<1> QED
  BY <1>16, <1>27, <1>28 DEF ListingsInv

-----------------------------------------------------------------------------
(* Listings: the rows change.                                              *)

\* A change of one row keeps the invariant, when the listing's rows do not change their place.
LEMMA ChangeRowKeeps ==
  ASSUME ListingsInv, NEW id \in RowIds, NEW r \in {Deleted} \cup SlotRows, changeRow(id, r),
         r \in SlotRows /\ r.blocked => walk.listing \in WithBlocking,
         walk.listing \in ByCursor => r = Deleted \/ (listed[id] = EmptySlot /\ r.key # NULL)
  PROVE  ListingsInv'
<1>1. /\ listed' = [listed EXCEPT ![id] = r] /\ rowChanges' = rowChanges + 1 /\ steadily' = steadily \ {id}
      /\ walk' = walk /\ walk.step # "end"
  BY DEF changeRow
<1>2. ListingsType
  BY DEF ListingsInv
<1>3. listed \in [RowIds -> {EmptySlot, Deleted} \cup SlotRows] /\ walk \in Walks /\ rowChanges \in Nat
  BY <1>2 DEF ListingsType
<1>4. listed'[id] = r /\ \A x \in RowIds : x # id => listed'[x] = listed[x]
  BY <1>1, <1>3
<1>5. ListingsType'
  BY <1>1, <1>3 DEF ListingsType
<1>6. /\ \A x \in RowIds : x # id => (x \in Listed' <=> x \in Listed)
      /\ id \in Listed' => r \in SlotRows
      /\ Listed' \subseteq RowIds
  BY <1>4 DEF Listed
<1>7. /\ \A x \in RowIds : x # id => (x \in Matching' <=> x \in Matching)
  BY <1>1, <1>4, <1>6 DEF Matching, matching
<1>8. \A x, y \in RowIds : x # id /\ y # id => (<<x, y>> \in Order' <=> <<x, y>> \in Order)
  BY <1>4, <1>1 DEF Order, precedes, before
<1>9. \A x \in RowIds : x # id => (x \in Later' <=> x \in Later)
  BY <1>1, <1>4 DEF Later, afterCursor
<1>10. RowsSound'
  <2>1. steadily \subseteq Matching /\ Matching \subseteq RowIds /\ \A x \in Listed : listed[x].blocked => walk.listing \in WithBlocking
    BY <1>2, MatchingIsFinite DEF ListingsInv, RowsSound
  <2>2. steadily' \subseteq Matching'
    BY <2>1, <1>1, <1>7
  <2>3. ASSUME NEW x \in Listed', listed'[x].blocked
        PROVE  walk.listing \in WithBlocking
    BY <2>3, <1>4, <1>6, <2>1
  <2> QED
    BY <2>2, <2>3, <1>1 DEF RowsSound
<1>11. TimesKnown'
  <2> SUFFICES ASSUME walk.listing \in ByCursor
               PROVE  walk.direction = "desc" /\ walk.step # "total" /\ \A x \in Listed' : listed'[x].key # NULL
    BY <1>1 DEF TimesKnown
  <2>1. walk.direction = "desc" /\ walk.step # "total" /\ \A x \in Listed : listed[x].key # NULL
    BY DEF ListingsInv, TimesKnown
  <2>2. id \in Listed' => r.key # NULL
    BY <1>6, SlotFacts
  <2>3. ASSUME NEW x \in Listed'
        PROVE  listed'[x].key # NULL
    BY <2>2, <1>4, <2>1, <2>3, <1>6
  <2> QED
    BY <2>1, <2>3
<1>12. CursorSound'
  <2> SUFFICES ASSUME walk.listing \in ByCursor
               PROVE  ShownOnce' /\ ShownInOrder' /\ ShownStays' /\ ShownBehind' /\ NoneMissed'
    BY <1>1 DEF CursorSound
  <2>1. ShownOnce /\ ShownInOrder /\ ShownStays /\ ShownBehind /\ NoneMissed
    BY DEF ListingsInv, CursorSound
  <2>2. \A i \in 1..Len(walk.seen) : walk.seen[i] \in RowIds
    BY <1>3 DEF Walks
  \* A row that was shown is not the one inserted; the deleted one is not listed any more.
  <2>3. \A i \in 1..Len(walk.seen) : walk.seen[i] \in Listed' => walk.seen[i] # id /\ walk.seen[i] \in Listed
    <3> TAKE i \in 1..Len(walk.seen)
    <3> HAVE walk.seen[i] \in Listed'
    <3>1. listed[walk.seen[i]] # EmptySlot
      BY <2>1 DEF ShownStays
    <3>2. walk.seen[i] # id
      BY <1>6, SlotFacts, <3>1
    <3> QED
      BY <3>2, <2>2, <1>6
  <2>4. ShownOnce'
    BY <2>1, <1>1 DEF ShownOnce
  <2>5. ShownInOrder'
    BY <1>1, <2>2, <2>3, <2>1, <1>8 DEF ShownInOrder
  <2>6. ShownStays'
    BY SlotFacts, <1>4, <2>1, <2>2, <1>1 DEF ShownStays
  <2>7. ShownBehind'
    <3>1. \A i \in 1..Len(walk.seen) : walk.seen[i] \in Listed' => walk.seen[i] \notin Later'
      BY <2>2, <2>3, <2>1, <1>1, <1>9 DEF ShownBehind
    <3>2. walk.position = NoPosition => walk.seen = <<>>
      BY <2>1, <1>1 DEF ShownBehind
    <3> QED
      BY <3>1, <3>2, <1>1 DEF ShownBehind
  <2>8. NoneMissed'
    BY <1>1, <1>2, MatchingIsFinite, <2>1, <1>9 DEF NoneMissed, ListingsInv, RowsSound, Shown
  <2> QED
    BY <2>4, <2>5, <2>6, <2>7, <2>8
<1>13. PagesSound'
  BY <1>1, <1>3 DEF PagesSound
<1> QED
  BY <1>5, <1>10, <1>11, <1>12, <1>13 DEF ListingsInv

\* Each change of the rows is of that kind.
LEMMA ChangesKeep ==
  ASSUME ListingsInv, NEW id \in RowIds, insertRow(id) \/ updateRow(id) \/ blockRow(id) \/ anonymizeRow(id) \/ deleteRow(id)
  PROVE  ListingsInv'
<1>1. ListingsType /\ \A x \in Listed : listed[x].blocked => walk.listing \in WithBlocking
  BY DEF ListingsInv, RowsSound
<1>2. id \in Listed => listed[id] \in SlotRows
  BY <1>1, RowKeys
<1>3. WithBlocking \cap ByCursor = {} /\ "customers" \notin ByCursor
  BY DEF WithBlocking, ByCursor
<1>4. CASE insertRow(id)
  <2>1. PICK key \in SortValues, person \in Persons, customer \in Persons \cup {Guest} :
          changeRow(id, [key |-> key, status |-> "open", person |-> person, customer |-> customer, blocked |-> FALSE])
    BY <1>4 DEF insertRow, customersFor
  <2> DEFINE r == [key |-> key, status |-> "open", person |-> person, customer |-> customer, blocked |-> FALSE]
  <2>2. r \in SlotRows /\ ~r.blocked /\ r.key = key
    BY DEF SlotRows
  <2>3. key # NULL /\ listed[id] = EmptySlot
    BY <1>4, ListingsAssumption DEF NULL, insertRow
  <2>4. changeRow(id, r)
    BY <2>1
  <2> HIDE DEF r
  <2> QED
    BY <2>2, <2>3, <2>4, ChangeRowKeeps
<1>5. CASE updateRow(id)
  <2>1. id \in Listed /\ walk.listing \notin ByCursor /\ listed[id] \in SlotRows
    BY <1>2, <1>5 DEF updateRow
  <2>2. ASSUME NEW key \in SortValues, changeRow(id, [listed[id] EXCEPT !.key = key])
        PROVE  ListingsInv'
    <3> DEFINE r == [listed[id] EXCEPT !.key = key]
    <3>1. r \in SlotRows /\ r.blocked = listed[id].blocked
      BY <2>1 DEF SlotRows
    <3>2. changeRow(id, r)
      BY <2>2
    <3> HIDE DEF r
    <3>3. r.blocked => walk.listing \in WithBlocking
      BY <3>1, <2>1, <1>1
    <3> QED
      BY <3>1, <3>2, <3>3, <2>1, ChangeRowKeeps
  <2>3. ASSUME changeRow(id, [listed[id] EXCEPT !.status = "closed"])
        PROVE  ListingsInv'
    <3> DEFINE r == [listed[id] EXCEPT !.status = "closed"]
    <3>1. r \in SlotRows /\ r.blocked = listed[id].blocked
      BY <2>1 DEF SlotRows
    <3>2. changeRow(id, r)
      BY <2>3
    <3> HIDE DEF r
    <3>3. r.blocked => walk.listing \in WithBlocking
      BY <3>1, <2>1, <1>1
    <3> QED
      BY <3>1, <3>2, <3>3, <2>1, ChangeRowKeeps
  <2> QED
    BY <1>5, <2>2, <2>3 DEF updateRow
<1>6. CASE blockRow(id)
  <2> DEFINE r == [listed[id] EXCEPT !.blocked = TRUE]
  <2>1. id \in Listed /\ walk.listing \in WithBlocking /\ listed[id] \in SlotRows /\ changeRow(id, r)
    BY <1>2, <1>6 DEF blockRow
  <2>2. r \in SlotRows
    BY <2>1 DEF SlotRows
  <2>3. walk.listing \notin ByCursor
    BY <2>1, <1>3
  <2> HIDE DEF r
  <2> QED
    BY <2>1, <2>2, <2>3, ChangeRowKeeps
<1>7. CASE anonymizeRow(id)
  <2> DEFINE r == [listed[id] EXCEPT !.person = Gone]
  <2>1. id \in Listed /\ walk.listing \in WithBlocking \cup {"customers"} /\ listed[id] \in SlotRows /\ changeRow(id, r)
    BY <1>2, <1>7 DEF anonymizeRow
  <2>2. r \in SlotRows /\ r.blocked = listed[id].blocked
    BY <2>1 DEF SlotRows
  <2>3. walk.listing \notin ByCursor /\ (r.blocked => walk.listing \in WithBlocking)
    BY <1>1, <2>1, <2>2, <1>3
  <2> HIDE DEF r
  <2> QED
    BY <2>1, <2>2, <2>3, ChangeRowKeeps
<1>8. CASE deleteRow(id)
  BY <1>8, SlotFacts, ChangeRowKeeps DEF deleteRow
<1> QED
  BY <1>4, <1>5, <1>6, <1>7, <1>8

-----------------------------------------------------------------------------
(* Listings: the theorem.                                                  *)

\* Listings start with the invariant.
LEMMA ListingsInvInitially ==
  ASSUME ListingsInit
  PROVE  ListingsInv
<1> DEFINE First == [key : SortValues \cup {NULL}, status : {"open"}, person : {"ann"}, customer : {"ann", Guest}, blocked : {FALSE}]
<1>1. /\ listed \in [RowIds -> {EmptySlot} \cup First]
      /\ rowChanges = 0 /\ steadily = Matching
      /\ walk.listing \in ByCursor => walk.direction = "desc"
      /\ walk.listing \notin MayLackTheValue => \A id \in Listed : listed[id].key # NULL
  BY DEF ListingsInit, Matching
<1>2. /\ walk \in [listing : ByPage \cup ByCursor, filter : Filters, direction : {"asc", "desc"}, pageSize : PageSizes,
                   page : {1}, step : {"rows"}, seen : {<<>>}, people : {<<>>}, total : {0}, position : {NoPosition}]
  BY DEF ListingsInit
<1>3. \A r \in First : r \in SlotRows /\ ~r.blocked
  BY DEF SlotRows, Persons
<1> HIDE DEF First
<1>4. walk.page = 1 /\ walk.step = "rows" /\ walk.seen = <<>> /\ walk.position = NoPosition /\ walk.pageSize \in PageSizes
  BY <1>2
<1>5. walk \in Walks
  <2>1. NoPosition \in [at : Nat, id : Nat]
    BY DEF NoPosition, NULL
  <2>2. <<>> \in Seq(RowIds) /\ <<>> \in Seq(Views)
    OBVIOUS
  <2>3. walk = [listing |-> walk.listing, filter |-> walk.filter, direction |-> walk.direction, pageSize |-> walk.pageSize,
                page |-> 1, step |-> "rows", seen |-> <<>>, people |-> <<>>, total |-> 0, position |-> NoPosition]
    BY <1>2
  <2>4. /\ walk.listing \in ByPage \cup ByCursor /\ walk.filter \in Filters /\ walk.direction \in {"asc", "desc"}
        /\ walk.pageSize \in PageSizes
    BY <1>2
  <2> DEFINE l == walk.listing
             f == walk.filter
             d == walk.direction
             z == walk.pageSize
  <2>5. walk = [listing |-> l, filter |-> f, direction |-> d, pageSize |-> z,
                page |-> 1, step |-> "rows", seen |-> <<>>, people |-> <<>>, total |-> 0, position |-> NoPosition]
    BY <2>3
  <2>6. l \in ByPage \cup ByCursor /\ f \in Filters /\ d \in {"asc", "desc"} /\ z \in PageSizes
    BY <2>4
  <2> HIDE DEF l, f, d, z
  <2>7. [listing |-> l, filter |-> f, direction |-> d, pageSize |-> z,
         page |-> 1, step |-> "rows", seen |-> <<>>, people |-> <<>>, total |-> 0, position |-> NoPosition] \in Walks
    BY <2>1, <2>2, <2>6 DEF Walks
  <2> QED
    BY <2>5, <2>7
<1>6. ListingsType
  BY <1>1, <1>3, <1>5 DEF ListingsType
<1>7. RowsSound
  BY <1>1, <1>3 DEF RowsSound, Listed
<1>8. TimesKnown
  BY <1>1, <1>4 DEF TimesKnown, ByCursor, MayLackTheValue
<1>9. \A id \in RowIds : id \in Later
  BY <1>4 DEF Later, afterCursor
<1>10. CursorSound
  BY <1>4, <1>1, <1>6, <1>9, MatchingIsFinite DEF NoneMissed, ShownOnce, ShownInOrder, ShownStays, ShownBehind, CursorSound
<1>11. PagesSound
  <2>1. Len(walk.seen) = 0
    BY <1>4
  <2>2. pageOffset(walk.page, walk.pageSize) = 0
    <3>1. walk.pageSize \in Nat
      BY <1>4, ListingsAssumption
    <3> QED
      BY <3>1, <1>4 DEF pageOffset
  <2>3. AllOf \in Nat
    BY <1>6, MatchingIsFinite
  <2> QED
    BY <2>1, <2>2, <2>3, <1>4 DEF PagesSound, FirstRows, HowMany
<1> QED
  BY <1>6, <1>7, <1>8, <1>10, <1>11 DEF ListingsInv

\* Each step of the reader or of a writer keeps the invariant.
LEMMA ListingsStepKeeps ==
  ASSUME ListingsInv, [ListingsNext]_listingsVars
  PROVE  ListingsInv'
<1>1. CASE readRows
  BY <1>1, ReadRowsKeeps
<1>2. CASE readTotal
  BY <1>2, ReadTotalKeeps
<1>3. CASE listBySku
  BY <1>3, ListBySkuKeeps
<1>4. CASE nextPage
  BY <1>4, NextPageKeeps
<1>5. CASE readFromCursor
  BY <1>5, ReadFromCursorKeeps
<1>6. CASE \E id \in RowIds : insertRow(id) \/ updateRow(id) \/ blockRow(id) \/ anonymizeRow(id) \/ deleteRow(id)
  BY <1>6, ChangesKeep
<1>7. CASE UNCHANGED listingsVars
  <2>1. listed' = listed /\ walk' = walk /\ rowChanges' = rowChanges /\ steadily' = steadily
    BY <1>7 DEF listingsVars
  <2>2. walk \in Walks
    BY DEF ListingsInv, ListingsType
  <2>3. ListingsType' /\ RowsSound' /\ TimesKnown'
    BY <2>1, <2>2, RowsAndTimesStay DEF ListingsInv, TimesKnown
  <2>4. Listed' = Listed /\ Matching' = Matching /\ rank' = rank /\ AllOf' = AllOf /\ Order' = Order
    BY <2>1, SameRows
  <2>5. Later' = Later /\ Shown' = Shown /\ AskedFor' = AskedFor
    BY <2>1 DEF Later, afterCursor, Shown, AskedFor
  <2>6. CursorSound'
    BY <2>1, <2>4, <2>5 DEF ListingsInv, CursorSound, ShownOnce, ShownInOrder, ShownStays, ShownBehind, NoneMissed
  <2>7. PagesSound'
    BY <2>1, <2>4, <2>5 DEF ListingsInv, PagesSound, FirstRows, HowMany
  <2> QED
    BY <2>3, <2>6, <2>7 DEF ListingsInv
<1> QED
  BY <1>1, <1>2, <1>3, <1>4, <1>5, <1>6, <1>7 DEF ListingsNext

\* The invariant has what a walk by cursor answers.
LEMMA CursorWalksHold ==
  ASSUME ListingsInv
  PROVE  CursorWalksAreWhole
<1> SUFFICES ASSUME walk.listing \in ByCursor
             PROVE  /\ walk.step = "end" => \A id \in steadily : showsOnce(id)
                    /\ \A i, j \in 1..Len(walk.seen) : i < j => walk.seen[i] # walk.seen[j]
                    /\ \A i, j \in 1..Len(walk.seen) : i < j /\ {walk.seen[i], walk.seen[j]} \subseteq steadily =>
                         precedes(walk.listing, walk.direction, walk.seen[i], walk.seen[j])
  BY DEF CursorWalksAreWhole
<1>1. ShownOnce /\ ShownInOrder /\ NoneMissed /\ walk.seen \in Seq(RowIds)
  BY DEF ListingsInv, CursorSound, ListingsType, Walks
<1>2. steadily \subseteq Listed
  BY MatchingIsFinite DEF ListingsInv, RowsSound
<1>3. ASSUME walk.step = "end", NEW id \in steadily
      PROVE  showsOnce(id)
  <2>1. PICK i \in 1..Len(walk.seen) : walk.seen[i] = id
    BY <1>1, <1>3 DEF NoneMissed, Shown
  <2>2. \A j \in 1..Len(walk.seen) : walk.seen[j] = id => j = i
    BY <2>1, <1>1 DEF ShownOnce
  <2>3. {j \in 1..Len(walk.seen) : walk.seen[j] = id} = {i}
    BY <2>1, <2>2
  <2> QED
    BY <2>3, FS_Singleton DEF showsOnce
<1>4. ASSUME NEW i \in 1..Len(walk.seen), NEW j \in 1..Len(walk.seen), i < j, {walk.seen[i], walk.seen[j]} \subseteq steadily
      PROVE  precedes(walk.listing, walk.direction, walk.seen[i], walk.seen[j])
  BY <1>1, <1>2, <1>4 DEF ShownInOrder, Order
<1>5. \A i, j \in 1..Len(walk.seen) : i < j => walk.seen[i] # walk.seen[j]
  BY <1>1 DEF ShownOnce
<1> QED
  BY <1>3, <1>4, <1>5

\* The invariant has what a walk by page answers.
LEMMA PageWalksHold ==
  ASSUME ListingsInv
  PROVE  PageWalksAreWhole
<1> SUFFICES ASSUME walk.listing \in ByPage, walk.step = "end", rowChanges = 0
             PROVE  /\ walk.total = Len(walk.seen) /\ {walk.seen[i] : i \in 1..Len(walk.seen)} = matching(walk.listing, walk.filter)
                    /\ \A i \in 2..Len(walk.seen) : precedes(walk.listing, walk.direction, walk.seen[i - 1], walk.seen[i])
  BY DEF PageWalksAreWhole
<1> DEFINE old == walk.seen
           n == Len(old)
<1>1. ListingsType /\ walk \in Walks /\ FirstRows /\ HowMany
  BY DEF ListingsInv, ListingsType, PagesSound
<1>2. old \in Seq(RowIds) /\ n \in Nat
  BY <1>1 DEF Walks
<1>3. Matching \subseteq RowIds /\ IsFiniteSet(Matching) /\ AllOf \in Nat
  BY <1>1, MatchingIsFinite
<1>4. AskedFor \in Nat
  <2>1. walk.page \in Nat /\ walk.pageSize \in Nat
    BY <1>1, ListingsAssumption DEF Walks
  <2> QED
    BY <2>1 DEF AskedFor
<1>5. walk.total = AllOf /\ n = AllOf
  BY <1>1, <1>3, <1>4 DEF HowMany
<1>6. \A i \in 1..n : old[i] \in Matching /\ rank[old[i]] = i - 1
  BY <1>1 DEF FirstRows
<1> HIDE DEF old
<1>7. \A x \in Matching : \E i \in 1..n : old[i] = x
  <2>1. \A i, j \in 1..n : old[i] = old[j] => i = j
    BY <1>6, <1>2
  <2>2. old \in [1..n -> Matching]
    <3>1. DOMAIN old = 1..n /\ old = [i \in 1..n |-> old[i]]
      BY <1>2
    <3> HIDE DEF n
    <3> QED
      BY <3>1, <1>6
  <2>3. old \in Injection(1..n, Matching)
    BY <2>1, <2>2 DEF Injection, IsInjective
  <2>4. Cardinality(1..n) = Cardinality(Matching)
    BY <1>2, FS_Interval, <1>5 DEF AllOf
  <2>5. old \in Surjection(1..n, Matching)
    BY <2>3, <2>4, <1>3, FS_Injection
  <2> QED
    BY <2>5 DEF Surjection
<1>8. ASSUME NEW i \in 2..n
      PROVE  precedes(walk.listing, walk.direction, old[i - 1], old[i])
  <2> DEFINE a == old[i - 1]
             b == old[i]
             A == {x \in Matching : <<x, a>> \in Order}
             B == {x \in Matching : <<x, b>> \in Order}
  <2>1. i - 1 \in 1..n /\ i \in 1..n
    BY <1>2
  <2>2. a \in Matching /\ b \in Matching /\ rank[a] = (i - 1) - 1 /\ rank[b] = i - 1
    BY <2>1, <1>6
  <2>3. a \in RowIds /\ b \in RowIds
    BY <2>2, <1>3
  <2>4. Cardinality(A) = i - 2 /\ Cardinality(B) = i - 1
    BY <2>3, <2>2, <2>1 DEF rank
  <2> HIDE DEF a, b
  <2>5. \A x, y \in RowIds : <<x, y>> \in Order <=> precedes(walk.listing, walk.direction, x, y)
    BY DEF Order
  <2>6. CASE <<b, a>> \in Order
    <3>1. B \subseteq A
      BY <2>3, <2>5, <2>6, <1>1, <1>3, Comparable
    <3>2. IsFiniteSet(A)
      BY <1>3, FS_Subset
    <3>3. Cardinality(B) <= Cardinality(A)
      <4> HIDE DEF A, B
      <4> QED
        BY <3>1, <3>2, FS_Subset
    <3>4. FALSE
      <4> HIDE DEF A, B
      <4> QED
        BY <3>3, <2>4, <2>1
    <3> QED
      BY <3>4
  <2>7. CASE a = b
    <3>1. Cardinality(A) = Cardinality(B)
      BY <2>7
    <3>2. FALSE
      <4> HIDE DEF A, B
      <4>1. i - 2 = i - 1
        BY <3>1, <2>4
      <4>2. i \in Int
        BY <2>1
      <4> QED
        BY <4>1, <4>2
    <3> QED
      BY <3>2
  <2>8. CASE <<b, a>> \notin Order /\ a # b
    BY <2>3, <2>5, <2>8, <1>1, Comparable DEF a, b
  <2> QED
    BY <2>6, <2>7, <2>8
<1>9. {old[i] : i \in 1..n} = Matching
  BY <1>6, <1>7
<1> QED
  BY <1>5, <1>8, <1>9 DEF old, Matching

\* The invariant has what is told of a blocked row.
LEMMA BlockedHolds ==
  ASSUME ListingsInv
  PROVE  BlockedStaysHidden
<1> SUFFICES ASSUME NEW id \in Listed, listed[id].blocked,
                    NEW erased, erased = [listed[id] EXCEPT !.person = Gone, !.blocked = FALSE]
             PROVE  /\ where(walk.listing, walk.filter, listed[id]) <=> where(walk.listing, walk.filter, erased)
                    /\ where(walk.listing, walk.filter, listed[id]) => view(walk.listing, listed[id]) = view(walk.listing, erased)
  BY ZenonT(30) DEF BlockedStaysHidden
<1>1. walk.listing \in WithBlocking /\ ListingsType
  BY DEF ListingsInv, RowsSound
<1>2. listed[id] \in SlotRows
  BY <1>1, RowKeys
<1>3. /\ erased.status = listed[id].status /\ erased.customer = listed[id].customer /\ erased.person = Gone
      /\ ~erased.blocked /\ listed[id].blocked
  BY <1>2 DEF SlotRows
<1> DEFINE r == listed[id]
           l == walk.listing
           f == walk.filter
<1>11. f[1] = "q" => f[2] # Gone
  BY <1>1 DEF ListingsType, Walks, Filters, Gone
<1> HIDE DEF r, l, f
<1>4. /\ onColumn(f, erased) <=> onColumn(f, r)
      /\ onName(f, erased) <=> onName(f, r)
      /\ onCustomer(f, erased) <=> onCustomer(f, r)
      /\ onGuest(f, erased) <=> onGuest(f, r)
      /\ searchOf(f, erased) <=> searchOf(f, r)
      /\ workOrderSearch(f, erased) <=> workOrderSearch(f, r)
  BY <1>3, <1>11 DEF onColumn, onName, onCustomer, onGuest, searchOf, workOrderSearch, r
<1>10. erased.person = Gone /\ ~erased.blocked /\ r.blocked /\ erased.customer = r.customer
  BY <1>3 DEF r
<1>5. CASE l = "orders"
  <2>1. where(l, f, erased) <=> where(l, f, r)
    BY <1>4, <1>5 DEF where, listOrders
  <2>2. toSummaryView(erased) = [contact |-> Gone, customer |-> r.customer]
    BY <1>10 DEF toSummaryView
  <2>3. toAdminSummaryView(erased) = [contact |-> Gone, customer |-> r.customer]
    BY <1>10, <2>2 DEF toAdminSummaryView
  <2>4. toAdminSummaryView(r) = [contact |-> Gone, customer |-> r.customer]
    BY <1>10 DEF toAdminSummaryView, toSummaryView
  <2>5. view(l, erased) = view(l, r)
    BY <2>3, <2>4, <1>5 DEF view
  <2> QED
    BY <2>1, <2>5 DEF r, l, f
<1>6. CASE l = "customerOrders"
  BY <1>10, <1>6 DEF where, listCustomerOrders, r, l, f
<1>7. CASE l = "shipments"
  <2>1. where(l, f, erased) <=> where(l, f, r)
    BY <1>4, <1>7 DEF where, listShipments
  <2>2. view(l, erased) = view(l, r)
    BY <1>10, <1>7 DEF view, toShipmentView
  <2> QED
    BY <2>1, <2>2 DEF r, l, f
<1>8. CASE l = "workOrders"
  <2>1. where(l, f, erased) <=> where(l, f, r)
    BY <1>4, <1>8 DEF where, listWorkOrders
  <2>2. view(l, erased) = view(l, r)
    BY <1>10, <1>8 DEF view, shown
  <2> QED
    BY <2>1, <2>2 DEF r, l, f
<1>9. l \in WithBlocking
  BY <1>1 DEF l
<1> QED
  BY <1>5, <1>6, <1>7, <1>8, <1>9 DEF WithBlocking

\* However many rows a listing has, whatever is asked of it, and however they change while it is read: a walk by cursor shows
\* every row that stayed once and in order, and repeats none; a walk by pages that nothing disturbed shows all the rows in
\* order and tells how many they are; and a blocked row is found and shown as one that was anonymized, which keeps its account.
THEOREM ListingsAlwaysHold == ListingsSpec => []ListingsHold
<1>1. ListingsInit => ListingsInv
  BY ListingsInvInitially
<1>2. ListingsInv /\ [ListingsNext]_listingsVars => ListingsInv'
  BY ListingsStepKeeps
<1>3. ListingsInv => ListingsHold
  BY CursorWalksHold, PageWalksHold, BlockedHolds DEF ListingsHold
<1> QED
  BY <1>1, <1>2, <1>3, PTL DEF ListingsSpec

-----------------------------------------------------------------------------
(* The locks of a transaction one after the other.                          *)

\* What a set of ids is in order.
InOrder(s, ids) ==
  s \in [1..Cardinality(ids) -> ids] /\ \A i, j \in 1..Cardinality(ids) : i < j => s[i] < s[j]

\* A finite set of numbers has a greatest.
LEMMA Greatest ==
  ASSUME NEW I \in SUBSET Nat, IsFiniteSet(I), I # {}
  PROVE  \E m \in I : \A i \in I : i <= m
<1> DEFINE Sized(n) == \A J \in SUBSET Nat : IsFiniteSet(J) /\ Cardinality(J) = n + 1 => \E m \in J : \A i \in J : i <= m
           T == {n \in Nat : Sized(n)}
<1>1. 0 \in T
  <2> SUFFICES ASSUME NEW J \in SUBSET Nat, IsFiniteSet(J), Cardinality(J) = 0 + 1
               PROVE  \E m \in J : \A i \in J : i <= m
    OBVIOUS
  <2>1. PICK m : J = {m}
    BY FS_Singleton
  <2> QED
    BY <2>1
<1>2. ASSUME NEW n \in Nat, n \in T
      PROVE  n + 1 \in T
  <2> SUFFICES ASSUME NEW J \in SUBSET Nat, IsFiniteSet(J), Cardinality(J) = (n + 1) + 1
               PROVE  \E m \in J : \A i \in J : i <= m
    OBVIOUS
  <2>1. PICK x : x \in J
    BY FS_EmptySet
  <2>2. IsFiniteSet(J \ {x}) /\ Cardinality(J \ {x}) = n + 1 /\ J \ {x} \in SUBSET Nat
    BY <2>1, FS_RemoveElement
  <2>3. PICK m \in J \ {x} : \A i \in J \ {x} : i <= m
    BY <1>2, <2>2
  <2>4. x \in Nat /\ m \in Nat
    BY <2>1
  <2>5. CASE x <= m
    BY <2>3, <2>5
  <2>6. CASE ~(x <= m)
    BY <2>3, <2>4, <2>6, <2>1
  <2> QED
    BY <2>5, <2>6
<1>3. \A n \in Nat : n \in T
  <2> HIDE DEF T
  <2> QED
    BY <1>1, <1>2, NatSets
<1>4. Cardinality(I) \in Nat /\ Cardinality(I) # 0
  BY FS_CardinalityType, FS_EmptySet
<1>5. Cardinality(I) - 1 \in T
  BY <1>3, <1>4
<1> QED
  BY <1>4, <1>5

\* A finite set of numbers can be put in order.
LEMMA OrderExists ==
  ASSUME NEW I \in SUBSET Nat, IsFiniteSet(I)
  PROVE  \E s : InOrder(s, I)
<1> DEFINE Sized(n) == \A J \in SUBSET Nat : IsFiniteSet(J) /\ Cardinality(J) = n => \E s : InOrder(s, J)
           T == {n \in Nat : Sized(n)}
<1>1. 0 \in T
  <2> SUFFICES ASSUME NEW J \in SUBSET Nat, IsFiniteSet(J), Cardinality(J) = 0
               PROVE  \E s : InOrder(s, J)
    OBVIOUS
  <2>1. InOrder([i \in 1..0 |-> 0], J)
    BY DEF InOrder
  <2> QED
    BY <2>1
<1>2. ASSUME NEW n \in Nat, n \in T
      PROVE  n + 1 \in T
  <2> SUFFICES ASSUME NEW J \in SUBSET Nat, IsFiniteSet(J), Cardinality(J) = n + 1
               PROVE  \E s : InOrder(s, J)
    OBVIOUS
  <2>1. PICK m \in J : \A i \in J : i <= m
    BY FS_EmptySet, Greatest
  <2>2. IsFiniteSet(J \ {m}) /\ Cardinality(J \ {m}) = n /\ J \ {m} \in SUBSET Nat
    BY FS_RemoveElement
  <2>3. PICK s : InOrder(s, J \ {m})
    BY <1>2, <2>2
  <2>4. s \in [1..n -> J \ {m}] /\ \A i, j \in 1..n : i < j => s[i] < s[j]
    BY <2>2, <2>3 DEF InOrder
  <2> DEFINE u == [i \in 1..(n + 1) |-> IF i = n + 1 THEN m ELSE s[i]]
  <2>5. \A i \in 1..n : u[i] = s[i] /\ u[i] \in J /\ u[i] < m /\ i \in 1..(n + 1)
    <3> TAKE i \in 1..n
    <3>1. s[i] \in J /\ s[i] # m /\ s[i] \in Nat /\ m \in Nat /\ s[i] <= m
      BY <2>1, <2>4
    <3> QED
      BY <3>1
  <2>6. u[n + 1] = m
    OBVIOUS
  <2>8. \A i \in 1..(n + 1) : i \in 1..n \/ i = n + 1
    OBVIOUS
  <2>a. \A i \in 1..(n + 1) : u[i] \in J
    <3> HIDE DEF u
    <3> QED
      BY <2>5, <2>6, <2>8
  <2>7. u \in [1..(n + 1) -> J]
    BY <2>a
  <2> HIDE DEF u
  <2>9. \A i, j \in 1..(n + 1) : i < j => u[i] < u[j]
    BY <2>8, <2>5, <2>6, <2>4
  <2>10. InOrder(u, J)
    BY <2>7, <2>9 DEF InOrder
  <2> QED
    BY <2>10
<1>3. \A n \in Nat : n \in T
  <2> HIDE DEF T
  <2> QED
    BY <1>1, <1>2, NatSets
<1>4. Cardinality(I) \in T
  BY <1>3, FS_CardinalityType
<1> QED
  BY <1>4

\* Sorting ids gives each of them once, in their order.
LEMMA ByIdIs ==
  ASSUME NEW I \in SUBSET Nat, IsFiniteSet(I)
  PROVE  InOrder(byId(I), I) /\ byId(I) \in Seq(I) /\ Len(byId(I)) = Cardinality(I) /\ Cardinality(I) \in Nat
<1>1. \E s \in [1..Cardinality(I) -> I] : \A i, j \in 1..Cardinality(I) : i < j => s[i] < s[j]
  BY OrderExists DEF InOrder
<1>2. byId(I) \in [1..Cardinality(I) -> I] /\ \A i, j \in 1..Cardinality(I) : i < j => byId(I)[i] < byId(I)[j]
  BY <1>1 DEF byId
<1>3. Cardinality(I) \in Nat
  BY FS_CardinalityType
<1>4. byId(I) \in Seq(I) /\ Len(byId(I)) = Cardinality(I)
  BY <1>2, <1>3
<1> QED
  BY <1>2, <1>3, <1>4 DEF InOrder

-----------------------------------------------------------------------------
(* What a list of locks keeps to.                                           *)

MissingIds == {ItemId[<<v, 2>>] : v \in MissingItems}
\* The rows that every transaction locks in the same order, whoever it is, and those that only who has the order locks.
Common == {"order", "cart", "customer", "warehouse", "item"}
Guarded == {"reservation", "payment", "shipment"}
Ranked(place) == place[1] \in Common /\ ~(place[1] = "item" /\ place[2] \in MissingIds)
Weight(place) ==
  IF place[1] = "order" THEN place[2]
  ELSE IF place[1] = "customer" THEN 4
  ELSE IF place[1] = "cart" THEN IF place[2] = 1 THEN 3 ELSE 3 + place[2]
  ELSE IF place[1] = "warehouse" THEN 6 + place[2]
  ELSE 9 + place[2]

LockRows == (Common \cup Guarded \cup {"coupon"}) \X Nat
LockSteps == [do : {"update", "share"}, row : LockRows]
Savepoint == [do |-> "savepoint", row |-> <<"none", 0>>]
Undo == [do |-> "undo", row |-> <<"none", 0>>]
ForUpdate(kind, id) == [do |-> "update", row |-> <<kind, id>>]
Share(kind, id) == [do |-> "share", row |-> <<kind, id>>]

\* One lock may be asked for with another in hand.
Fits(x, y) ==
  /\ Ranked(x.row) /\ Ranked(y.row) => Weight(x.row) < Weight(y.row)
  /\ x.row[1] = "coupon" => y.row[1] \in {"item", "warehouse"}
\* Each lock of a list may be asked for with those before it in hand, or is one of them.
Climbs(s) ==
  /\ s \in Seq(LockSteps)
  /\ \A j \in 1..Len(s) : (\E i \in 1..(j - 1) : s[i] = s[j]) \/ (\A i \in 1..(j - 1) : Fits(s[i], s[j]))
Els(s) == {s[i] : i \in 1..Len(s)}
Follow(A, B) == \A y \in B : y \in A \/ \A x \in A : Fits(x, y)

\* Two climbing lists in which the second only goes on from the first are one climbing list.
LEMMA Joins ==
  ASSUME NEW a, NEW b, Climbs(a), Climbs(b), Follow(Els(a), Els(b))
  PROVE  Climbs(a \o b) /\ Els(a \o b) = Els(a) \cup Els(b)
<1>1. /\ a \in Seq(LockSteps) /\ b \in Seq(LockSteps)
      /\ Len(a) \in Nat /\ Len(b) \in Nat
  BY LenProperties DEF Climbs
<1> DEFINE c == a \o b
<1>2. /\ c \in Seq(LockSteps) /\ Len(c) = Len(a) + Len(b)
      /\ \A i \in 1..Len(a) : c[i] = a[i]
      /\ \A i \in 1..Len(b) : c[Len(a) + i] = b[i]
  BY <1>1, ConcatProperties
<1>3. \A i \in 1..Len(c) : i \in 1..Len(a) \/ (i - Len(a) \in 1..Len(b) /\ c[i] = b[i - Len(a)] /\ i > Len(a))
  BY <1>1, <1>2
<1>4. \A i \in 1..Len(b) : Len(a) + i \in 1..Len(c)
  BY <1>1, <1>2
<1>5. \A i \in 1..Len(a) : i \in 1..Len(c)
  BY <1>1, <1>2
<1> HIDE DEF c
<1>6. Els(c) = Els(a) \cup Els(b)
  BY <1>2, <1>3, <1>4, <1>5 DEF Els
<1>7. ASSUME NEW j \in 1..Len(c)
      PROVE  (\E i \in 1..(j - 1) : c[i] = c[j]) \/ (\A i \in 1..(j - 1) : Fits(c[i], c[j]))
  <2>1. CASE j \in 1..Len(a)
    <3>1. \A i \in 1..(j - 1) : i \in 1..Len(a) /\ c[i] = a[i]
      BY <1>1, <1>2, <2>1
    <3>2. c[j] = a[j]
      BY <1>2, <2>1
    <3>3. (\E i \in 1..(j - 1) : a[i] = a[j]) \/ (\A i \in 1..(j - 1) : Fits(a[i], a[j]))
      BY <2>1 DEF Climbs
    <3> QED
      BY <3>1, <3>2, <3>3
  <2>2. CASE ~(j \in 1..Len(a))
    <3> DEFINE k == j - Len(a)
    <3>1. k \in 1..Len(b) /\ c[j] = b[k] /\ j > Len(a) /\ j = Len(a) + k
      BY <1>1, <1>2, <1>3, <2>2
    <3>2. \A i \in 1..Len(a) : i \in 1..(j - 1) /\ c[i] = a[i]
      BY <1>1, <1>2, <3>1
    <3>3. \A i \in 1..(k - 1) : Len(a) + i \in 1..(j - 1) /\ c[Len(a) + i] = b[i]
      <4> HIDE DEF k
      <4>1. \A i \in 1..(k - 1) : i \in 1..Len(b) /\ Len(a) + i \in 1..(j - 1)
        BY <1>1, <3>1
      <4> QED
        BY <1>2, <4>1
    <3>4. \A i \in 1..(j - 1) : i \in 1..Len(a) \/ (i - Len(a) \in 1..(k - 1) /\ c[i] = b[i - Len(a)])
      BY <1>1, <1>2, <1>3, <3>1
    <3>5. b[k] \in Els(b)
      BY <3>1 DEF Els
    <3> HIDE DEF k
    <3>6. CASE b[k] \in Els(a)
      BY <3>1, <3>2, <3>6 DEF Els
    <3>7. CASE \E i \in 1..(k - 1) : b[i] = b[k]
      BY <3>1, <3>3, <3>7
    <3>8. CASE (\A x \in Els(a) : Fits(x, b[k])) /\ \A i \in 1..(k - 1) : Fits(b[i], b[k])
      BY <3>1, <3>2, <3>8, <3>4 DEF Els
    <3> QED
      BY <3>1, <3>5, <3>6, <3>7, <3>8 DEF Climbs, Follow
  <2> QED
    BY <2>1, <2>2
<1> QED
  BY <1>2, <1>6, <1>7 DEF Climbs, c

\* What a list of locks asks for, at most, and how it begins.
Part(s, A) == Climbs(s) /\ Els(s) \subseteq A
First(s, x) == Len(s) > 0 /\ s[1] = x
Apart(A, B) == \A x \in A : \A y \in B : Fits(x, y)

\* The locks of two parts that may follow each other may be taken one part after the other.
LEMMA PartJoins ==
  ASSUME NEW a, NEW b, NEW A, NEW B, Part(a, A), Part(b, B), Apart(A, B)
  PROVE  Part(a \o b, A \cup B)
<1>1. Follow(Els(a), Els(b))
  BY DEF Follow, Part, Apart
<1> QED
  BY <1>1, Joins DEF Part

\* What is locked first stays first, whatever comes after it.
LEMMA FirstJoins ==
  ASSUME NEW a, NEW b, NEW x, Climbs(a), Climbs(b), First(a, x)
  PROVE  First(a \o b, x)
  BY ConcatProperties, LenProperties DEF Climbs, First

\* One lock is a part by itself.
LEMMA PartOne ==
  ASSUME NEW x \in LockSteps
  PROVE  Part(<<x>>, {x}) /\ Els(<<x>>) = {x} /\ First(<<x>>, x)
  BY DEF Part, Climbs, Els, First

\* A row locked for update is a part by itself.
LEMMA PartUpdate ==
  ASSUME NEW kind \in Common \cup Guarded \cup {"coupon"}, NEW id \in Nat
  PROVE  /\ Part(update(kind, id), {ForUpdate(kind, id)}) /\ Els(update(kind, id)) = {ForUpdate(kind, id)}
         /\ First(update(kind, id), ForUpdate(kind, id))
<1>1. ForUpdate(kind, id) \in LockSteps
  BY DEF ForUpdate, LockSteps, LockRows
<1> QED
  BY <1>1, PartOne DEF update, ForUpdate

\* So is a row locked for share.
LEMMA PartShare ==
  ASSUME NEW kind \in Common \cup Guarded \cup {"coupon"}, NEW id \in Nat
  PROVE  /\ Part(share(kind, id), {Share(kind, id)}) /\ Els(share(kind, id)) = {Share(kind, id)}
         /\ First(share(kind, id), Share(kind, id))
<1>1. Share(kind, id) \in LockSteps
  BY DEF Share, LockSteps, LockRows
<1> QED
  BY <1>1, PartOne DEF share, Share

ItemLocks(I) == {ForUpdate("item", i) : i \in I}

\* Locking the items of a list locks them in the order of the list, and nothing else.
LEMMA LockAllIs ==
  ASSUME NEW I \in SUBSET Nat, NEW s \in Seq(I)
  PROVE  /\ lockAll("item", s) \in Seq(LockSteps) /\ Len(lockAll("item", s)) = Len(s) /\ Len(s) \in Nat
         /\ \A k \in 1..Len(s) : lockAll("item", s)[k] = ForUpdate("item", s[k]) /\ s[k] \in I
         /\ Els(lockAll("item", s)) \subseteq ItemLocks(I)
<1>1. Len(s) \in Nat /\ \A k \in 1..Len(s) : s[k] \in I
  BY LenProperties, ElementOfSeq
<1>2. \A k \in 1..Len(s) : ForUpdate("item", s[k]) \in LockSteps
  BY <1>1 DEF ForUpdate, LockSteps, LockRows, Common
<1>3. lockAll("item", s) = [k \in 1..Len(s) |-> ForUpdate("item", s[k])]
  BY DEF lockAll, ForUpdate
<1> HIDE DEF lockAll, ForUpdate
<1>4. lockAll("item", s) \in [1..Len(s) -> LockSteps]
  BY <1>2, <1>3
<1>5. lockAll("item", s) \in Seq(LockSteps) /\ Len(lockAll("item", s)) = Len(s)
  BY <1>1, <1>4
<1>6. Els(lockAll("item", s)) \subseteq ItemLocks(I)
  BY <1>1, <1>3, <1>5 DEF Els, ItemLocks
<1> QED
  BY <1>1, <1>3, <1>5, <1>6

\* Items by id.
LEMMA PartItems ==
  ASSUME NEW I \in SUBSET Nat, IsFiniteSet(I)
  PROVE  Part(lockAll("item", byId(I)), ItemLocks(I))
<1> DEFINE s == byId(I)
<1>1. s \in Seq(I) /\ Len(s) \in Nat /\ \A i, j \in 1..Len(s) : i < j => s[i] < s[j]
  BY ByIdIs DEF InOrder
<1> HIDE DEF s
<1>2. \A i, j \in 1..Len(s) : i < j => Fits(ForUpdate("item", s[i]), ForUpdate("item", s[j]))
  <2> SUFFICES ASSUME NEW i \in 1..Len(s), NEW j \in 1..Len(s), i < j
               PROVE  Fits(ForUpdate("item", s[i]), ForUpdate("item", s[j]))
    OBVIOUS
  <2>1. s[i] \in Nat /\ s[j] \in Nat /\ s[i] < s[j]
    BY <1>1, ElementOfSeq
  <2> QED
    BY <2>1 DEF Fits, ForUpdate, Ranked, Weight
<1>3. Climbs(lockAll("item", s))
  BY <1>1, <1>2, LockAllIs DEF Climbs
<1>4. Els(lockAll("item", s)) \subseteq ItemLocks(I)
  BY <1>1, LockAllIs
<1> QED
  BY <1>3, <1>4 DEF Part, s

\* Items that are being created, in any order.
LEMMA PartCreated ==
  ASSUME NEW s \in Seq(MissingIds), MissingIds \subseteq Nat
  PROVE  Part(lockAll("item", s), ItemLocks(MissingIds))
<1>1. \A i \in MissingIds : ~Ranked(ForUpdate("item", i).row) /\ ForUpdate("item", i).row[1] = "item"
  BY DEF Ranked, ForUpdate
<1>2. \A i, j \in MissingIds : Fits(ForUpdate("item", i), ForUpdate("item", j))
  BY <1>1 DEF Fits
<1> DEFINE all == lockAll("item", s)
<1>3. /\ all \in Seq(LockSteps) /\ Len(all) = Len(s) /\ Len(s) \in Nat
      /\ \A k \in 1..Len(s) : all[k] = ForUpdate("item", s[k]) /\ s[k] \in MissingIds
      /\ Els(all) \subseteq ItemLocks(MissingIds)
  BY LockAllIs
<1> HIDE DEF all
<1>4. \A i, j \in 1..Len(s) : Fits(all[i], all[j])
  BY <1>2, <1>3
<1>5. \A j \in 1..Len(s) : \A i \in 1..(j - 1) : Fits(all[i], all[j])
  BY <1>3, <1>4
<1>6. Climbs(all)
  BY <1>3, <1>5 DEF Climbs
<1> QED
  BY <1>3, <1>6 DEF Part, all

-----------------------------------------------------------------------------
(* The transactions.                                                        *)

\* Only who has an order locks its reservation, its payment or its shipment.
Grounded(s) == \A j \in 1..Len(s) : s[j].row[1] \in Guarded => j > 1 /\ s[1] = ForUpdate("order", s[j].row[2])
Sound(s) == Climbs(s) /\ Grounded(s)

\* A script that starts by locking the order may lock what belongs to that order, and no other.
LEMMA SoundWithOrder ==
  ASSUME NEW s, NEW A, NEW o \in Nat, Part(s, A), First(s, ForUpdate("order", o)),
         \A x \in A : x.row[1] \in Guarded => x.row[2] = o
  PROVE  Sound(s)
<1>1. Len(s) \in Nat /\ \A j \in 1..Len(s) : s[j] \in A
  BY LenProperties DEF Part, Climbs, Els
<1>2. s[1].row[1] \notin Guarded
  BY DEF First, ForUpdate, Guarded
<1>3. \A j \in 1..Len(s) : s[j].row[1] \in Guarded => j > 1
  BY <1>1, <1>2
<1> QED
  BY <1>1, <1>3 DEF Sound, Part, Grounded, First

\* A script that locks nothing of an order needs no order.
LEMMA SoundAlone ==
  ASSUME NEW s, NEW A, Part(s, A), \A x \in A : x.row[1] \notin Guarded
  PROVE  Sound(s)
  BY DEF Part, Els, Grounded, Sound

\* The constants.
LEMMA Variants ==
  /\ LockVariants \subseteq Nat /\ IsFiniteSet(LockVariants) /\ MissingItems \subseteq LockVariants /\ IsFiniteSet(MissingItems)
  /\ MissingIds \subseteq Nat
  /\ \A v \in LockVariants, w \in {1, 2} : ItemId[<<v, w>>] \in Nat
  /\ existing(1) = LockVariants /\ existing(2) = LockVariants \ MissingItems
  /\ LockVariants \ existing(1) = {} /\ LockVariants \ existing(2) = MissingItems
<1>1. IsFiniteSet(LockVariants) /\ MissingItems \subseteq LockVariants
  BY LocksAssumption
<1>2. IsFiniteSet(MissingItems)
  BY <1>1, FS_Subset
<1>3. \A v \in LockVariants, w \in {1, 2} : ItemId[<<v, w>>] \in Nat
  BY LocksAssumption
<1>4. MissingIds \subseteq Nat
  BY <1>1, <1>3 DEF MissingIds
<1>5. /\ existing(1) = LockVariants /\ existing(2) = LockVariants \ MissingItems
      /\ LockVariants \ LockVariants = {} /\ LockVariants \ (LockVariants \ MissingItems) = MissingItems
  BY <1>1 DEF existing
<1>6. LockVariants \subseteq Nat
  BY LocksAssumption
<1> QED
  BY <1>1, <1>2, <1>3, <1>4, <1>5, <1>6

\* The items of some variants in a warehouse are finitely many.
LEMMA ItemsAre ==
  ASSUME NEW V \in SUBSET LockVariants, NEW w \in {1, 2}
  PROVE  itemsOf(V, w) \in SUBSET Nat /\ IsFiniteSet(itemsOf(V, w))
<1>1. itemsOf(V, w) \in SUBSET Nat
  BY Variants DEF itemsOf
<1>2. IsFiniteSet(V)
  BY Variants, FS_Subset
<1> DEFINE f == [v \in V |-> ItemId[<<v, w>>]]
<1>3. IsFiniteSet({f[v] : v \in V})
  <2> HIDE DEF f
  <2>1. f \in Surjection(V, {f[v] : v \in V})
    BY DEF Surjection, f
  <2> QED
    BY <1>2, <2>1, FS_Surjection
<1>4. itemsOf(V, w) = {f[v] : v \in V}
  BY DEF itemsOf
<1> QED
  BY <1>1, <1>3, <1>4

AllItems == ItemLocks(Nat)
\* Items that exist and items that are created may be locked in either order: nobody else sees the new ones.
LEMMA CreatedAnytime == Apart(AllItems, ItemLocks(MissingIds)) /\ Apart(ItemLocks(MissingIds), AllItems)
<1>1. \A x \in AllItems : x.row[1] = "item"
  BY DEF AllItems, ItemLocks, ForUpdate
<1>2. \A x \in ItemLocks(MissingIds) : x.row[1] = "item" /\ x.row[2] \in MissingIds
  BY DEF ItemLocks, ForUpdate
<1>3. \A x \in ItemLocks(MissingIds) : ~Ranked(x.row)
  BY <1>2 DEF Ranked
<1>4. \A x \in AllItems, y \in ItemLocks(MissingIds) : Fits(x, y) /\ Fits(y, x)
  BY <1>1, <1>2, <1>3 DEF Fits
<1> QED
  BY <1>4 DEF Apart

\* The items of variants, by their id, are a part.
LEMMA PartItemsOf ==
  ASSUME NEW V \in SUBSET LockVariants, NEW w \in {1, 2}
  PROVE  Part(lockAll("item", byId(itemsOf(V, w))), AllItems)
<1>1. Part(lockAll("item", byId(itemsOf(V, w))), ItemLocks(itemsOf(V, w))) /\ itemsOf(V, w) \subseteq Nat
  BY ItemsAre, PartItems
<1> QED
  BY <1>1 DEF Part, ItemLocks, AllItems

\* Reserving locks the warehouse for share, then the items by their id.
LEMMA ReserveIs ==
  ASSUME NEW w \in {1, 2}
  PROVE  /\ Part(reserveLocks(w), {Share("warehouse", w)} \cup AllItems)
         /\ Els(reserveLocks(w)) = {Share("warehouse", w)} \cup Els(lockAll("item", byId(itemsOf(existing(w), w))))
<1> DEFINE I == lockAll("item", byId(itemsOf(existing(w), w)))
<1>1. Part(I, AllItems)
  BY PartItemsOf DEF existing
<1>2. Part(share("warehouse", w), {Share("warehouse", w)}) /\ Els(share("warehouse", w)) = {Share("warehouse", w)}
  BY PartShare DEF Common
<1>3. Apart({Share("warehouse", w)}, AllItems)
  BY DEF Apart, Fits, AllItems, ItemLocks, Share, ForUpdate, Ranked, Weight
<1> HIDE DEF I
<1>4. Follow(Els(share("warehouse", w)), Els(I))
  BY <1>1, <1>2, <1>3 DEF Follow, Part, Apart
<1>5. Part(share("warehouse", w) \o I, {Share("warehouse", w)} \cup AllItems)
  BY <1>1, <1>2, <1>3, PartJoins
<1>6. Els(share("warehouse", w) \o I) = {Share("warehouse", w)} \cup Els(I)
  BY <1>1, <1>2, <1>4, Joins DEF Part
<1> QED
  BY <1>5, <1>6 DEF reserveLocks, I

\* A coupon is one lock.
LEMMA CouponIs == Part(couponLock, {ForUpdate("coupon", 1)}) /\ Els(couponLock) = {ForUpdate("coupon", 1)}
  BY PartUpdate DEF couponLock

\* The cart of a customer is locked after the customer.
LEMMA CustomerCartIs == Part(customerCart, {ForUpdate("customer", 1), ForUpdate("cart", 2)})
<1>1. Part(update("customer", 1), {ForUpdate("customer", 1)}) /\ Part(update("cart", 2), {ForUpdate("cart", 2)})
  BY PartUpdate DEF Common
<1>2. Apart({ForUpdate("customer", 1)}, {ForUpdate("cart", 2)})
  BY DEF Apart, Fits, ForUpdate, Ranked, Weight
<1>3. Part(update("customer", 1) \o update("cart", 2), {ForUpdate("customer", 1)} \cup {ForUpdate("cart", 2)})
  BY <1>1, <1>2, PartJoins
<1>4. {ForUpdate("customer", 1)} \cup {ForUpdate("cart", 2)} = {ForUpdate("customer", 1), ForUpdate("cart", 2)}
  OBVIOUS
<1> QED
  BY <1>3, <1>4 DEF customerCart

\* Releasing locks the reservation, then its items by their id.
LEMMA LeaveIs ==
  ASSUME NEW o \in {1, 2}
  PROVE  /\ Part(leaveLocks(o), {ForUpdate("reservation", o)} \cup AllItems)
         /\ Els(leaveLocks(o)) = {ForUpdate("reservation", o)} \cup Els(lockAll("item", byId(itemsOf(LockVariants, 1))))
<1> DEFINE I == lockAll("item", byId(itemsOf(LockVariants, 1)))
<1>1. Part(I, AllItems)
  BY PartItemsOf
<1>2. /\ Part(update("reservation", o), {ForUpdate("reservation", o)})
      /\ Els(update("reservation", o)) = {ForUpdate("reservation", o)}
  BY PartUpdate DEF Guarded
<1>3. Apart({ForUpdate("reservation", o)}, AllItems)
  BY DEF Apart, Fits, AllItems, ItemLocks, ForUpdate, Ranked, Common
<1> HIDE DEF I
<1>4. Follow(Els(update("reservation", o)), Els(I))
  BY <1>1, <1>2, <1>3 DEF Follow, Part, Apart
<1>5. Part(update("reservation", o) \o I, {ForUpdate("reservation", o)} \cup AllItems)
  BY <1>1, <1>2, <1>3, PartJoins
<1>6. Els(update("reservation", o) \o I) = {ForUpdate("reservation", o)} \cup Els(I)
  BY <1>1, <1>2, <1>4, Joins DEF Part
<1> QED
  BY <1>5, <1>6 DEF leaveLocks, I

\* Restocking locks items by their id.
LEMMA RestockIs ==
  ASSUME NEW w \in {1, 2}
  PROVE  Part(restockLocks(w), AllItems)
<1> DEFINE I == lockAll("item", byId(itemsOf(existing(w), w)))
           M == itemsOf(LockVariants \ existing(w), w)
           late == Reverse(byId(M))
<1>1. Part(I, AllItems)
  BY PartItemsOf DEF existing
<1>2. M \in SUBSET Nat /\ IsFiniteSet(M)
  BY ItemsAre
<1>3. M \subseteq MissingIds
  BY Variants DEF itemsOf, MissingIds
<1> HIDE DEF M
<1>4. late \in Seq(MissingIds)
  <2> DEFINE b == byId(M)
  <2>1. b \in Seq(M) /\ Len(b) \in Nat
    BY <1>2, ByIdIs
  <2> HIDE DEF b
  <2>2. \A i \in 1..Len(b) : b[(Len(b) - i) + 1] \in MissingIds
    BY <1>3, <2>1, ElementOfSeq
  <2>3. Reverse(b) \in [1..Len(b) -> MissingIds]
    BY <2>2 DEF Reverse
  <2> QED
    BY <2>1, <2>3 DEF b
<1> HIDE DEF late
<1>5. Part(lockAll("item", late), ItemLocks(MissingIds))
  BY <1>4, Variants, PartCreated
<1>6. Apart(AllItems, ItemLocks(MissingIds))
  BY CreatedAnytime
<1> HIDE DEF I
<1>7. Part(I \o lockAll("item", late), AllItems \cup ItemLocks(MissingIds))
  BY <1>1, <1>5, <1>6, PartJoins
<1>8. AllItems \cup ItemLocks(MissingIds) = AllItems
  BY Variants DEF AllItems, ItemLocks
<1> QED
  BY <1>7, <1>8 DEF restockLocks, I, late, M

\* So does an import of receipts.
LEMMA ImportIs == Part(itemLocks(2), AllItems)
<1> DEFINE m == byId(MissingItems)
           ids == [k \in 1..Len(m) |-> ItemId[<<m[k], 2>>]]
           I == lockAll("item", byId(itemsOf(LockVariants, 2)))
<1>1. createMissing(2) = lockAll("item", ids)
  BY Variants DEF createMissing
<1>2. ids \in Seq(MissingIds)
  <2>1. m \in Seq(MissingItems) /\ Len(m) \in Nat
    BY Variants, ByIdIs
  <2> HIDE DEF m
  <2>2. \A k \in 1..Len(m) : ItemId[<<m[k], 2>>] \in MissingIds
    BY <2>1, ElementOfSeq DEF MissingIds
  <2> QED
    BY <2>1, <2>2
<1> HIDE DEF ids
<1>3. Part(lockAll("item", ids), ItemLocks(MissingIds))
  BY <1>2, Variants, PartCreated
<1>4. Part(I, AllItems)
  BY PartItemsOf
<1>5. Apart(ItemLocks(MissingIds), AllItems)
  BY CreatedAnytime
<1> HIDE DEF I
<1>6. Part(lockAll("item", ids) \o I, ItemLocks(MissingIds) \cup AllItems)
  BY <1>3, <1>4, <1>5, PartJoins
<1>7. ItemLocks(MissingIds) \cup AllItems = AllItems
  BY Variants DEF AllItems, ItemLocks
<1> QED
  BY <1>1, <1>6, <1>7 DEF itemLocks, I

\* The order of a customer locks the customer, the cart, the warehouse and the items, each above the one before.
LEMMA PlaceCustomerSound == Sound(placeCustomerOrder)
<1> DEFINE A == {ForUpdate("customer", 1), ForUpdate("cart", 2)}
           B == {Share("warehouse", 1)} \cup AllItems
<1>1. Part(customerCart, A)
  BY CustomerCartIs
<1>2. Part(reserveLocks(1), B)
  BY ReserveIs
<1>3. Apart(A, B)
  BY DEF Apart, Fits, AllItems, ItemLocks, ForUpdate, Share, Ranked, Weight, Common, Guarded
<1>4. \A x \in A \cup B : x.row[1] \notin Guarded
  BY DEF AllItems, ItemLocks, ForUpdate, Share, Guarded
<1> HIDE DEF A, B
<1>5. Part(customerCart \o reserveLocks(1), A \cup B)
  BY <1>1, <1>2, <1>3, PartJoins
<1> QED
  BY <1>5, <1>4, SoundAlone DEF placeCustomerOrder

\* An expiry starts with the order, then what it holds.
LEMMA ExpireSound ==
  ASSUME NEW o \in {1, 2}
  PROVE  Sound(expireOrder(o))
<1> DEFINE A == {ForUpdate("order", o)}
           B == {ForUpdate("reservation", o)} \cup AllItems
           C == {ForUpdate("coupon", 1)}
<1>1. Part(update("order", o), A) /\ First(update("order", o), ForUpdate("order", o))
  BY PartUpdate DEF Common, Guarded
<1>2. Part(leaveLocks(o), B)
  BY LeaveIs
<1>3. Part(couponLock, C)
  BY CouponIs
<1>4. Apart(A, B) /\ Apart(A \cup B, C)
  BY DEF Apart, Fits, AllItems, ItemLocks, ForUpdate, Share, Ranked, Weight, Common, Guarded
<1>5. \A x \in A \cup B \cup C : x.row[1] \in Guarded => x.row[2] = o
  BY DEF AllItems, ItemLocks, ForUpdate, Share, Guarded
<1> HIDE DEF A, B, C
<1>6. Part(update("order", o) \o leaveLocks(o), A \cup B) /\ First(update("order", o) \o leaveLocks(o), ForUpdate("order", o))
  BY <1>1, <1>2, <1>4, PartJoins, FirstJoins DEF Part
<1>7. Part(update("order", o) \o leaveLocks(o) \o couponLock, A \cup B \cup C) /\ First(update("order", o) \o leaveLocks(o) \o couponLock, ForUpdate("order", o))
  BY <1>6, <1>3, <1>4, PartJoins, FirstJoins DEF Part
<1> QED
  BY <1>7, <1>5, SoundWithOrder DEF expireOrder

\* So does the cancelling of an order not paid.
LEMMA CancelPendingSound ==
  ASSUME NEW o \in {1, 2}
  PROVE  Sound(cancelPending(o))
<1> DEFINE A == {ForUpdate("order", o)}
           B == {ForUpdate("reservation", o)} \cup AllItems
           C == {ForUpdate("payment", o)}
           D == {ForUpdate("coupon", 1)}
<1>1. Part(update("order", o), A) /\ First(update("order", o), ForUpdate("order", o))
  BY PartUpdate DEF Common, Guarded
<1>2. Part(leaveLocks(o), B)
  BY LeaveIs
<1>3. Part(update("payment", o), C)
  BY PartUpdate DEF Common, Guarded
<1>4. Part(couponLock, D)
  BY CouponIs
<1>5. Apart(A, B) /\ Apart(A \cup B, C) /\ Apart(A \cup B \cup C, D)
  BY DEF Apart, Fits, AllItems, ItemLocks, ForUpdate, Share, Ranked, Weight, Common, Guarded
<1>6. \A x \in A \cup B \cup C \cup D : x.row[1] \in Guarded => x.row[2] = o
  BY DEF AllItems, ItemLocks, ForUpdate, Share, Guarded
<1> HIDE DEF A, B, C, D
<1>7. Part(update("order", o) \o leaveLocks(o), A \cup B) /\ First(update("order", o) \o leaveLocks(o), ForUpdate("order", o))
  BY <1>1, <1>2, <1>5, PartJoins, FirstJoins DEF Part
<1>8. Part(update("order", o) \o leaveLocks(o) \o update("payment", o), A \cup B \cup C) /\ First(update("order", o) \o leaveLocks(o) \o update("payment", o), ForUpdate("order", o))
  BY <1>7, <1>3, <1>5, PartJoins, FirstJoins DEF Part
<1>9. Part(update("order", o) \o leaveLocks(o) \o update("payment", o) \o couponLock, A \cup B \cup C \cup D) /\ First(update("order", o) \o leaveLocks(o) \o update("payment", o) \o couponLock, ForUpdate("order", o))
  BY <1>8, <1>4, <1>5, PartJoins, FirstJoins DEF Part
<1> QED
  BY <1>9, <1>6, SoundWithOrder DEF cancelPending

\* The cancelling of a paid order puts its goods back after that.
LEMMA CancelPaidSound ==
  ASSUME NEW o \in {1, 2}, NEW w \in {1, 2}
  PROVE  Sound(cancelPaid(o, w))
<1> DEFINE A == {ForUpdate("order", o)}
           B == {ForUpdate("shipment", o)}
           C == {ForUpdate("payment", o)}
           D == {ForUpdate("coupon", 1)}
           E == AllItems
<1>1. Part(update("order", o), A) /\ First(update("order", o), ForUpdate("order", o))
  BY PartUpdate DEF Common, Guarded
<1>2. Part(update("shipment", o), B)
  BY PartUpdate DEF Common, Guarded
<1>3. Part(update("payment", o), C)
  BY PartUpdate DEF Common, Guarded
<1>4. Part(couponLock, D)
  BY CouponIs
<1>5. Part(restockLocks(w), E)
  BY RestockIs
<1>6. Apart(A, B) /\ Apart(A \cup B, C) /\ Apart(A \cup B \cup C, D) /\ Apart(A \cup B \cup C \cup D, E)
  BY DEF Apart, Fits, AllItems, ItemLocks, ForUpdate, Share, Ranked, Weight, Common, Guarded
<1>7. \A x \in A \cup B \cup C \cup D \cup E : x.row[1] \in Guarded => x.row[2] = o
  BY DEF AllItems, ItemLocks, ForUpdate, Share, Guarded
<1> HIDE DEF A, B, C, D, E
<1>8. Part(update("order", o) \o update("shipment", o), A \cup B) /\ First(update("order", o) \o update("shipment", o), ForUpdate("order", o))
  BY <1>1, <1>2, <1>6, PartJoins, FirstJoins DEF Part
<1>9. Part(update("order", o) \o update("shipment", o) \o update("payment", o), A \cup B \cup C) /\ First(update("order", o) \o update("shipment", o) \o update("payment", o), ForUpdate("order", o))
  BY <1>8, <1>3, <1>6, PartJoins, FirstJoins DEF Part
<1>10. Part(update("order", o) \o update("shipment", o) \o update("payment", o) \o couponLock, A \cup B \cup C \cup D) /\ First(update("order", o) \o update("shipment", o) \o update("payment", o) \o couponLock, ForUpdate("order", o))
  BY <1>9, <1>4, <1>6, PartJoins, FirstJoins DEF Part
<1>11. Part(update("order", o) \o update("shipment", o) \o update("payment", o) \o couponLock \o restockLocks(w), A \cup B \cup C \cup D \cup E) /\ First(update("order", o) \o update("shipment", o) \o update("payment", o) \o couponLock \o restockLocks(w), ForUpdate("order", o))
  BY <1>10, <1>5, <1>6, PartJoins, FirstJoins DEF Part
<1> QED
  BY <1>11, <1>7, SoundWithOrder DEF cancelPaid

\* A payment starts with the order.
LEMMA PaySound ==
  ASSUME NEW o \in {1, 2}
  PROVE  Sound(payOrder(o))
<1> DEFINE A == {ForUpdate("order", o)}
           B == {ForUpdate("reservation", o)} \cup AllItems
<1>1. Part(update("order", o), A) /\ First(update("order", o), ForUpdate("order", o))
  BY PartUpdate DEF Common, Guarded
<1>2. Part(leaveLocks(o), B)
  BY LeaveIs
<1>3. Apart(A, B)
  BY DEF Apart, Fits, AllItems, ItemLocks, ForUpdate, Share, Ranked, Weight, Common, Guarded
<1>4. \A x \in A \cup B : x.row[1] \in Guarded => x.row[2] = o
  BY DEF AllItems, ItemLocks, ForUpdate, Share, Guarded
<1> HIDE DEF A, B
<1>5. Part(update("order", o) \o leaveLocks(o), A \cup B) /\ First(update("order", o) \o leaveLocks(o), ForUpdate("order", o))
  BY <1>1, <1>2, <1>3, PartJoins, FirstJoins DEF Part
<1> QED
  BY <1>5, <1>4, SoundWithOrder DEF payOrder

\* A return that puts goods back locks the order, the warehouse and the items.
LEMMA RestockSound ==
  ASSUME NEW o \in {1, 2}, NEW w \in {1, 2}
  PROVE  Sound(restockOrder(o, w))
<1> DEFINE A == {ForUpdate("order", o)}
           B == {Share("warehouse", w)}
           C == AllItems
<1>1. Part(update("order", o), A) /\ First(update("order", o), ForUpdate("order", o))
  BY PartUpdate DEF Common, Guarded
<1>2. Part(share("warehouse", w), B)
  BY PartShare DEF Common
<1>3. Part(restockLocks(w), C)
  BY RestockIs
<1>4. Apart(A, B) /\ Apart(A \cup B, C)
  BY DEF Apart, Fits, AllItems, ItemLocks, ForUpdate, Share, Ranked, Weight, Common, Guarded
<1>5. \A x \in A \cup B \cup C : x.row[1] \in Guarded => x.row[2] = o
  BY DEF AllItems, ItemLocks, ForUpdate, Share, Guarded
<1> HIDE DEF A, B, C
<1>6. Part(update("order", o) \o share("warehouse", w), A \cup B) /\ First(update("order", o) \o share("warehouse", w), ForUpdate("order", o))
  BY <1>1, <1>2, <1>4, PartJoins, FirstJoins DEF Part
<1>7. Part(update("order", o) \o share("warehouse", w) \o restockLocks(w), A \cup B \cup C) /\ First(update("order", o) \o share("warehouse", w) \o restockLocks(w), ForUpdate("order", o))
  BY <1>6, <1>3, <1>4, PartJoins, FirstJoins DEF Part
<1> QED
  BY <1>7, <1>5, SoundWithOrder DEF restockOrder

\* An import of receipts locks items alone.
LEMMA ImportSound == Sound(importReceipts)
<1> DEFINE A == {Share("warehouse", 1)}
           B == {Share("warehouse", 2)}
           C == AllItems
<1>1. Part(share("warehouse", 1), A)
  BY PartShare DEF Common
<1>2. Part(share("warehouse", 2), B)
  BY PartShare DEF Common
<1>3. Part(itemLocks(2), C)
  BY ImportIs
<1>4. Apart(A, B) /\ Apart(A \cup B, C)
  BY DEF Apart, Fits, AllItems, ItemLocks, ForUpdate, Share, Ranked, Weight, Common, Guarded
<1>5. \A x \in A \cup B \cup C : x.row[1] \notin Guarded
  BY DEF AllItems, ItemLocks, ForUpdate, Share, Guarded
<1> HIDE DEF A, B, C
<1>6. Part(share("warehouse", 1) \o share("warehouse", 2), A \cup B)
  BY <1>1, <1>2, <1>4, PartJoins
<1>7. Part(share("warehouse", 1) \o share("warehouse", 2) \o itemLocks(2), A \cup B \cup C)
  BY <1>6, <1>3, <1>4, PartJoins
<1> QED
  BY <1>7, <1>5, SoundAlone DEF importReceipts

\* Closing a warehouse locks it for update.
LEMMA DeactivateSound == Sound(deactivateWarehouse)
<1> DEFINE A == {ForUpdate("warehouse", 1)}
           B == {ForUpdate("warehouse", 2)}
<1>1. Part(update("warehouse", 1), A)
  BY PartUpdate DEF Common, Guarded
<1>2. Part(update("warehouse", 2), B)
  BY PartUpdate DEF Common, Guarded
<1>3. Apart(A, B)
  BY DEF Apart, Fits, AllItems, ItemLocks, ForUpdate, Share, Ranked, Weight, Common, Guarded
<1>4. \A x \in A \cup B : x.row[1] \notin Guarded
  BY DEF AllItems, ItemLocks, ForUpdate, Share, Guarded
<1> HIDE DEF A, B
<1>5. Part(update("warehouse", 1) \o update("warehouse", 2), A \cup B)
  BY <1>1, <1>2, <1>3, PartJoins
<1> QED
  BY <1>5, <1>4, SoundAlone DEF deactivateWarehouse

\* Merging locks the cart of the guest, the customer and the customer's cart, in no order that anybody inverts.
LEMMA MergeSound == Sound(mergeCart)
<1> DEFINE A == {ForUpdate("cart", 1)}
           B == {ForUpdate("customer", 1), ForUpdate("cart", 2)}
<1>1. Part(update("cart", 1), A)
  BY PartUpdate DEF Common, Guarded
<1>2. Part(customerCart, B)
  BY CustomerCartIs
<1>3. Apart(A, B)
  BY DEF Apart, Fits, AllItems, ItemLocks, ForUpdate, Share, Ranked, Weight, Common, Guarded
<1>4. \A x \in A \cup B : x.row[1] \notin Guarded
  BY DEF AllItems, ItemLocks, ForUpdate, Share, Guarded
<1> HIDE DEF A, B
<1>5. Part(update("cart", 1) \o customerCart, A \cup B)
  BY <1>1, <1>2, <1>3, PartJoins
<1> QED
  BY <1>5, <1>4, SoundAlone DEF mergeCart

\* Restoring a cart locks the customer, then the cart.
LEMMA RestoreSound == Sound(restoreCart)
<1> DEFINE A == {ForUpdate("customer", 1)}
           B == {ForUpdate("cart", 3)}
<1>1. Part(update("customer", 1), A)
  BY PartUpdate DEF Common, Guarded
<1>2. Part(update("cart", 3), B)
  BY PartUpdate DEF Common, Guarded
<1>3. Apart(A, B)
  BY DEF Apart, Fits, AllItems, ItemLocks, ForUpdate, Share, Ranked, Weight, Common, Guarded
<1>4. \A x \in A \cup B : x.row[1] \notin Guarded
  BY DEF AllItems, ItemLocks, ForUpdate, Share, Guarded
<1> HIDE DEF A, B
<1>5. Part(update("customer", 1) \o update("cart", 3), A \cup B)
  BY <1>1, <1>2, <1>3, PartJoins
<1> QED
  BY <1>5, <1>4, SoundAlone DEF restoreCart

\* A reorder takes its locks upwards.
LEMMA ReorderSound ==
  ASSUME NEW o \in {1, 2}
  PROVE  Sound(reorderLines(o))
<1> DEFINE A == {ForUpdate("order", o)}
           B == {ForUpdate("customer", 1), ForUpdate("cart", 2)}
<1>1. Part(update("order", o), A) /\ First(update("order", o), ForUpdate("order", o))
  BY PartUpdate DEF Common, Guarded
<1>2. Part(customerCart, B)
  BY CustomerCartIs
<1>3. Apart(A, B)
  BY DEF Apart, Fits, AllItems, ItemLocks, ForUpdate, Share, Ranked, Weight, Common, Guarded
<1>4. \A x \in A \cup B : x.row[1] \in Guarded => x.row[2] = o
  BY DEF AllItems, ItemLocks, ForUpdate, Share, Guarded
<1> HIDE DEF A, B
<1>5. Part(update("order", o) \o customerCart, A \cup B) /\ First(update("order", o) \o customerCart, ForUpdate("order", o))
  BY <1>1, <1>2, <1>3, PartJoins, FirstJoins DEF Part
<1> QED
  BY <1>5, <1>4, SoundWithOrder DEF reorderLines

\* The job that deletes carts takes its locks upwards.
LEMMA DeleteCartsSound == Sound(deleteCarts)
<1> DEFINE A == {ForUpdate("customer", 1), ForUpdate("cart", 2)}
           B == {ForUpdate("cart", 3)}
<1>1. Part(customerCart, A)
  BY CustomerCartIs
<1>2. Part(update("cart", 3), B)
  BY PartUpdate DEF Common, Guarded
<1>3. Apart(A, B)
  BY DEF Apart, Fits, AllItems, ItemLocks, ForUpdate, Share, Ranked, Weight, Common, Guarded
<1>4. \A x \in A \cup B : x.row[1] \notin Guarded
  BY DEF AllItems, ItemLocks, ForUpdate, Share, Guarded
<1> HIDE DEF A, B
<1>5. Part(customerCart \o update("cart", 3), A \cup B)
  BY <1>1, <1>2, <1>3, PartJoins
<1> QED
  BY <1>5, <1>4, SoundAlone DEF deleteCarts

\* The job that anonymizes orders takes its locks upwards.
LEMMA AnonymizeSound == Sound(anonymizeOrders)
<1> DEFINE A == {ForUpdate("order", 1)}
           B == {ForUpdate("order", 2)}
<1>1. Part(update("order", 1), A)
  BY PartUpdate DEF Common, Guarded
<1>2. Part(update("order", 2), B)
  BY PartUpdate DEF Common, Guarded
<1>3. Apart(A, B)
  BY DEF Apart, Fits, AllItems, ItemLocks, ForUpdate, Share, Ranked, Weight, Common, Guarded
<1>4. \A x \in A \cup B : x.row[1] \notin Guarded
  BY DEF AllItems, ItemLocks, ForUpdate, Share, Guarded
<1> HIDE DEF A, B
<1>5. Part(update("order", 1) \o update("order", 2), A \cup B)
  BY <1>1, <1>2, <1>3, PartJoins
<1> QED
  BY <1>5, <1>4, SoundAlone DEF anonymizeOrders

\* A receipt locks the warehouse, then the item.
LEMMA ReceiveSound ==
  ASSUME NEW w \in {1, 2}
  PROVE  Sound(receiveStock(w))
<1> DEFINE id == ItemId[<<CHOOSE v \in LockVariants : TRUE, w>>]
           A == {Share("warehouse", w)}
<1>1. id \in Nat
  BY LocksAssumption
<1> HIDE DEF id
<1>2. Part(share("warehouse", w), A)
  BY PartShare DEF Common
<1>3. lockAll("item", <<id>>) = <<ForUpdate("item", id)>>
  BY DEF lockAll, ForUpdate
<1>4. Part(lockAll("item", <<id>>), AllItems)
  <2>1. ForUpdate("item", id) \in LockSteps /\ ForUpdate("item", id) \in AllItems
    BY <1>1 DEF ForUpdate, LockSteps, LockRows, Common, AllItems, ItemLocks
  <2> QED
    BY <1>3, <2>1, PartOne DEF Part
<1>5. Apart(A, AllItems) /\ \A x \in A \cup AllItems : x.row[1] \notin Guarded
  BY DEF Apart, Fits, AllItems, ItemLocks, ForUpdate, Share, Ranked, Weight, Common, Guarded
<1> HIDE DEF A
<1>6. Part(share("warehouse", w) \o lockAll("item", <<id>>), A \cup AllItems)
  BY <1>2, <1>4, <1>5, PartJoins
<1> QED
  BY <1>5, <1>6, SoundAlone DEF receiveStock, id

\* A late payment reserves the items again and then leaves its reservation: it has them already.
LEMMA PayLateSound ==
  ASSUME NEW o \in {1, 2}
  PROVE  Sound(payLate(o))
<1> DEFINE I == lockAll("item", byId(itemsOf(LockVariants, 1)))
           a == update("order", o)
           r == reserveLocks(1)
           l == leaveLocks(o)
           A == {ForUpdate("order", o)}
           R == {Share("warehouse", 1)} \cup AllItems
           G == {ForUpdate("reservation", o)}
           L == G \cup AllItems
           C == {ForUpdate("coupon", 1)}
<1>1. Part(a, A) /\ First(a, ForUpdate("order", o))
  BY PartUpdate DEF Common
<1>2. Part(r, R) /\ Els(r) = {Share("warehouse", 1)} \cup Els(I)
  BY ReserveIs, Variants
<1>3. Part(l, L) /\ Els(l) = G \cup Els(I)
  BY LeaveIs
<1>4. Part(couponLock, C)
  BY CouponIs
<1>5. /\ Apart(A, R) /\ Apart(A \cup R, G) /\ Apart(A \cup R \cup L, C)
      /\ \A x \in A \cup R \cup L \cup C : x.row[1] \in Guarded => x.row[2] = o
  BY DEF Apart, Fits, AllItems, ItemLocks, ForUpdate, Share, Ranked, Weight, Common, Guarded
<1> HIDE DEF I, A, R, G, L, C, a, r, l
<1>6. Part(a \o r, A \cup R) /\ Els(a \o r) = Els(a) \cup Els(r) /\ First(a \o r, ForUpdate("order", o))
  BY <1>1, <1>2, <1>5, Joins, PartJoins, FirstJoins DEF Follow, Part, Apart
<1>7. Follow(Els(a \o r), Els(l))
  BY <1>2, <1>3, <1>6, <1>5 DEF Follow, Part, Apart
<1>8. Part(a \o r \o l, A \cup R \cup L) /\ First(a \o r \o l, ForUpdate("order", o))
  BY <1>3, <1>6, <1>7, Joins, FirstJoins DEF Part
<1>9. Part(a \o r \o l \o couponLock, A \cup R \cup L \cup C) /\ First(a \o r \o l \o couponLock, ForUpdate("order", o))
  BY <1>4, <1>5, <1>8, PartJoins, FirstJoins DEF Part
<1> QED
  BY <1>5, <1>9, SoundWithOrder DEF payLate, a, r, l

\* The staff share the warehouse before the coupon, and again to reserve.
LEMMA PlaceStaffSound ==
  ASSUME NEW w \in {1, 2}
  PROVE  Sound(placeStaffOrder(w))
<1> DEFINE a == share("warehouse", w)
           r == reserveLocks(w)
           A == {Share("warehouse", w)}
           C == {ForUpdate("coupon", 1)}
<1>1. Part(a, A) /\ Els(a) = A
  BY PartShare DEF Common
<1>2. Part(couponLock, C) /\ Els(couponLock) = C
  BY CouponIs
<1>3. Part(r, A \cup AllItems)
  BY ReserveIs
<1>4. /\ Apart(A, C) /\ Apart(A \cup C, AllItems)
      /\ \A x \in A \cup C \cup (A \cup AllItems) : x.row[1] \notin Guarded
  BY DEF Apart, Fits, AllItems, ItemLocks, ForUpdate, Share, Ranked, Weight, Common, Guarded
<1> HIDE DEF A, C, a, r
<1>5. Climbs(a \o couponLock) /\ Els(a \o couponLock) = A \cup C
  BY <1>1, <1>2, <1>4, Joins DEF Follow, Apart, Part
<1>6. Follow(Els(a \o couponLock), Els(r))
  BY <1>3, <1>4, <1>5 DEF Follow, Part, Apart
<1>7. Part(a \o couponLock \o r, A \cup C \cup (A \cup AllItems))
  <2>1. Climbs(r) /\ Els(r) \subseteq A \cup AllItems
    BY <1>3 DEF Part
  <2>2. Climbs(a \o couponLock \o r) /\ Els(a \o couponLock \o r) = Els(a \o couponLock) \cup Els(r)
    BY <1>5, <1>6, <2>1, Joins
  <2> QED
    BY <1>5, <2>1, <2>2 DEF Part
<1> QED
  BY <1>4, <1>7, SoundAlone DEF placeStaffOrder, a, r

-----------------------------------------------------------------------------
(* What a transaction has in hand after some steps of its list, the nested  *)
(* ones included.                                                           *)

Steps == LockSteps \cup {Savepoint, Undo}
IsLock(step) == step.do \in {"update", "share"}
Dropped(s, k, n) == \E b, u \in 1..n : s[b] = Savepoint /\ s[u] = Undo /\ b <= k /\ k < u
Retained(s, n) == {k \in 1..n : IsLock(s[k]) /\ ~Dropped(s, k, n)}
\* At each step the lock asked for is one in hand, or fits all of them.
Ordered(s) ==
  /\ s \in Seq(Steps)
  /\ \A b, c \in 1..Len(s) : s[b] = Savepoint /\ s[c] = Savepoint => b = c
  /\ \A u \in 1..Len(s) : s[u] = Undo => \E b \in 1..(u - 1) : s[b] = Savepoint
  /\ \A j \in 1..Len(s) : IsLock(s[j]) =>
       (\E k \in Retained(s, j - 1) : s[k] = s[j]) \/ (\A k \in Retained(s, j - 1) : Fits(s[k], s[j]))
  /\ \A j \in 1..Len(s) : s[j].row[1] \in Guarded =>
       j > 1 /\ s[1] = ForUpdate("order", s[j].row[2]) /\ \A u \in 1..Len(s) : s[u] # Undo

\* The steps of a savepoint are no locks.
LEMMA StepKinds ==
  /\ \A x \in LockSteps : IsLock(x) /\ x # Savepoint /\ x # Undo
  /\ ~IsLock(Savepoint) /\ ~IsLock(Undo) /\ Savepoint # Undo
  /\ Savepoint.row[1] \notin Guarded /\ Undo.row[1] \notin Guarded
  BY DEF LockSteps, IsLock, Savepoint, Undo, Guarded

\* A list that climbs has in hand only lesser locks at each step, and may ask for the next.
LEMMA SoundIsOrdered ==
  ASSUME NEW s, Sound(s)
  PROVE  Ordered(s)
<1>1. s \in Seq(LockSteps) /\ Len(s) \in Nat /\ \A j \in 1..Len(s) : s[j] \in LockSteps
  BY LenProperties, ElementOfSeq DEF Sound, Climbs
<1>2. \A j \in 1..Len(s) : IsLock(s[j]) /\ s[j] # Savepoint /\ s[j] # Undo
  BY <1>1, StepKinds
<1>3. s \in Seq(Steps)
  BY <1>1 DEF Steps
<1>4. \A j \in 1..Len(s) : Retained(s, j - 1) = 1..(j - 1)
  BY <1>1, <1>2 DEF Retained, Dropped
<1>5. \A j \in 1..Len(s) : (\E i \in 1..(j - 1) : s[i] = s[j]) \/ (\A i \in 1..(j - 1) : Fits(s[i], s[j]))
  BY DEF Sound, Climbs
<1>6. \A j \in 1..Len(s) : s[j].row[1] \in Guarded => j > 1 /\ s[1] = ForUpdate("order", s[j].row[2])
  BY DEF Sound, Grounded
<1>7. \A j \in 1..Len(s) : (\E k \in Retained(s, j - 1) : s[k] = s[j]) \/ (\A k \in Retained(s, j - 1) : Fits(s[k], s[j]))
  BY <1>4, <1>5
<1> QED
  BY <1>2, <1>3, <1>6, <1>7 DEF Ordered

\* Two lists, one after the other.
LEMMA ConcatIs ==
  ASSUME NEW T, NEW x \in Seq(T), NEW y \in Seq(T)
  PROVE  /\ x \o y \in Seq(T) /\ Len(x \o y) = Len(x) + Len(y)
         /\ \A i \in 1..Len(x) : (x \o y)[i] = x[i]
         /\ \A i \in 1..Len(y) : (x \o y)[Len(x) + i] = y[i]
  BY ConcatProperties

\* Whichever of two lists follows a first one, with what the first of them took given up in between.
LEMMA NestedIsOrdered ==
  ASSUME NEW p, NEW a, NEW b, Climbs(p), Climbs(a), Climbs(b), Climbs(p \o a), Climbs(p \o b),
         \A x \in Els(p) \cup Els(a) \cup Els(b) : x.row[1] \notin Guarded
  PROVE  Ordered(p \o (savepoint \o a \o undo \o b))
<1> DEFINE s == p \o (savepoint \o a \o undo \o b)
           P == Len(p)
           A == Len(a)
           B == Len(b)
<1>0. P \in Nat /\ A \in Nat /\ B \in Nat
  BY LenProperties DEF Climbs
<1>1. /\ s \in Seq(Steps) /\ Len(s) = P + A + B + 2
      /\ \A i \in 1..P : s[i] = p[i]
      /\ s[P + 1] = Savepoint
      /\ \A i \in 1..A : s[P + 1 + i] = a[i]
      /\ s[P + A + 2] = Undo
      /\ \A i \in 1..B : s[P + A + 2 + i] = b[i]
  <2>1. p \in Seq(Steps) /\ a \in Seq(Steps) /\ b \in Seq(Steps)
    BY DEF Climbs, Steps
  <2>2. savepoint = <<Savepoint>> /\ undo = <<Undo>> /\ savepoint \in Seq(Steps) /\ undo \in Seq(Steps)
    BY DEF savepoint, undo, Savepoint, Undo, Steps
  <2> DEFINE x == savepoint \o a
             y == x \o undo
             z == y \o b
  <2>3. x \in Seq(Steps) /\ Len(x) = A + 1 /\ x[1] = Savepoint /\ \A i \in 1..A : x[1 + i] = a[i]
    BY <1>0, <2>1, <2>2, ConcatProperties
  <2> HIDE DEF x
  <2>4. y \in Seq(Steps) /\ Len(y) = A + 2 /\ (\A i \in 1..(A + 1) : y[i] = x[i]) /\ y[A + 2] = Undo
    <3>1. 1 \in 1..Len(undo) /\ Len(undo) = 1 /\ undo[1] = Undo
      BY <2>2
    <3>2. /\ y \in Seq(Steps) /\ Len(y) = Len(x) + 1 /\ (\A i \in 1..Len(x) : y[i] = x[i])
          /\ y[Len(x) + 1] = undo[1]
      BY <2>2, <2>3, <3>1, ConcatProperties
    <3> HIDE DEF y
    <3>3. Len(x) = A + 1 /\ (A + 1) + 1 = A + 2
      BY <1>0, <2>3
    <3> QED
      BY <3>1, <3>2, <3>3
  <2> HIDE DEF y
  <2>5. z \in Seq(Steps) /\ Len(z) = A + B + 2 /\ (\A i \in 1..(A + 2) : z[i] = y[i]) /\ \A i \in 1..B : z[A + 2 + i] = b[i]
    <3>1. /\ z \in Seq(Steps) /\ Len(z) = Len(y) + Len(b) /\ (\A i \in 1..Len(y) : z[i] = y[i])
          /\ \A i \in 1..Len(b) : z[Len(y) + i] = b[i]
      <4>1. y \in Seq(Steps) /\ b \in Seq(Steps)
        BY <2>1, <2>4
      <4> QED
        BY <4>1, ConcatIs
    <3> HIDE DEF z
    <3> QED
      BY <1>0, <2>4, <3>1
  <2> HIDE DEF z
  <2>6. z[1] = Savepoint /\ (\A i \in 1..A : z[1 + i] = a[i]) /\ z[A + 2] = Undo
    <3>1. \A i \in 1..A : 1 + i \in 1..(A + 1) /\ 1 + i \in 1..(A + 2)
      BY <1>0
    <3>2. 1 \in 1..(A + 1) /\ 1 \in 1..(A + 2) /\ A + 2 \in 1..(A + 2)
      BY <1>0
    <3> QED
      BY <2>3, <2>4, <2>5, <3>1, <3>2
  <2>7. /\ s = p \o z
    BY DEF z, y, x
  <2> HIDE DEF s
  <2>8. s \in Seq(Steps) /\ Len(s) = P + Len(z) /\ (\A i \in 1..P : s[i] = p[i]) /\ \A i \in 1..Len(z) : s[P + i] = z[i]
    <3>1. /\ p \o z \in Seq(Steps) /\ Len(p \o z) = Len(p) + Len(z) /\ (\A i \in 1..Len(p) : (p \o z)[i] = p[i])
          /\ \A i \in 1..Len(z) : (p \o z)[Len(p) + i] = z[i]
      <4>1. p \in Seq(Steps) /\ z \in Seq(Steps)
        BY <2>1, <2>5
      <4> QED
        BY <4>1, ConcatIs
    <3> QED
      BY <2>7, <3>1
  <2>9. 1 \in 1..Len(z) /\ A + 2 \in 1..Len(z) /\ P + (A + 2) = P + A + 2
    BY <1>0, <2>5
  <2>10. \A i \in 1..A : 1 + i \in 1..Len(z) /\ P + (1 + i) = P + 1 + i
    BY <1>0, <2>5
  <2>11. \A i \in 1..B : A + 2 + i \in 1..Len(z) /\ P + (A + 2 + i) = P + A + 2 + i
    BY <1>0, <2>5
  <2>12. Len(s) = P + A + B + 2
    BY <1>0, <2>5, <2>8
  <2> QED
    BY <2>5, <2>6, <2>8, <2>9, <2>10, <2>11, <2>12
<1>2. Len(s) \in Nat /\ Len(s) = P + A + B + 2
  BY <1>0, <1>1
<1> HIDE DEF s, P, A, B
<1>3. ASSUME NEW j \in 1..Len(s)
      PROVE  \/ j \in 1..P
             \/ j = P + 1
             \/ j - (P + 1) \in 1..A /\ j > P + 1 /\ j < P + A + 2 /\ s[j] = a[j - (P + 1)]
             \/ j = P + A + 2
             \/ j - (P + A + 2) \in 1..B /\ j > P + A + 2 /\ s[j] = b[j - (P + A + 2)]
  <2>1. CASE j <= P + 1
    BY <1>0, <1>2, <2>1
  <2>2. CASE j > P + 1 /\ j < P + A + 2
    BY <1>0, <1>2, <2>2, <1>1
  <2>3. CASE j > P + A + 2
    <3>1. j - (P + A + 2) \in 1..B /\ P + A + 2 + (j - (P + A + 2)) = j
      BY <1>0, <1>2, <2>3
    <3> QED
      BY <1>1, <2>3, <3>1
  <2>4. CASE j = P + A + 2
    BY <2>4
  <2> QED
    BY <1>0, <2>1, <2>2, <2>3, <2>4
<1>4. /\ \A i \in 1..P : p[i] \in LockSteps /\ p[i].row[1] \notin Guarded
      /\ \A i \in 1..A : a[i] \in LockSteps /\ a[i].row[1] \notin Guarded
      /\ \A i \in 1..B : b[i] \in LockSteps /\ b[i].row[1] \notin Guarded
  BY ElementOfSeq DEF Climbs, Els, P, A, B
<1>5. ASSUME NEW j \in 1..Len(s), j # P + 1, j # P + A + 2
      PROVE  s[j] \in LockSteps /\ s[j].row[1] \notin Guarded
  BY <1>1, <1>4, <1>3, <1>5
<1>a. \A j \in 1..Len(s) : j # P + 1 => s[j] # Savepoint
  BY <1>1, StepKinds, <1>5
<1>b. \A j \in 1..Len(s) : j # P + A + 2 => s[j] # Undo
  BY <1>1, StepKinds, <1>5
<1>c. \A j \in 1..Len(s) : j # P + 1 /\ j # P + A + 2 => IsLock(s[j])
  BY <1>5, StepKinds
<1>d. ~IsLock(s[P + 1]) /\ ~IsLock(s[P + A + 2])
  BY <1>1, StepKinds
<1>e. \A j \in 1..Len(s) : s[j].row[1] \notin Guarded
  BY <1>1, StepKinds, <1>5
<1>6. P + 1 \in 1..Len(s) /\ P + A + 2 \in 1..Len(s)
  BY <1>0, <1>2
\* The joined lists, in the places of the whole.
<1>7. /\ Len(p \o a) = P + A /\ Len(p \o b) = P + B
      /\ \A i \in 1..P : (p \o a)[i] = s[i] /\ (p \o b)[i] = s[i]
      /\ \A i \in 1..A : (p \o a)[P + i] = s[P + 1 + i]
      /\ \A i \in 1..B : (p \o b)[P + i] = s[P + A + 2 + i]
  BY <1>0, ConcatProperties, <1>1 DEF Climbs, P, A, B
<1>8. ASSUME NEW j \in 1..Len(s), IsLock(s[j])
      PROVE  (\E k \in Retained(s, j - 1) : s[k] = s[j]) \/ (\A k \in Retained(s, j - 1) : Fits(s[k], s[j]))
  <2>1. CASE j \in 1..P
    <3>1. Retained(s, j - 1) = 1..(j - 1)
      BY <1>0, <1>2, <2>1, <1>a, <1>c DEF Retained, Dropped
    <3>2. (\E i \in 1..(j - 1) : p[i] = p[j]) \/ (\A i \in 1..(j - 1) : Fits(p[i], p[j]))
      BY <2>1 DEF Climbs, P
    <3>3. \A k \in 1..j : s[k] = p[k]
      BY <1>0, <1>1, <2>1
    <3> QED
      BY <2>1, <3>1, <3>2, <3>3
  <2>2. CASE j - (P + 1) \in 1..A /\ j > P + 1 /\ j < P + A + 2 /\ s[j] = a[j - (P + 1)]
    <3> DEFINE m == j - 1
               c == p \o a
    <3>1. m \in 1..(P + A) /\ m > P /\ j = m + 1
      BY <1>0, <2>2
    <3> HIDE DEF m
    <3>2. Retained(s, m) = {k \in 1..m : k # P + 1}
      BY <1>0, <1>2, <3>1, <1>b, <1>c, <1>d DEF Dropped, Retained
    <3>3. (\E i \in 1..(m - 1) : c[i] = c[m]) \/ (\A i \in 1..(m - 1) : Fits(c[i], c[m]))
      BY <1>7, <3>1 DEF Climbs
    <3>4. c[m] = s[j]
      <4>1. m - P \in 1..A /\ P + (m - P) = m /\ P + 1 + (m - P) = j
        BY <1>0, <3>1
      <4> QED
        BY <1>7, <4>1
    <3>5. \A i \in 1..(m - 1) : \E k \in Retained(s, m) : s[k] = c[i]
      <4> TAKE i \in 1..(m - 1)
      <4>1. CASE i <= P
        <5>1. i \in 1..P /\ i \in 1..m /\ i # P + 1
          BY <1>0, <3>1, <4>1
        <5> QED
          BY <1>7, <3>2, <5>1
      <4>2. CASE ~(i <= P)
        <5>1. i - P \in 1..A /\ P + (i - P) = i /\ P + 1 + (i - P) = i + 1 /\ i + 1 \in 1..m /\ i + 1 # P + 1
          BY <1>0, <3>1, <4>2
        <5> QED
          BY <1>7, <3>2, <5>1
      <4> QED
        BY <4>1, <4>2
    <3>6. \A k \in Retained(s, m) : \E i \in 1..(m - 1) : s[k] = c[i]
      <4> TAKE k \in Retained(s, m)
      <4>0. k \in 1..m /\ k # P + 1
        BY <3>2
      <4>1. CASE k <= P
        BY <1>0, <3>1, <4>0, <4>1, <1>7
      <4>2. CASE ~(k <= P)
        <5>1. k - (P + 1) \in 1..A /\ P + (k - (P + 1)) = k - 1 /\ P + 1 + (k - (P + 1)) = k /\ k - 1 \in 1..(m - 1)
          BY <1>0, <3>1, <4>0, <4>2
        <5> QED
          BY <1>7, <5>1
      <4> QED
        BY <4>1, <4>2
    <3> HIDE DEF c
    <3> QED
      BY <3>3, <3>4, <3>5, <3>6 DEF m
  <2>3. CASE j - (P + A + 2) \in 1..B /\ j > P + A + 2 /\ s[j] = b[j - (P + A + 2)]
    <3> DEFINE n == j - (P + A + 2)
               m == P + n
               c == p \o b
    <3>1. n \in 1..B /\ j = P + A + 2 + n /\ m \in 1..(P + B) /\ m = P + n
      BY <1>0, <2>3
    <3> HIDE DEF n, m
    <3>2. Retained(s, j - 1) = {k \in 1..(j - 1) : k \in 1..P \/ k > P + A + 2}
      <4>0. P + 1 \in 1..(j - 1) /\ P + A + 2 \in 1..(j - 1) /\ s[P + 1] = Savepoint /\ s[P + A + 2] = Undo
        BY <1>0, <1>1, <3>1
      <4>1. \A k \in 1..(j - 1) : k \in 1..Len(s)
        BY <1>0, <1>2, <3>1
      <4>2. ASSUME NEW k \in 1..(j - 1), Dropped(s, k, j - 1)
            PROVE  P + 1 <= k /\ k < P + A + 2
        BY <4>2, <1>a, <1>b, <4>1 DEF Dropped
      <4>3. ASSUME NEW k \in 1..(j - 1), P + 1 <= k, k < P + A + 2
            PROVE  Dropped(s, k, j - 1)
        BY <4>0, <4>3 DEF Dropped
      <4>4. ASSUME NEW k \in Retained(s, j - 1)
            PROVE  k \in 1..(j - 1) /\ (k \in 1..P \/ k > P + A + 2)
        BY <1>d, <4>3, <1>0 DEF Retained
      <4>5. ASSUME NEW k \in 1..(j - 1), k \in 1..P \/ k > P + A + 2
            PROVE  k \in Retained(s, j - 1)
        BY <1>0, <4>5, <1>c, <4>1, <4>2 DEF Retained
      <4> QED
        BY <4>4, <4>5
    <3>3. (\E i \in 1..(m - 1) : c[i] = c[m]) \/ (\A i \in 1..(m - 1) : Fits(c[i], c[m]))
      BY <1>7, <3>1 DEF Climbs
    <3>4. c[m] = s[j]
      BY <1>7, <3>1
    <3>5. \A i \in 1..(m - 1) : \E k \in Retained(s, j - 1) : s[k] = c[i]
      <4> TAKE i \in 1..(m - 1)
      <4>1. CASE i <= P
        <5>1. i \in 1..P /\ i \in 1..(j - 1)
          BY <1>0, <3>1, <4>1
        <5> QED
          BY <1>7, <3>2, <5>1
      <4>2. CASE ~(i <= P)
        <5>1. i - P \in 1..B /\ P + (i - P) = i /\ P + A + 2 + (i - P) \in 1..(j - 1) /\ P + A + 2 + (i - P) > P + A + 2
          BY <1>0, <3>1, <4>2
        <5> QED
          BY <1>7, <3>2, <5>1
      <4> QED
        BY <4>1, <4>2
    <3>6. \A k \in Retained(s, j - 1) : \E i \in 1..(m - 1) : s[k] = c[i]
      <4> TAKE k \in Retained(s, j - 1)
      <4>0. k \in 1..(j - 1) /\ (k \in 1..P \/ k > P + A + 2)
        BY <3>2
      <4>1. CASE k \in 1..P
        <5>1. k \in 1..(m - 1)
          BY <1>0, <3>1, <4>1
        <5> QED
          BY <1>7, <4>1, <5>1
      <4>2. CASE k > P + A + 2
        <5>1. k - (P + A + 2) \in 1..B /\ P + (k - (P + A + 2)) \in 1..(m - 1) /\ P + A + 2 + (k - (P + A + 2)) = k
          BY <1>0, <3>1, <4>0, <4>2
        <5> QED
          BY <1>7, <5>1
      <4> QED
        BY <4>0, <4>1, <4>2
    <3> HIDE DEF c
    <3> QED
      BY <3>3, <3>4, <3>5, <3>6
  <2> QED
    BY <1>8, <1>d, <1>3, <2>1, <2>2, <2>3
<1>9. \A u \in 1..Len(s) : s[u] = Undo => \E k \in 1..(u - 1) : s[k] = Savepoint
  BY <1>0, <1>1, <1>b
<1>10. \A k, l \in 1..Len(s) : s[k] = Savepoint /\ s[l] = Savepoint => k = l
  BY <1>a
<1>11. \A j \in 1..Len(s) : s[j].row[1] \notin Guarded
  BY <1>e
<1>12. Ordered(s)
  BY <1>1, <1>8, <1>9, <1>10, <1>11 DEF Ordered
<1> QED
  BY <1>12 DEF s

\* A guest's plan may be undone for the other warehouse.
LEMMA GuestIsOrdered ==
  ASSUME NEW first \in {1, 2}, NEW then \in {1, 2}
  PROVE  Ordered(placeGuestOrder(first, then))
<1> DEFINE p == update("cart", 1) \o couponLock
           K == {ForUpdate("cart", 1)}
           C == {ForUpdate("coupon", 1)}
           R(w) == {Share("warehouse", w)} \cup AllItems
<1>1. Part(update("cart", 1), K) /\ Part(couponLock, C)
  BY PartUpdate, CouponIs DEF Common
<1>2. Apart(K, C)
  BY DEF Apart, Fits, ForUpdate, Ranked, Common
<1>3. Part(p, K \cup C)
  BY <1>1, <1>2, PartJoins
<1> HIDE DEF p
<1>4. ASSUME NEW w \in {1, 2}
      PROVE  /\ Part(reserveLocks(w), R(w)) /\ Part(p \o reserveLocks(w), K \cup C \cup R(w))
             /\ \A x \in K \cup C \cup R(w) : x.row[1] \notin Guarded
  <2>1. Part(reserveLocks(w), R(w))
    BY ReserveIs
  <2>2. Apart(K \cup C, R(w)) /\ \A x \in K \cup C \cup R(w) : x.row[1] \notin Guarded
    BY DEF Apart, Fits, AllItems, ItemLocks, ForUpdate, Share, Ranked, Weight, Common, Guarded
  <2> HIDE DEF K, C, R
  <2> QED
    BY <1>3, <2>1, <2>2, PartJoins
<1> HIDE DEF K, C, R
<1>5. Ordered(p \o (savepoint \o reserveLocks(first) \o undo \o reserveLocks(then)))
  BY <1>3, <1>4, NestedIsOrdered DEF Part
<1> QED
  BY <1>5 DEF placeGuestOrder, reserveAllLocks, p

\* All the scripts of the transactions do, the order of a guest with its undone plan included.
LEMMA ScriptsAreOrdered == \A n \in 1..Len(Scripts) : Ordered(Scripts[n])
<1>1. /\ Len(Scripts) = 22
      /\ Scripts[1] = placeGuestOrder(1, 2) /\ Scripts[2] = placeGuestOrder(2, 1) /\ Scripts[3] = placeCustomerOrder
      /\ Scripts[4] = placeStaffOrder(1) /\ Scripts[5] = placeStaffOrder(2) /\ Scripts[6] = expireOrder(1)
      /\ Scripts[7] = expireOrder(2) /\ Scripts[8] = cancelPending(1) /\ Scripts[9] = cancelPaid(1, 2)
      /\ Scripts[10] = payOrder(1) /\ Scripts[11] = payLate(2) /\ Scripts[12] = restockOrder(2, 1)
      /\ Scripts[13] = restockOrder(2, 2) /\ Scripts[14] = receiveStock(1) /\ Scripts[15] = receiveStock(2)
      /\ Scripts[16] = importReceipts /\ Scripts[17] = deactivateWarehouse /\ Scripts[18] = mergeCart
      /\ Scripts[19] = restoreCart /\ Scripts[20] = reorderLines(1) /\ Scripts[21] = deleteCarts
      /\ Scripts[22] = anonymizeOrders
  BY DEF Scripts
<1>2. Ordered(placeGuestOrder(1, 2)) /\ Ordered(placeGuestOrder(2, 1))
  BY GuestIsOrdered
<1>3. Ordered(placeCustomerOrder) /\ Ordered(placeStaffOrder(1)) /\ Ordered(placeStaffOrder(2))
  BY PlaceCustomerSound, PlaceStaffSound, SoundIsOrdered
<1>4. Ordered(expireOrder(1)) /\ Ordered(expireOrder(2)) /\ Ordered(cancelPending(1)) /\ Ordered(cancelPaid(1, 2))
  BY ExpireSound, CancelPendingSound, CancelPaidSound, SoundIsOrdered
<1>5. Ordered(payOrder(1)) /\ Ordered(payLate(2)) /\ Ordered(restockOrder(2, 1)) /\ Ordered(restockOrder(2, 2))
  BY PaySound, PayLateSound, RestockSound, SoundIsOrdered
<1>6. Ordered(receiveStock(1)) /\ Ordered(receiveStock(2)) /\ Ordered(importReceipts) /\ Ordered(deactivateWarehouse)
  BY ReceiveSound, ImportSound, DeactivateSound, SoundIsOrdered
<1>7. Ordered(mergeCart) /\ Ordered(restoreCart) /\ Ordered(reorderLines(1)) /\ Ordered(deleteCarts)
  BY MergeSound, RestoreSound, ReorderSound, DeleteCartsSound, SoundIsOrdered
<1>8. Ordered(anonymizeOrders)
  BY AnonymizeSound, SoundIsOrdered
<1> QED
  BY <1>1, <1>2, <1>3, <1>4, <1>5, <1>6, <1>7, <1>8

-----------------------------------------------------------------------------
(* The transactions hold what they have in hand.                            *)

LockOf(s, k) == [row |-> s[k].row, do |-> s[k].do, step |-> k]
Took(s, n) == {LockOf(s, k) : k \in Retained(s, n)}

\* After a lock, it is in hand.
LEMMA TookLock ==
  ASSUME NEW s, Ordered(s), NEW n \in Nat, n + 1 \in 1..Len(s), IsLock(s[n + 1])
  PROVE  Took(s, n + 1) = Took(s, n) \cup {LockOf(s, n + 1)}
<1>1. s[n + 1] # Savepoint /\ s[n + 1] # Undo
  BY StepKinds
<1>2. \A k \in 1..(n + 1) : k \in 1..n \/ k = n + 1
  OBVIOUS
<1>3. \A k \in 1..n : Dropped(s, k, n + 1) <=> Dropped(s, k, n)
  BY <1>1, <1>2 DEF Dropped
<1>4. ~Dropped(s, n + 1, n + 1)
  BY DEF Dropped
<1>5. Retained(s, n + 1) = Retained(s, n) \cup {n + 1}
  BY <1>2, <1>3, <1>4 DEF Retained
<1> QED
  BY <1>5 DEF Took

\* A savepoint takes nothing and gives nothing back.
LEMMA TookSavepoint ==
  ASSUME NEW s, Ordered(s), NEW n \in Nat, n + 1 \in 1..Len(s), s[n + 1] = Savepoint
  PROVE  Took(s, n + 1) = Took(s, n)
<1>1. ~IsLock(s[n + 1]) /\ s[n + 1] # Undo
  BY StepKinds
<1>2. \A k \in 1..(n + 1) : k \in 1..n \/ k = n + 1
  OBVIOUS
<1>3. ASSUME NEW k \in 1..n
      PROVE  Dropped(s, k, n + 1) <=> Dropped(s, k, n)
  <2>1. ASSUME Dropped(s, k, n + 1)
        PROVE  Dropped(s, k, n)
    BY <2>1, <1>1, <1>2 DEF Dropped
  <2>2. ASSUME Dropped(s, k, n)
        PROVE  Dropped(s, k, n + 1)
    BY <2>2 DEF Dropped
  <2> QED
    BY <2>1, <2>2
<1>4. Retained(s, n + 1) = Retained(s, n)
  BY <1>1, <1>2, <1>3 DEF Retained
<1> QED
  BY <1>4 DEF Took

\* Undoing a savepoint gives back what was taken since.
LEMMA TookUndo ==
  ASSUME NEW s, Ordered(s), NEW n \in Nat, n + 1 \in 1..Len(s), s[n + 1] = Undo, NEW b \in 1..n, s[b] = Savepoint
  PROVE  Took(s, n + 1) = {l \in Took(s, n) : l.step < b}
<1>1. ~IsLock(s[n + 1])
  BY StepKinds
<1>2. \A k \in 1..(n + 1) : k \in 1..n \/ k = n + 1
  OBVIOUS
<1>3. Len(s) \in Nat /\ n + 1 <= Len(s)
  BY LenProperties DEF Ordered
<1>4. \A c \in 1..(n + 1) : s[c] = Savepoint => c = b
  BY <1>3 DEF Ordered
<1>5. ASSUME NEW k \in Retained(s, n + 1)
      PROVE  k \in Retained(s, n) /\ k < b
  <2>1. k \in 1..n /\ IsLock(s[k]) /\ ~Dropped(s, k, n + 1)
    BY <1>1, <1>2 DEF Retained
  <2>2. ~Dropped(s, k, n)
    BY <2>1 DEF Dropped
  <2>3. ~(b <= k)
    BY <2>1 DEF Dropped
  <2> QED
    BY <2>1, <2>2, <2>3 DEF Retained
<1>6. ASSUME NEW k \in Retained(s, n), k < b
      PROVE  k \in Retained(s, n + 1)
  BY <1>4, <1>6 DEF Retained, Dropped
<1> QED
  BY <1>5, <1>6 DEF Took, LockOf

\* Who took a lock that goes with an order has the order.
LEMMA TookOrder ==
  ASSUME NEW s, Ordered(s), NEW j \in 1..Len(s), s[j].row[1] \in Guarded, NEW n \in 1..Len(s)
  PROVE  [row |-> <<"order", s[j].row[2]>>, do |-> "update", step |-> 1] \in Took(s, n)
<1>1. s[1] = ForUpdate("order", s[j].row[2]) /\ \A u \in 1..Len(s) : s[u] # Undo
  BY DEF Ordered
<1>2. Len(s) \in Nat
  BY LenProperties DEF Ordered
<1>3. \A u \in 1..n : u \in 1..Len(s)
  BY <1>2
<1>4. 1 \in Retained(s, n)
  BY <1>1, <1>3 DEF Retained, Dropped, IsLock, ForUpdate
<1>5. LockOf(s, 1) = [row |-> <<"order", s[j].row[2]>>, do |-> "update", step |-> 1]
  BY <1>1 DEF LockOf, ForUpdate
<1> QED
  BY <1>4, <1>5 DEF Took

Lists ==
  /\ DOMAIN script = LockTx /\ DOMAIN done = LockTx /\ DOMAIN held = LockTx /\ ended \subseteq LockTx
  /\ \A t \in LockTx : Ordered(script[t]) /\ done[t] \in Nat /\ done[t] <= Len(script[t])
HeldTook == \A t \in LockTx : (t \in ended => held[t] = {}) /\ (t \notin ended => held[t] = Took(script[t], done[t]))
\* Two transactions hold one row only when they share it.
Shared == \A s, t \in LockTx : s # t => \A l \in held[s] : \A m \in held[t] : l.row = m.row => l.do = "share" /\ m.do = "share"
LocksInv == Lists /\ HeldTook /\ Shared

\* Transactions start with no locks.
LEMMA LocksBegin == LocksInit => LocksInv
<1> SUFFICES ASSUME LocksInit
             PROVE  LocksInv
  OBVIOUS
<1>1. PICK pick \in [LockTx -> 1..Len(Scripts)] : script = [t \in LockTx |-> Scripts[pick[t]]]
  BY DEF LocksInit
<1>2. done = [t \in LockTx |-> 0] /\ held = [t \in LockTx |-> {}] /\ ended = {}
  BY DEF LocksInit
<1>3. \A t \in LockTx : Ordered(script[t]) /\ Len(script[t]) \in Nat
  <2>1. \A t \in LockTx : Ordered(script[t])
    BY <1>1, ScriptsAreOrdered
  <2> QED
    BY <2>1, LenProperties DEF Ordered
<1>4. Lists
  BY <1>1, <1>2, <1>3 DEF Lists
<1>5. \A t \in LockTx : Took(script[t], 0) = {}
  BY DEF Took, Retained
<1>6. HeldTook /\ Shared
  BY <1>2, <1>5 DEF HeldTook, Shared
<1> QED
  BY <1>4, <1>6 DEF LocksInv

\* The next step of a running transaction.
LEMMA NextIs ==
  ASSUME Lists, NEW t \in LockTx, Running(t)
  PROVE  /\ done[t] \in Nat /\ done[t] + 1 \in 1..Len(script[t]) /\ nextStep(t) = script[t][done[t] + 1]
         /\ Ordered(script[t]) /\ nextStep(t) \in Steps /\ t \notin ended
         /\ done[t] + 1 <= Len(script[t]) /\ (IsLock(nextStep(t)) => nextStep(t) \in LockSteps)
<1>1. done[t] \in Nat /\ Ordered(script[t]) /\ done[t] < Len(script[t]) /\ t \notin ended
  BY DEF Lists, Running
<1>2. Len(script[t]) \in Nat /\ script[t] \in Seq(Steps)
  BY <1>1, LenProperties DEF Ordered
<1>3. done[t] + 1 \in 1..Len(script[t]) /\ done[t] + 1 <= Len(script[t])
  BY <1>1, <1>2
<1>4. nextStep(t) = script[t][done[t] + 1] /\ nextStep(t) \in Steps
  BY <1>2, <1>3, ElementOfSeq DEF nextStep
<1>5. IsLock(nextStep(t)) => nextStep(t) \in LockSteps
  BY <1>4, StepKinds DEF Steps
<1> QED
  BY <1>1, <1>3, <1>4, <1>5

\* A savepoint and an undo are what they do.
LEMMA StepIs ==
  ASSUME NEW x \in Steps
  PROVE  (x.do = "savepoint" => x = Savepoint) /\ (x.do = "undo" => x = Undo)
  BY DEF Steps, LockSteps, Savepoint, Undo

\* Taking a lock keeps the invariant.
LEMMA TakeKeepsLocks ==
  ASSUME LocksInv, NEW t \in LockTx, takeLock(t)
  PROVE  LocksInv'
<1> DEFINE new == LockOf(script[t], done[t] + 1)
<1>1. Lists /\ HeldTook /\ Shared
  BY DEF LocksInv
<1>2. Running(t) /\ IsLock(nextStep(t)) /\ Blockers(t) = {}
  BY DEF takeLock, IsLock
<1>3. /\ done[t] \in Nat /\ done[t] + 1 \in 1..Len(script[t]) /\ nextStep(t) = script[t][done[t] + 1]
      /\ Ordered(script[t]) /\ t \notin ended /\ done[t] + 1 <= Len(script[t])
  BY <1>1, <1>2, NextIs
<1>4. new.row = nextStep(t).row /\ new.do = nextStep(t).do
  BY <1>3 DEF LockOf
<1>5. /\ held' = [held EXCEPT ![t] = @ \cup {new}] /\ done' = [done EXCEPT ![t] = @ + 1]
      /\ script' = script /\ ended' = ended
  BY <1>3 DEF takeLock, LockOf
<1> HIDE DEF new
<1>6. held[t] = Took(script[t], done[t])
  BY <1>1, <1>3 DEF HeldTook
<1>7. DOMAIN held = LockTx /\ DOMAIN done = LockTx
  BY <1>1 DEF Lists
<1>8. held'[t] = held[t] \cup {new} /\ done'[t] = done[t] + 1 /\ DOMAIN held' = LockTx /\ DOMAIN done' = LockTx
  BY <1>5, <1>7
<1>9. \A s \in LockTx \ {t} : held'[s] = held[s] /\ done'[s] = done[s]
  BY <1>5, <1>7
<1>10. Lists'
  <2>1. \A s \in LockTx : Ordered(script'[s]) /\ done'[s] \in Nat /\ done'[s] <= Len(script'[s])
    BY <1>3, <1>5, <1>8, <1>1, <1>9 DEF Lists
  <2>2. DOMAIN script' = LockTx /\ ended' \subseteq LockTx
    BY <1>1, <1>5 DEF Lists
  <2> QED
    BY <1>8, <2>1, <2>2 DEF Lists, LockTx
<1>11. held'[t] = Took(script'[t], done'[t])
  <2>1. Took(script[t], done[t] + 1) = Took(script[t], done[t]) \cup {new}
    BY <1>2, <1>3, TookLock DEF new
  <2> QED
    BY <1>5, <1>6, <1>8, <2>1
<1>12. \A s \in LockTx : (s \in ended' => held'[s] = {}) /\ (s \notin ended' => held'[s] = Took(script'[s], done'[s]))
  BY <1>3, <1>5, <1>11, <1>1, <1>9 DEF HeldTook
<1>13. \A s \in LockTx \ {t} : \A l \in held[s] : l.row = new.row => l.do = "share" /\ new.do = "share"
  BY <1>1, <1>2, <1>4 DEF HeldTook, Blockers, IsLock, InTheWay
<1>14. \A s, u \in LockTx : s # u => \A l \in held'[s] : \A m \in held'[u] : l.row = m.row => l.do = "share" /\ m.do = "share"
  BY <1>1, <1>9, <1>13, <1>8 DEF Shared
<1> QED
  BY <1>10, <1>12, <1>14 DEF LocksInv, HeldTook, Shared, LockTx

\* Who gives up locks, or none, disturbs nobody.
LEMMA FewerKeepShared ==
  ASSUME Shared, \A s \in LockTx : held'[s] \subseteq held[s]
  PROVE  Shared'
  BY DEF Shared, LockTx

\* So does a savepoint, undone or not.
LEMMA NestedKeepsLocks ==
  ASSUME LocksInv, NEW t \in LockTx, runNested(t)
  PROVE  LocksInv'
<1>1. Lists /\ HeldTook /\ Shared
  BY DEF LocksInv
<1>2. Running(t) /\ nextStep(t).do \in {"savepoint", "undo"}
  BY DEF runNested
<1>3. /\ done[t] \in Nat /\ done[t] + 1 \in 1..Len(script[t]) /\ nextStep(t) = script[t][done[t] + 1]
      /\ Ordered(script[t]) /\ t \notin ended /\ done[t] + 1 <= Len(script[t]) /\ nextStep(t) \in Steps
  BY <1>1, <1>2, NextIs
<1>4. done' = [done EXCEPT ![t] = @ + 1] /\ script' = script /\ ended' = ended
  BY DEF runNested
<1>5. held[t] = Took(script[t], done[t])
  BY <1>1, <1>3 DEF HeldTook
<1>6. DOMAIN held = LockTx /\ DOMAIN done = LockTx
  BY <1>1 DEF Lists
<1>7. done'[t] = done[t] + 1 /\ DOMAIN done' = LockTx /\ \A s \in LockTx \ {t} : done'[s] = done[s]
  BY <1>4, <1>6
<1>8. /\ DOMAIN held' = LockTx /\ \A s \in LockTx \ {t} : held'[s] = held[s]
      /\ held'[t] = Took(script[t], done[t] + 1) /\ held'[t] \subseteq held[t]
  <2>1. CASE nextStep(t).do = "savepoint"
    BY <2>1, <1>3, StepIs, TookSavepoint, <1>5, <1>6 DEF runNested
  <2>2. CASE nextStep(t).do = "undo"
    <3> DEFINE from == CHOOSE k \in 1..done[t] : script[t][k].do = "savepoint"
    <3>1. held' = [held EXCEPT ![t] = {l \in @ : l.step < from}]
      BY <2>2 DEF runNested
    <3>2. script[t][done[t] + 1] = Undo
      BY <1>3, <2>2, StepIs
    <3>3. \E k \in 1..done[t] : script[t][k].do = "savepoint"
      <4>1. \E k \in 1..((done[t] + 1) - 1) : script[t][k] = Savepoint
        BY <1>3, <3>2 DEF Ordered
      <4> QED
        BY <1>3, <4>1 DEF Savepoint
    <3>4. from \in 1..done[t] /\ script[t][from].do = "savepoint"
      BY <3>3
    <3> HIDE DEF from
    <3>5. script[t][from] = Savepoint
      BY <1>3, LenProperties, <3>4, ElementOfSeq, StepIs DEF Ordered
    <3>6. Took(script[t], done[t] + 1) = {l \in Took(script[t], done[t]) : l.step < from}
      BY <1>3, <3>2, <3>4, <3>5, TookUndo
    <3> QED
      BY <1>5, <1>6, <3>1, <3>6
  <2> QED
    BY <1>2, <2>1, <2>2
<1>9. Lists'
  <2>1. \A s \in LockTx : Ordered(script'[s]) /\ done'[s] \in Nat /\ done'[s] <= Len(script'[s])
    BY <1>3, <1>4, <1>7, <1>1 DEF Lists
  <2>2. DOMAIN script' = LockTx /\ ended' \subseteq LockTx
    BY <1>1, <1>4 DEF Lists
  <2> QED
    BY <1>7, <1>8, <2>1, <2>2 DEF Lists, LockTx
<1>10. \A s \in LockTx : (s \in ended' => held'[s] = {}) /\ (s \notin ended' => held'[s] = Took(script'[s], done'[s]))
  BY <1>3, <1>4, <1>7, <1>8, <1>1 DEF HeldTook
<1>11. \A s \in LockTx : held'[s] \subseteq held[s]
  BY <1>8
<1>12. Shared'
  BY <1>1, <1>11, FewerKeepShared
<1> QED
  BY <1>9, <1>10, <1>12 DEF LocksInv, HeldTook, LockTx

\* A transaction ends of itself or in a circle.
LEMMA EndKeepsLocks ==
  ASSUME LocksInv, NEW t \in LockTx, ended' = ended \cup {t}, held' = [held EXCEPT ![t] = {}], script' = script, done' = done
  PROVE  LocksInv'
<1>1. Lists /\ HeldTook /\ Shared
  BY DEF LocksInv
<1>2. DOMAIN held' = LockTx /\ held'[t] = {} /\ \A s \in LockTx \ {t} : held'[s] = held[s]
  BY <1>1 DEF Lists
<1>3. Lists'
  BY <1>1, <1>2 DEF Lists, LockTx
<1>4. \A s \in LockTx : (s \in ended' => held'[s] = {}) /\ (s \notin ended' => held'[s] = Took(script'[s], done'[s]))
  BY <1>1, <1>2 DEF HeldTook
<1>5. Shared'
  BY <1>2, <1>1, FewerKeepShared
<1> QED
  BY <1>3, <1>4, <1>5 DEF LocksInv, HeldTook, LockTx

\* Each step of a transaction keeps the invariant.
LEMMA LocksKeep == LocksInv /\ [LocksNext]_locksVars => LocksInv'
<1> SUFFICES ASSUME LocksInv, [LocksNext]_locksVars
             PROVE  LocksInv'
  OBVIOUS
<1>1. CASE LocksNext
  <2>1. PICK t \in LockTx : takeLock(t) \/ runNested(t) \/ finishTx(t) \/ abortCircle(t)
    BY <1>1 DEF LocksNext
  <2>2. CASE takeLock(t)
    BY <2>2, TakeKeepsLocks
  <2>3. CASE runNested(t)
    BY <2>3, NestedKeepsLocks
  <2>4. CASE finishTx(t)
    BY <2>4, EndKeepsLocks DEF finishTx
  <2>5. CASE abortCircle(t)
    BY <2>5, EndKeepsLocks DEF abortCircle
  <2> QED
    BY <2>1, <2>2, <2>3, <2>4, <2>5
<1>2. CASE UNCHANGED locksVars
  BY <1>2 DEF locksVars, LocksInv, Lists, HeldTook, Shared, LockTx
<1> QED
  BY <1>1, <1>2

\* In a circle each lock asked for fits those in hand: it is not one of them.
LEMMA NextFits ==
  ASSUME LocksInv, NEW t \in LockTx, NEW s \in Blockers(t), NEW m \in held[t]
  PROVE  /\ Ranked(m.row) /\ Ranked(nextStep(t).row) => Weight(m.row) < Weight(nextStep(t).row)
         /\ m.row[1] = "coupon" => nextStep(t).row[1] \in {"item", "warehouse"}
<1>1. Lists /\ HeldTook /\ Shared
  BY DEF LocksInv
<1>2. Running(t) /\ IsLock(nextStep(t)) /\ s \in LockTx /\ InTheWay(s, t)
  BY DEF Blockers, IsLock
<1> DEFINE q == script[t]
           n == done[t]
<1>3. n \in Nat /\ n + 1 \in 1..Len(q) /\ nextStep(t) = q[n + 1] /\ Ordered(q) /\ t \notin ended
  BY <1>1, <1>2, NextIs
<1>4. held[t] = Took(q, n)
  BY <1>1, <1>3 DEF HeldTook
<1>5. PICK l \in held[s] : s # t /\ l.row = nextStep(t).row /\ ~(l.do = "share" /\ nextStep(t).do = "share")
  BY <1>2 DEF InTheWay
<1> HIDE DEF q, n
<1>6. (\E k \in Retained(q, (n + 1) - 1) : q[k] = q[n + 1]) \/ (\A k \in Retained(q, (n + 1) - 1) : Fits(q[k], q[n + 1]))
  BY <1>2, <1>3 DEF Ordered
<1>7. Retained(q, (n + 1) - 1) = Retained(q, n)
  BY <1>3
<1>8. ASSUME NEW k \in Retained(q, n), q[k] = q[n + 1]
      PROVE  FALSE
  <2>1. LockOf(q, k) \in held[t] /\ LockOf(q, k).row = nextStep(t).row /\ LockOf(q, k).do = nextStep(t).do
    BY <1>3, <1>4, <1>8 DEF Took, LockOf
  <2>2. l.do = "share" /\ LockOf(q, k).do = "share"
    BY <1>1, <1>2, <1>5, <2>1 DEF Shared
  <2> QED
    BY <1>5, <2>1, <2>2
<1>9. PICK k \in Retained(q, n) : m = LockOf(q, k)
  BY <1>4 DEF Took
<1>10. Fits(q[k], nextStep(t)) /\ m.row = q[k].row
  BY <1>3, <1>6, <1>7, <1>8, <1>9 DEF LockOf
<1> QED
  BY <1>10 DEF Fits

\* Nor does anybody wait for what goes with an order: who has it has the order.
LEMMA NoneWaitsGuarded ==
  ASSUME LocksInv, NEW t \in LockTx, NEW s \in Blockers(t)
  PROVE  nextStep(t).row[1] \notin Guarded
<1>1. Lists /\ HeldTook /\ Shared
  BY DEF LocksInv
<1>2. Running(t) /\ s \in LockTx /\ InTheWay(s, t)
  BY DEF Blockers
<1>3. /\ done[t] \in Nat /\ done[t] + 1 \in 1..Len(script[t]) /\ nextStep(t) = script[t][done[t] + 1]
      /\ Ordered(script[t]) /\ t \notin ended
  BY <1>1, <1>2, NextIs
<1>4. PICK l \in held[s] : s # t /\ s \notin ended /\ l.row = nextStep(t).row
  BY <1>2 DEF InTheWay
<1>5. held[t] = Took(script[t], done[t]) /\ held[s] = Took(script[s], done[s])
  BY <1>1, <1>2, <1>3, <1>4 DEF HeldTook
<1>6. PICK k \in Retained(script[s], done[s]) : l = LockOf(script[s], k)
  BY <1>4, <1>5 DEF Took
<1>7. Ordered(script[s]) /\ done[s] \in Nat /\ done[s] <= Len(script[s]) /\ Len(script[s]) \in Nat /\ Len(script[t]) \in Nat
  BY <1>1, <1>2, <1>3, LenProperties DEF Lists, Ordered
<1>8. k \in 1..Len(script[s]) /\ done[s] \in 1..Len(script[s]) /\ script[s][k].row = nextStep(t).row
  BY <1>6, <1>4, <1>7 DEF Retained, LockOf
<1> SUFFICES ASSUME nextStep(t).row[1] \in Guarded
             PROVE  FALSE
  OBVIOUS
<1> DEFINE x == [row |-> <<"order", nextStep(t).row[2]>>, do |-> "update", step |-> 1]
<1>9. x \in held[s]
  BY <1>5, <1>7, <1>8, TookOrder
<1>10. x \in held[t]
  <2>1. done[t] + 1 > 1
    BY <1>3 DEF Ordered
  <2>2. done[t] \in 1..Len(script[t])
    BY <1>3, <1>7, <2>1
  <2> QED
    BY <1>3, <1>5, <2>2, TookOrder
<1>11. x.do # "share"
  OBVIOUS
<1> HIDE DEF x
<1> QED
  BY <1>1, <1>2, <1>4, <1>9, <1>10, <1>11 DEF Shared

\* A circle would climb for ever, but for a coupon counted too early or an item created too late.
LEMMA CirclesHold == LocksInv => CirclesAreKnown
<1> SUFFICES ASSUME LocksInv, NEW S \in SUBSET LockTx, Circle(S), ~CouponInverted(S), ~CreatesLast(S)
             PROVE  FALSE
  BY DEF CirclesAreKnown
<1>1. S # {} /\ \A t \in S : \E s \in S : s \in Blockers(t)
  BY DEF Circle
<1>2. \A t \in S : Running(t) /\ IsLock(nextStep(t)) /\ nextStep(t) \in LockSteps
  BY <1>1, NextIs DEF Blockers, IsLock, LocksInv
<1>3. \A t \in S : \A s \in Blockers(t) : \E l \in held[s] : l.row = nextStep(t).row
  BY DEF Blockers, InTheWay
<1>4. ASSUME NEW t \in S
      PROVE  nextStep(t).row[1] # "coupon"
  <2> SUFFICES ASSUME nextStep(t).row[1] = "coupon"
               PROVE  FALSE
    OBVIOUS
  <2>1. PICK s \in S : s \in Blockers(t)
    BY <1>1
  <2>2. PICK l \in held[s] : l.row = nextStep(t).row
    BY <1>3, <2>1
  <2>3. PICK u \in S : u \in Blockers(s)
    BY <1>1
  <2>4. nextStep(s).row[1] \in {"item", "warehouse"}
    BY <2>2, <2>3, NextFits
  <2>5. CouponInverted(S)
    BY <2>2, <2>4 DEF CouponInverted, HoldsCoupon, WaitsFor
  <2> QED
    BY <2>5
<1>5. ASSUME NEW t \in S
      PROVE  Ranked(nextStep(t).row) /\ Weight(nextStep(t).row) \in Nat
  <2>1. nextStep(t).row[1] \notin Guarded
    BY <1>1, NoneWaitsGuarded
  <2>2. nextStep(t).row[1] \in Common /\ nextStep(t).row[2] \in Nat
    BY <1>2, <1>4, <2>1 DEF LockSteps, LockRows
  <2>3. ~(nextStep(t).row[1] = "item" /\ nextStep(t).row[2] \in MissingIds)
    BY <1>2 DEF CreatesLast, WaitsFor, MissingIds
  <2>4. Weight(nextStep(t).row) \in Nat
    BY <2>2 DEF Weight
  <2> QED
    BY <2>2, <2>3, <2>4 DEF Ranked
<1>6. ASSUME NEW t \in S
      PROVE  \E s \in S : Weight(nextStep(t).row) < Weight(nextStep(s).row)
  <2>1. PICK s \in S : s \in Blockers(t)
    BY <1>1
  <2>2. PICK l \in held[s] : l.row = nextStep(t).row
    BY <1>3, <2>1
  <2>3. PICK u \in S : u \in Blockers(s)
    BY <1>1
  <2>4. Ranked(l.row) /\ Ranked(nextStep(s).row)
    BY <1>5, <2>2
  <2>5. Weight(l.row) < Weight(nextStep(s).row)
    BY <2>3, <2>4, NextFits
  <2> QED
    BY <2>2, <2>5
<1> DEFINE f == [t \in S |-> Weight(nextStep(t).row)]
           W == {f[t] : t \in S}
<1>7. W \in SUBSET Nat /\ W # {}
  BY <1>1, <1>5
<1>8. \A x \in W : \E y \in W : x < y
  <2>1. \A t \in S : f[t] = Weight(nextStep(t).row)
    OBVIOUS
  <2> HIDE DEF f
  <2> QED
    BY <1>6, <2>1
<1>9. f \in Surjection(S, W)
  <2>1. f \in [S -> W]
    OBVIOUS
  <2> HIDE DEF f
  <2> QED
    BY <2>1 DEF Surjection
<1>10. IsFiniteSet(S)
  <2>1. IsFiniteSet(LockTx)
    BY LocksAssumption, FS_Interval DEF LockTx
  <2> QED
    BY <2>1, FS_Subset
<1> HIDE DEF f, W
<1>11. IsFiniteSet(W)
  BY <1>9, <1>10, FS_Surjection
<1>12. PICK m \in W : \A i \in W : i <= m
  BY <1>7, <1>11, Greatest
<1>13. PICK y \in W : m < y
  BY <1>8
<1>14. m \in Nat /\ y \in Nat /\ y <= m
  BY <1>7, <1>12
<1> QED
  BY <1>13, <1>14

\* Transactions wait for each other in a circle only over a coupon counted before its stock, or a stock item that somebody
\* creates, however many there are: all other locks are asked for in one order, and those of an order come after it.
THEOREM CirclesAreAlwaysKnown == LocksSpec => []CirclesAreKnown
<1>1. LocksInit => LocksInv
  BY LocksBegin
<1>2. LocksInv /\ [LocksNext]_locksVars => LocksInv'
  BY LocksKeep
<1>3. LocksInv => CirclesAreKnown
  BY CirclesHold
<1> QED
  BY <1>1, <1>2, <1>3, PTL DEF LocksSpec

-----------------------------------------------------------------------------
(* The limit of failed attempts, and what filtering the failures by their   *)
(* age keeps.                                                               *)

\* What the filter keeps after it looked at one failure more.
IfRecent(kept, at, moment) == IF at + AttemptWindow > moment THEN Append(kept, at) ELSE kept

\* The failures kept after each of them was looked at.
Sieves(h, s, moment) ==
  /\ h \in [0..Len(s) -> Seq(Nat)]
  /\ h[0] = <<>>
  /\ \A i \in 0..(Len(s) - 1) : h[i + 1] = IfRecent(h[i], s[i + 1], moment)

\* One failure more or less leaves a sequence of times.
LEMMA IfRecentType ==
  ASSUME NEW p \in Seq(Nat), NEW x \in Nat, NEW moment
  PROVE  IfRecent(p, x, moment) \in Seq(Nat)
  BY AppendProperties DEF IfRecent

\* A filter looks at the failures one by one.
LEMMA RecentSieves ==
  ASSUME NEW s \in Seq(Nat), NEW moment
  PROVE  \E h : Sieves(h, s, moment) /\ recentAt(s, moment) = h[Len(s)]
<1> DEFINE N == Len(s)
           P == Seq(Nat)
<1>0. N \in Nat /\ DOMAIN s = 1..N /\ \A i \in 1..N : s[i] \in Nat
  OBVIOUS
<1>1. <<>> \in P
  BY EmptySeq
<1> DEFINE G == [p \in (1..N) \X P |-> IfRecent(p[2], s[p[1]], moment)]
<1>a. ASSUME NEW p \in P, NEW x \in Nat
      PROVE  IfRecent(p, x, moment) \in P
  BY IfRecentType
<1>2. G \in [(1..N) \X P -> P]
  <2> HIDE DEF P
  <2> QED
    BY <1>0, <1>a
<1>3. PICK f : Iterates(f, N, <<>>, P, G)
  <2> HIDE DEF N, G, P
  <2> QED
    BY <1>0, <1>1, <1>2, FoldExists
<1>4. f = [t \in SUBSET (DOMAIN s) |-> IF t = {} THEN <<>> ELSE IfRecent(f[t \ {Max(t)}], s[Max(t)], moment)]
  <2>1. f \in [SUBSET (1..N) -> P]
    BY <1>3 DEF Iterates
  <2>2. ASSUME NEW t \in SUBSET (1..N), t # {}
        PROVE  f[t] = IfRecent(f[t \ {Max(t)}], s[Max(t)], moment)
    BY <1>0, <2>2, MaxIsOne, <1>3, <2>1 DEF Iterates
  <2>3. f[{}] = <<>>
    BY <1>3 DEF Iterates
  <2> HIDE DEF G, P
  <2> QED
    BY <1>0, <2>1, <2>2, <2>3
<1> DEFINE iter == CHOOSE it : it = [t \in SUBSET (DOMAIN s) |-> IF t = {} THEN <<>> ELSE IfRecent(it[t \ {Max(t)}], s[Max(t)], moment)]
<1>5. iter = [t \in SUBSET (DOMAIN s) |-> IF t = {} THEN <<>> ELSE IfRecent(iter[t \ {Max(t)}], s[Max(t)], moment)]
  <2> HIDE DEF G, P
  <2> QED
    BY <1>4
<1>6. recentAt(s, moment) = iter[1..N]
  BY <1>0 DEF recentAt, FoldLeft, MapThenFoldSet, IfRecent
<1> DEFINE T == {i \in Nat : i <= N => iter[1..i] \in P}
<1>7. iter[1..0] = <<>>
  <2>1. 1..0 = {}
    OBVIOUS
  <2> HIDE DEF iter, P
  <2> QED
    BY <1>5, <2>1
<1>b. ASSUME NEW i \in 0..(N - 1)
      PROVE  iter[1..(i + 1)] = IfRecent(iter[1..i], s[i + 1], moment)
  <2>1. i + 1 \in 1..N
    BY <1>0
  <2>2. /\ 1..(i + 1) \in SUBSET (1..N) /\ 1..(i + 1) # {} /\ Max(1..(i + 1)) = i + 1
        /\ (1..(i + 1)) \ {Max(1..(i + 1))} = 1..i
    <3>1. (i + 1) - 1 = i
      BY <1>0
    <3> QED
      BY <1>0, <2>1, <3>1, FirstOnes
  <2> HIDE DEF iter, P
  <2> QED
    BY <1>0, <1>5, <2>2
<1>8. ASSUME NEW i \in Nat, i \in T
      PROVE  i + 1 \in T
  <2> SUFFICES ASSUME i + 1 <= N PROVE iter[1..(i + 1)] \in P
    OBVIOUS
  <2>1. i \in 0..(N - 1) /\ i + 1 \in 1..N /\ iter[1..i] \in P
    BY <1>0, <1>8
  <2> HIDE DEF iter, P
  <2> QED
    BY <1>0, <1>a, <1>b, <2>1
<1>9. \A i \in Nat : i \in T
  <2>1. 0 \in T
    BY <1>1, <1>7
  <2> HIDE DEF T
  <2> QED
    BY <1>8, <2>1, NatSets
<1> HIDE DEF iter, P
<1> DEFINE h == [i \in 0..N |-> iter[1..i]]
<1>10. \A i \in 0..N : h[i] = iter[1..i] /\ h[i] \in P
  BY <1>0, <1>9
<1>11. h \in [0..N -> P]
  BY <1>10
<1>12. h[0] = <<>> /\ h[N] = recentAt(s, moment)
  BY <1>0, <1>6, <1>7, <1>10
<1>13. \A i \in 0..(N - 1) : h[i + 1] = IfRecent(h[i], s[i + 1], moment)
  <2> TAKE i \in 0..(N - 1)
  <2>1. i \in 0..N /\ i + 1 \in 0..N
    BY <1>0
  <2> HIDE DEF h
  <2> QED
    BY <1>10, <1>b, <2>1
<1> HIDE DEF h
<1>14. Sieves(h, s, moment)
  BY <1>11, <1>12, <1>13 DEF Sieves, P
<1> QED
  BY <1>12, <1>14

\* The filter of some failures, and of more of them, looks at the first ones alike.
Begins(s, u) == Len(s) <= Len(u) /\ \A i \in 1..Len(s) : u[i] = s[i]

\* Two filters of failures that begin alike keep the same of them.
LEMMA SievesAgree ==
  ASSUME NEW s \in Seq(Nat), NEW u \in Seq(Nat), Begins(s, u), NEW moment, NEW h, NEW g, Sieves(h, s, moment), Sieves(g, u, moment)
  PROVE  \A i \in 0..Len(s) : g[i] = h[i]
<1> DEFINE T == {i \in Nat : i <= Len(s) => g[i] = h[i]}
<1>0. Len(s) \in Nat /\ Len(u) \in Nat /\ Len(s) <= Len(u) /\ \A i \in 1..Len(s) : u[i] = s[i]
  BY DEF Begins
<1>1. 0 \in T
  BY DEF Sieves
<1>2. ASSUME NEW i \in Nat, i \in T
      PROVE  i + 1 \in T
  BY <1>0, <1>2 DEF Sieves
<1>3. \A i \in Nat : i \in T
  <2> HIDE DEF T
  <2> QED
    BY <1>1, <1>2, NatSets
<1> QED
  BY <1>0, <1>3

\* What is kept is a sequence of times.
LEMMA RecentType ==
  ASSUME NEW s \in Seq(Nat), NEW moment
  PROVE  recentAt(s, moment) \in Seq(Nat) /\ Len(recentAt(s, moment)) \in Nat
<1>1. PICK h : Sieves(h, s, moment) /\ recentAt(s, moment) = h[Len(s)]
  BY RecentSieves
<1>2. Len(s) \in 0..Len(s)
  BY LenProperties
<1>3. recentAt(s, moment) \in Seq(Nat)
  BY <1>1, <1>2 DEF Sieves
<1> QED
  BY <1>3, LenProperties

\* Of no failures none is kept.
LEMMA RecentOfNone ==
  ASSUME NEW moment
  PROVE  recentAt(<<>>, moment) = <<>>
<1>1. <<>> \in Seq(Nat) /\ Len(<<>>) = 0
  OBVIOUS
<1>2. PICK h : Sieves(h, <<>>, moment) /\ recentAt(<<>>, moment) = h[Len(<<>>)]
  BY <1>1, RecentSieves
<1> QED
  BY <1>1, <1>2 DEF Sieves

\* A failure more is looked at last.
LEMMA RecentOfOneMore ==
  ASSUME NEW s \in Seq(Nat), NEW x \in Nat, NEW moment
  PROVE  recentAt(Append(s, x), moment) = IfRecent(recentAt(s, moment), x, moment)
<1> DEFINE u == Append(s, x)
           N == Len(s)
<1>1. u \in Seq(Nat) /\ Len(u) = N + 1 /\ N \in Nat /\ u[N + 1] = x /\ \A i \in 1..N : u[i] = s[i]
  BY AppendProperties
<1> HIDE DEF u
<1>2. PICK h : Sieves(h, s, moment) /\ recentAt(s, moment) = h[N]
  BY RecentSieves
<1>3. PICK g : Sieves(g, u, moment) /\ recentAt(u, moment) = g[Len(u)]
  BY <1>1, RecentSieves
<1>4. g[N] = h[N]
  BY <1>1, <1>2, <1>3, SievesAgree DEF Begins
<1>5. g[N + 1] = IfRecent(g[N], x, moment)
  <2>1. N \in 0..(Len(u) - 1)
    BY <1>1
  <2> QED
    BY <1>1, <1>3, <2>1 DEF Sieves
<1> QED
  BY <1>1, <1>2, <1>3, <1>4, <1>5 DEF u

\* What is recent later is recent of what is recent moment.
LEMMA RecentOfRecent ==
  ASSUME NEW s \in Seq(Nat), NEW moment \in Nat, NEW later \in Nat, moment <= later
  PROVE  recentAt(recentAt(s, moment), later) = recentAt(s, later)
<1> DEFINE N == Len(s)
<1>0. N \in Nat /\ \A i \in 1..N : s[i] \in Nat
  OBVIOUS
<1>1. PICK h : Sieves(h, s, moment) /\ recentAt(s, moment) = h[N]
  BY RecentSieves
<1>2. PICK g : Sieves(g, s, later) /\ recentAt(s, later) = g[N]
  BY RecentSieves
<1> HIDE DEF N
<1>3. /\ h[0] = <<>> /\ g[0] = <<>> /\ \A i \in 0..N : h[i] \in Seq(Nat)
      /\ \A i \in 0..(N - 1) : h[i + 1] = IfRecent(h[i], s[i + 1], moment) /\ g[i + 1] = IfRecent(g[i], s[i + 1], later)
  BY <1>1, <1>2 DEF Sieves, N
<1> DEFINE T == {i \in Nat : i <= N => recentAt(h[i], later) = g[i]}
<1>4. 0 \in T
  BY <1>3, RecentOfNone
<1>5. ASSUME NEW i \in Nat, i \in T
      PROVE  i + 1 \in T
  <2> SUFFICES ASSUME i + 1 <= N
               PROVE  recentAt(h[i + 1], later) = g[i + 1]
    OBVIOUS
  <2>1. i \in 0..(N - 1) /\ i \in 0..N /\ i + 1 \in 1..N /\ recentAt(h[i], later) = g[i]
    BY <1>0, <1>5
  <2> DEFINE x == s[i + 1]
             p == h[i]
  <2>2. x \in Nat /\ p \in Seq(Nat) /\ h[i + 1] = IfRecent(p, x, moment) /\ g[i + 1] = IfRecent(g[i], x, later)
    BY <1>0, <1>3, <2>1
  <2>3. recentAt(p, later) = g[i]
    BY <2>1
  <2> HIDE DEF x, p
  <2>4. CASE x + AttemptWindow > moment
    <3>1. h[i + 1] = Append(p, x)
      BY <2>2, <2>4 DEF IfRecent
    <3>2. recentAt(Append(p, x), later) = IfRecent(recentAt(p, later), x, later)
      BY <2>2, RecentOfOneMore
    <3> QED
      BY <2>2, <2>3, <3>1, <3>2
  <2>5. CASE ~(x + AttemptWindow > moment)
    BY <2>2, <2>5, AttemptAssumption, <2>3 DEF IfRecent
  <2> QED
    BY <2>4, <2>5
<1>6. N \in T
  <2> HIDE DEF T
  <2> QED
    BY <1>0, <1>4, <1>5, NatSets
<1> QED
  BY <1>1, <1>2, <1>6

\* The failures came one after the other.
Rises(s) == \A i, j \in 1..Len(s) : i <= j => s[i] <= s[j]

\* Filtered they still do, and there are no more of them.
LEMMA RecentRises ==
  ASSUME NEW s \in Seq(Nat), Rises(s), NEW moment
  PROVE  /\ Rises(recentAt(s, moment)) /\ Len(recentAt(s, moment)) <= Len(s)
         /\ \A j \in 1..Len(recentAt(s, moment)) : \E k \in 1..Len(s) : recentAt(s, moment)[j] = s[k]
<1> DEFINE N == Len(s)
<1>0. N \in Nat /\ \A i \in 1..N : s[i] \in Nat
  OBVIOUS
<1>1. PICK h : Sieves(h, s, moment) /\ recentAt(s, moment) = h[N]
  BY RecentSieves
<1>r. \A i, j \in 1..N : i <= j => s[i] <= s[j]
  BY DEF Rises
<1> HIDE DEF N
<1>2. /\ h[0] = <<>> /\ \A i \in 0..N : h[i] \in Seq(Nat)
      /\ \A i \in 0..(N - 1) : h[i + 1] = IfRecent(h[i], s[i + 1], moment)
  BY <1>1 DEF Sieves, N
<1> DEFINE Earlier(i) == \A j \in 1..Len(h[i]) : \E k \in 1..i : h[i][j] = s[k]
           T == {i \in Nat : i <= N => Rises(h[i]) /\ Len(h[i]) <= i /\ Earlier(i)}
<1>3. 0 \in T
  BY <1>2 DEF Rises
<1>4. ASSUME NEW i \in Nat, i \in T
      PROVE  i + 1 \in T
  <2> SUFFICES ASSUME i + 1 <= N
               PROVE  Rises(h[i + 1]) /\ Len(h[i + 1]) <= i + 1 /\ Earlier(i + 1)
    <3> HIDE DEF Earlier
    <3>1. i + 1 \in Nat
      OBVIOUS
    <3> QED
      BY <3>1
  <2>0. i \in 0..(N - 1) /\ i \in 0..N /\ i + 1 \in 1..N /\ i <= N
    BY <1>0
  <2>a. Rises(h[i]) /\ Len(h[i]) <= i /\ Earlier(i)
    <3> HIDE DEF Earlier
    <3> QED
      BY <1>4, <2>0
  <2>1. i \in 0..(N - 1) /\ i \in 0..N /\ i + 1 \in 1..N /\ Rises(h[i]) /\ Len(h[i]) <= i /\ Earlier(i)
    BY <2>0, <2>a
  <2> DEFINE x == s[i + 1]
             p == h[i]
             q == h[i + 1]
  <2>2. /\ x \in Nat /\ p \in Seq(Nat) /\ q = IfRecent(p, x, moment) /\ Len(p) \in Nat
        /\ \A j \in 1..Len(p) : p[j] \in Nat
    BY <1>0, <1>2, <2>1, LenProperties, ElementOfSeq
  <2>3. \A j \in 1..Len(p) : \E k \in 1..i : p[j] = s[k]
    BY <2>1
  <2>4. \A j \in 1..Len(p) : p[j] <= x
    <3> TAKE j \in 1..Len(p)
    <3>1. PICK k \in 1..i : p[j] = s[k]
      BY <2>3
    <3>2. k \in 1..N /\ k <= i + 1
      BY <1>0, <2>1
    <3> QED
      BY <1>r, <2>1, <3>1, <3>2
  <2>5. Rises(p) /\ Len(p) <= i
    BY <2>1
  <2>6. x = s[i + 1]
    OBVIOUS
  <2> HIDE DEF x, p
  <2>7. CASE q = p
    BY <2>3, <2>7, <2>2, <2>5
  <2>8. CASE q = Append(p, x)
    <3>1. Len(q) = Len(p) + 1 /\ q[Len(p) + 1] = x /\ \A j \in 1..Len(p) : q[j] = p[j]
      BY <2>2, <2>8, AppendProperties
    <3> HIDE DEF q
    <3>2. \A j \in 1..Len(q) : j \in 1..Len(p) \/ j = Len(p) + 1
      BY <2>2, <3>1
    <3>3. ASSUME NEW j \in 1..Len(q), NEW k \in 1..Len(q), j <= k
          PROVE  q[j] <= q[k]
      <4>1. CASE k \in 1..Len(p)
        <5>1. j \in 1..Len(p)
          BY <2>2, <3>3, <4>1
        <5> QED
          BY <2>5, <3>1, <3>3, <4>1, <5>1 DEF Rises
      <4>2. CASE k = Len(p) + 1 /\ j \in 1..Len(p)
        BY <2>4, <3>1, <4>2
      <4>3. CASE k = Len(p) + 1 /\ j = Len(p) + 1
        BY <2>2, <3>1, <4>3
      <4> QED
        BY <3>2, <4>1, <4>2, <4>3
    <3>4. Rises(q)
      BY <3>3 DEF Rises
    <3>5. ASSUME NEW j \in 1..Len(q)
          PROVE  \E k \in 1..(i + 1) : q[j] = s[k]
      <4>1. CASE j \in 1..Len(p)
        BY <2>3, <4>1, <3>1
      <4>2. CASE j = Len(p) + 1
        BY <2>6, <3>1, <4>2
      <4> QED
        BY <3>2, <4>1, <4>2
    <3>6. Len(q) <= i + 1
      BY <2>2, <2>5, <3>1
    <3> QED
      BY <3>4, <3>5, <3>6 DEF q
  <2> QED
    BY <2>2, <2>7, <2>8 DEF IfRecent, q
<1>5. N \in T
  <2> HIDE DEF T
  <2> QED
    BY <1>0, <1>3, <1>4, NatSets
<1> QED
  BY <1>0, <1>1, <1>5 DEF N

\* When the window of one of them is over, only those after it are ticksLeft.
LEMMA RecentAfter ==
  ASSUME NEW s \in Seq(Nat), Rises(s), NEW m \in 1..Len(s), NEW moment \in Nat, s[m] + AttemptWindow <= moment
  PROVE  Len(recentAt(s, moment)) <= Len(s) - m
<1> DEFINE N == Len(s)
<1>0. N \in Nat /\ m \in 1..N /\ \A i \in 1..N : s[i] \in Nat
  OBVIOUS
<1>1. PICK h : Sieves(h, s, moment) /\ recentAt(s, moment) = h[N]
  BY RecentSieves
<1>r. \A i \in 1..N : i <= m => s[i] <= s[m]
  BY DEF Rises
<1> HIDE DEF N
<1>2. /\ h[0] = <<>> /\ \A i \in 0..N : h[i] \in Seq(Nat)
      /\ \A i \in 0..(N - 1) : h[i + 1] = IfRecent(h[i], s[i + 1], moment)
  BY <1>1 DEF Sieves, N
<1> DEFINE T == {i \in Nat : i <= N => (i <= m => Len(h[i]) = 0) /\ (m <= i => Len(h[i]) <= i - m)}
<1>3. 0 \in T
  BY <1>0, <1>2
<1>4. ASSUME NEW i \in Nat, i \in T
      PROVE  i + 1 \in T
  <2> SUFFICES ASSUME i + 1 <= N
               PROVE  (i + 1 <= m => Len(h[i + 1]) = 0) /\ (m <= i + 1 => Len(h[i + 1]) <= (i + 1) - m)
    OBVIOUS
  <2>1. i \in 0..(N - 1) /\ i \in 0..N /\ i + 1 \in 1..N /\ (i <= m => Len(h[i]) = 0) /\ (m <= i => Len(h[i]) <= i - m)
    BY <1>0, <1>4
  <2>2. s[i + 1] \in Nat /\ h[i] \in Seq(Nat) /\ h[i + 1] = IfRecent(h[i], s[i + 1], moment) /\ Len(h[i]) \in Nat
    BY <1>0, <1>2, <2>1, LenProperties
  <2>3. CASE i + 1 <= m
    <3>1. ~(s[i + 1] + AttemptWindow > moment)
      <4>1. s[i + 1] <= s[m] /\ s[m] \in Nat
        BY <1>0, <1>r, <2>1, <2>3
      <4> QED
        BY <2>2, <4>1, AttemptAssumption
    <3>2. h[i + 1] = h[i]
      BY <2>2, <3>1 DEF IfRecent
    <3> QED
      BY <1>0, <2>1, <2>3, <3>2
  <2>4. CASE ~(i + 1 <= m)
    <3>1. Len(h[i + 1]) <= Len(h[i]) + 1
      BY <2>2, AppendProperties DEF IfRecent
    <3>2. Len(h[i]) <= i - m
      BY <1>0, <2>1, <2>4
    <3>3. Len(h[i + 1]) \in Nat
      BY <1>2, <2>1, LenProperties
    <3> QED
      BY <1>0, <2>2, <2>4, <3>1, <3>2, <3>3
  <2> QED
    BY <2>3, <2>4
<1>5. N \in T
  <2> HIDE DEF T
  <2> QED
    BY <1>0, <1>3, <1>4, NatSets
<1> QED
  BY <1>0, <1>1, <1>5 DEF N

-----------------------------------------------------------------------------
(* The limiter, key by key.                                                 *)

\* The failures of a key at some time: those kept, all of them, and when a refusal said there would be room.
KeyOK(kept, all, until, moment) ==
  /\ kept \in Seq(Nat) /\ all \in Seq(Nat) /\ until \in Nat
  /\ Rises(kept) /\ \A i \in 1..Len(kept) : kept[i] <= moment
  /\ recentAt(kept, moment) = recentAt(all, moment)
  /\ until # NoPromise => Len(recentAt(kept, until)) < FailureLimit

\* As time goes by, failures only grow old.
LEMMA KeyWaits ==
  ASSUME NEW a, NEW e, NEW p, NEW c \in Nat, KeyOK(a, e, p, c)
  PROVE  KeyOK(a, e, p, c + 1)
<1>1. a \in Seq(Nat) /\ e \in Seq(Nat) /\ c + 1 \in Nat /\ c <= c + 1
  BY DEF KeyOK
<1>2. recentAt(a, c + 1) = recentAt(recentAt(a, c), c + 1) /\ recentAt(e, c + 1) = recentAt(recentAt(e, c), c + 1)
  BY <1>1, RecentOfRecent
<1>3. recentAt(a, c + 1) = recentAt(e, c + 1)
  BY <1>2 DEF KeyOK
<1>4. \A i \in 1..Len(a) : a[i] <= c + 1
  BY <1>1, ElementOfSeq DEF KeyOK
<1> QED
  BY <1>3, <1>4 DEF KeyOK

\* A key whose failures are all old may be forgotten.
LEMMA KeyForgets ==
  ASSUME NEW a, NEW e, NEW p, NEW c \in Nat, KeyOK(a, e, p, c), recentAt(a, c) = <<>>
  PROVE  KeyOK(<<>>, e, p, c)
<1>1. recentAt(<<>>, c) = <<>> /\ recentAt(<<>>, p) = <<>>
  BY RecentOfNone
<1>2. <<>> \in Seq(Nat) /\ Len(<<>>) = 0 /\ Rises(<<>>)
  BY DEF Rises
<1>3. 0 < FailureLimit
  BY AttemptAssumption
<1>4. recentAt(<<>>, c) = recentAt(e, c)
  BY <1>1 DEF KeyOK
<1>5. \A i \in 1..Len(<<>>) : <<>>[i] <= c
  BY <1>2
<1>6. e \in Seq(Nat) /\ p \in Nat
  BY DEF KeyOK
<1>7. Len(recentAt(<<>>, p)) < FailureLimit
  BY <1>1, <1>2, <1>3
<1> QED
  BY <1>2, <1>4, <1>5, <1>6, <1>7 DEF KeyOK

\* A failure is recorded after the recent ones (recordFailure).
LEMMA KeyFails ==
  ASSUME NEW a, NEW e, NEW p, NEW c \in Nat, KeyOK(a, e, p, c)
  PROVE  KeyOK(recentAt(a, c) \o <<c>>, Append(recentAt(e, c), c), NoPromise, c)
<1> DEFINE r == recentAt(a, c)
           n == Len(r)
           q == Append(r, c)
<1>1. a \in Seq(Nat) /\ Rises(a) /\ recentAt(e, c) = r /\ \A i \in 1..Len(a) : a[i] <= c
  BY DEF KeyOK
<1>2. r \in Seq(Nat) /\ n \in Nat /\ Rises(r) /\ \A j \in 1..n : \E k \in 1..Len(a) : r[j] = a[k]
  BY <1>1, RecentType, RecentRises
<1>3. \A j \in 1..n : r[j] \in Nat /\ r[j] <= c
  BY <1>1, <1>2, ElementOfSeq
<1> HIDE DEF r
<1>4. q \in Seq(Nat) /\ Len(q) = n + 1 /\ q[n + 1] = c /\ \A j \in 1..n : q[j] = r[j]
  BY <1>2, AppendProperties
<1>5. r \o <<c>> = q
  BY <1>2
<1> HIDE DEF q, n
<1>6. \A j \in 1..Len(q) : j \in 1..n \/ j = n + 1
  BY <1>2, <1>4
<1>7. \A j \in 1..Len(q) : q[j] <= c
  BY <1>3, <1>4, <1>6
<1>8. ASSUME NEW j \in 1..Len(q), NEW k \in 1..Len(q), j <= k
      PROVE  q[j] <= q[k]
  <2>1. CASE k = n + 1
    BY <1>4, <1>7, <2>1
  <2>2. CASE k \in 1..n
    <3>1. j \in 1..n
      BY <1>2, <1>8, <2>2
    <3>2. r[j] <= r[k]
      BY <1>2, <1>8, <2>2, <3>1 DEF Rises, n
    <3> QED
      BY <1>4, <2>2, <3>1, <3>2
  <2> QED
    BY <1>6, <2>1, <2>2
<1>9. Rises(q)
  BY <1>8 DEF Rises
<1>10. NoPromise \in Nat
  BY AttemptAssumption DEF NoPromise
<1>11. KeyOK(q, q, NoPromise, c)
  BY <1>4, <1>7, <1>9, <1>10 DEF KeyOK
<1>12. Append(recentAt(e, c), c) = q
  BY <1>1 DEF q
<1> QED
  BY <1>5, <1>11, <1>12 DEF r

\* A number of seconds, rounded up, is no less than the ticks.
LEMMA SecondsCover ==
  ASSUME NEW t \in Int
  PROVE  ceilSeconds(t) \in Int /\ TicksPerSecond * ceilSeconds(t) >= t
<1>1. TicksPerSecond \in Nat /\ TicksPerSecond > 0
  BY AttemptAssumption
<1> DEFINE q == (t + TicksPerSecond - 1) \div TicksPerSecond
<1>2. q \in Int /\ TicksPerSecond * q <= t + TicksPerSecond - 1 /\ t + TicksPerSecond - 1 < TicksPerSecond * q + TicksPerSecond
  BY <1>1
<1> HIDE DEF q
<1>3. TicksPerSecond * q \in Int
  BY <1>1, <1>2
<1>4. TicksPerSecond * q >= t
  BY <1>1, <1>2, <1>3
<1> QED
  BY <1>2, <1>4 DEF ceilSeconds, q

\* At the time a refusal gives, all but the last failures below the limit are over.
LEMMA KeyRefuses ==
  ASSUME attemptClock \in Nat, NEW a, NEW e, NEW p, KeyOK(a, e, p, attemptClock), Len(recentAt(a, attemptClock)) >= FailureLimit
  PROVE  KeyOK(a, e, attemptClock + TicksPerSecond * retryAfter(recentAt(a, attemptClock)), attemptClock)
<1> DEFINE c == attemptClock
           r == recentAt(a, c)
           m == Len(r) - FailureLimit + 1
           t == r[m] + AttemptWindow - c
           ticksLeft == retryAfter(r)
           until == c + TicksPerSecond * ticksLeft
<1>1. a \in Seq(Nat) /\ Rises(a) /\ c \in Nat
  BY DEF KeyOK
<1>2. r \in Seq(Nat) /\ Len(r) \in Nat /\ Rises(r)
  BY <1>1, RecentType, RecentRises
<1>3. FailureLimit \in Nat /\ FailureLimit > 0 /\ TicksPerSecond \in Nat /\ TicksPerSecond > 0 /\ AttemptWindow \in Nat
  BY AttemptAssumption
<1>4. m \in 1..Len(r) /\ Len(r) - m = FailureLimit - 1
  BY <1>2, <1>3
<1>5. r[m] \in Nat /\ t \in Int
  BY <1>1, <1>2, <1>3, <1>4, ElementOfSeq
<1>6. ticksLeft \in Nat /\ ticksLeft >= 1 /\ TicksPerSecond * ticksLeft >= t
  <2> HIDE DEF t
  <2>1. ceilSeconds(t) \in Int /\ TicksPerSecond * ceilSeconds(t) >= t
    BY <1>5, SecondsCover
  <2>2. ticksLeft = IF ceilSeconds(t) < 1 THEN 1 ELSE ceilSeconds(t)
    BY DEF retryAfter, t
  <2> HIDE DEF ticksLeft
  <2>3. CASE ceilSeconds(t) < 1
    BY <1>3, <2>1, <2>3, <2>2, <1>5
  <2>4. CASE ~(ceilSeconds(t) < 1)
    BY <2>1, <2>2, <2>4
  <2> QED
    BY <2>3, <2>4
<1>7. until \in Nat /\ c <= until /\ r[m] + AttemptWindow <= until
  <2>1. TicksPerSecond * ticksLeft \in Nat
    <3> HIDE DEF ticksLeft
    <3> QED
      BY <1>3, <1>6
  <2> DEFINE x == TicksPerSecond * ticksLeft
  <2>2. x \in Nat /\ x >= t /\ until = c + x
    BY <1>6, <2>1
  <2> HIDE DEF x, until, ticksLeft
  <2> QED
    BY <1>1, <1>3, <1>5, <2>2
<1> HIDE DEF until, ticksLeft, t, m
<1>8. Len(recentAt(r, until)) <= Len(r) - m
  <2> HIDE DEF r
  <2> QED
    BY <1>2, <1>4, <1>7, RecentAfter
<1>9. recentAt(r, until) = recentAt(a, until)
  BY <1>1, <1>7, RecentOfRecent
<1>10. Len(recentAt(a, until)) < FailureLimit
  BY <1>1, RecentType, <1>3, <1>4, <1>8, <1>9
<1>11. KeyOK(a, e, until, c)
  BY <1>7, <1>10 DEF KeyOK
<1> QED
  BY <1>11 DEF until, ticksLeft, r

AttemptInv ==
  /\ attemptClock \in Nat /\ attemptClock <= MaxAttemptTime
  /\ DOMAIN attemptFailures = AttemptKeys /\ DOMAIN everFailed = AttemptKeys /\ DOMAIN promised = AttemptKeys
  /\ \A k \in AttemptKeys : KeyOK(attemptFailures[k], everFailed[k], promised[k], attemptClock)

\* At first nobody failed.
LEMMA AttemptStart == AttemptInit => AttemptInv
<1> SUFFICES ASSUME AttemptInit
             PROVE  AttemptInv
  OBVIOUS
<1>1. NoPromise \in Nat /\ 0 <= MaxAttemptTime
  BY AttemptAssumption DEF NoPromise
<1>2. <<>> \in Seq(Nat) /\ Len(<<>>) = 0 /\ Rises(<<>>)
  BY DEF Rises
<1>3. \A i \in 1..Len(<<>>) : <<>>[i] <= 0
  BY <1>2
<1>4. KeyOK(<<>>, <<>>, NoPromise, 0)
  BY <1>1, <1>2, <1>3 DEF KeyOK
<1> QED
  BY <1>1, <1>4 DEF AttemptInit, AttemptInv

\* Of the key of a request, and of the others.
LEMMA OtherKeys ==
  ASSUME AttemptInv, NEW k \in AttemptKeys, attemptClock' = attemptClock,
         DOMAIN attemptFailures' = AttemptKeys, DOMAIN everFailed' = AttemptKeys, DOMAIN promised' = AttemptKeys,
         KeyOK(attemptFailures'[k], everFailed'[k], promised'[k], attemptClock),
         \A u \in AttemptKeys \ {k} : everFailed'[u] = everFailed[u] /\ promised'[u] = promised[u],
         \A u \in AttemptKeys \ {k} : attemptFailures'[u] \in {attemptFailures[u], sweep(u)}
  PROVE  AttemptInv'
<1>1. \A u \in AttemptKeys : KeyOK(attemptFailures'[u], everFailed'[u], promised'[u], attemptClock)
  <2> TAKE u \in AttemptKeys
  <2>1. CASE u = k
    BY <2>1
  <2>2. CASE u # k
    <3>1. KeyOK(attemptFailures[u], everFailed[u], promised[u], attemptClock) /\ attemptClock \in Nat
      BY DEF AttemptInv
    <3>2. KeyOK(sweep(u), everFailed[u], promised[u], attemptClock)
      <4>1. CASE recentFailures(u) = <<>>
        BY <4>1, <3>1, KeyForgets DEF sweep, recentFailures, recentOf
      <4>2. CASE recentFailures(u) # <<>>
        BY <3>1, <4>2 DEF sweep
      <4> QED
        BY <4>1, <4>2
    <3>3. everFailed'[u] = everFailed[u] /\ promised'[u] = promised[u] /\ attemptFailures'[u] \in {attemptFailures[u], sweep(u)}
      BY <2>2
    <3> QED
      BY <3>1, <3>2, <3>3
  <2> QED
    BY <2>1, <2>2
<1>2. attemptClock' \in Nat /\ attemptClock' <= MaxAttemptTime
  BY DEF AttemptInv
<1>3. \A u \in AttemptKeys : KeyOK(attemptFailures'[u], everFailed'[u], promised'[u], attemptClock')
  BY <1>1
<1> QED
  BY <1>2, <1>3 DEF AttemptInv

\* A request is let in or refused (assertAllowed).
LEMMA AllowedKeeps ==
  ASSUME AttemptInv, NEW k \in AttemptKeys, assertAllowed(k)
  PROVE  AttemptInv'
<1>1. /\ KeyOK(attemptFailures[k], everFailed[k], promised[k], attemptClock) /\ attemptClock \in Nat
      /\ DOMAIN attemptFailures = AttemptKeys /\ DOMAIN everFailed = AttemptKeys /\ DOMAIN promised = AttemptKeys
  BY DEF AttemptInv
<1>2. /\ attemptClock' = attemptClock /\ everFailed' = everFailed
      /\ attemptFailures' = [attemptFailures EXCEPT ![k] = IF recentFailures(k) = <<>> THEN <<>> ELSE attemptFailures[k]]
  BY DEF assertAllowed, forgetOld
<1>3. /\ DOMAIN attemptFailures' = AttemptKeys /\ attemptFailures'[k] = (IF recentFailures(k) = <<>> THEN <<>> ELSE attemptFailures[k])
      /\ \A u \in AttemptKeys \ {k} : attemptFailures'[u] = attemptFailures[u]
  BY <1>1, <1>2
<1>4. KeyOK(attemptFailures'[k], everFailed[k], promised[k], attemptClock)
  <2>1. CASE recentFailures(k) = <<>>
    BY <2>1, <1>1, <1>3, KeyForgets DEF recentFailures, recentOf
  <2>2. CASE recentFailures(k) # <<>>
    BY <1>1, <1>3, <2>2
  <2> QED
    BY <2>1, <2>2
<1>5. CASE Len(recentFailures(k)) < FailureLimit
  BY <1>5, <1>1, <1>2, <1>3, <1>4, OtherKeys DEF assertAllowed
<1>6. CASE ~(Len(recentFailures(k)) < FailureLimit)
  <2>1. promised' = [promised EXCEPT ![k] = attemptClock + TicksPerSecond * retryAfter(recentFailures(k))]
    BY <1>6 DEF assertAllowed
  <2>2. DOMAIN promised' = AttemptKeys /\ \A u \in AttemptKeys \ {k} : promised'[u] = promised[u]
    BY <1>1, <2>1
  <2>3. promised'[k] = attemptClock + TicksPerSecond * retryAfter(recentAt(attemptFailures[k], attemptClock))
    BY <1>1, <2>1 DEF recentFailures, recentOf
  <2>4. Len(recentAt(attemptFailures[k], attemptClock)) >= FailureLimit
    BY <1>1, RecentType, <1>6, AttemptAssumption DEF KeyOK, recentFailures, recentOf
  <2>5. attemptFailures'[k] = attemptFailures[k]
    <3>1. recentFailures(k) # <<>>
      BY <1>6, AttemptAssumption
    <3> QED
      BY <1>3, <3>1
  <2>6. KeyOK(attemptFailures'[k], everFailed[k], promised'[k], attemptClock)
    BY <1>1, <2>3, <2>4, <2>5, KeyRefuses
  <2> QED
    BY <1>1, <1>2, <1>3, <2>2, <2>6, OtherKeys
<1> QED
  BY <1>5, <1>6

\* A failure is recorded, and old keys may be swept (recordFailure, sweep).
LEMMA FailureKeeps ==
  ASSUME AttemptInv, NEW k \in AttemptKeys, recordFailure(k)
  PROVE  AttemptInv'
<1>1. /\ KeyOK(attemptFailures[k], everFailed[k], promised[k], attemptClock) /\ attemptClock \in Nat
      /\ DOMAIN attemptFailures = AttemptKeys /\ DOMAIN everFailed = AttemptKeys /\ DOMAIN promised = AttemptKeys
  BY DEF AttemptInv
<1>2. PICK full \in BOOLEAN :
         attemptFailures' = [u \in AttemptKeys |-> IF u = k THEN recentFailures(k) \o <<attemptClock>>
                                                  ELSE IF full THEN sweep(u) ELSE attemptFailures[u]]
  BY DEF recordFailure
<1>3. /\ attemptClock' = attemptClock /\ everFailed' = [everFailed EXCEPT ![k] = Append(recentOf(@), attemptClock)]
      /\ promised' = [promised EXCEPT ![k] = NoPromise]
  BY DEF recordFailure
<1>4. /\ DOMAIN attemptFailures' = AttemptKeys /\ DOMAIN everFailed' = AttemptKeys /\ DOMAIN promised' = AttemptKeys
      /\ attemptFailures'[k] = recentFailures(k) \o <<attemptClock>>
      /\ everFailed'[k] = Append(recentOf(everFailed[k]), attemptClock) /\ promised'[k] = NoPromise
  BY <1>1, <1>2, <1>3
<1>5. \A u \in AttemptKeys \ {k} : everFailed'[u] = everFailed[u] /\ promised'[u] = promised[u]
  BY <1>1, <1>3
<1>6. \A u \in AttemptKeys \ {k} : attemptFailures'[u] \in {attemptFailures[u], sweep(u)}
  BY <1>2
<1>7. KeyOK(attemptFailures'[k], everFailed'[k], promised'[k], attemptClock)
  BY <1>1, KeyFails, <1>4 DEF recentFailures, recentOf
<1> QED
  BY <1>3, <1>4, <1>5, <1>6, <1>7, OtherKeys

\* Who waits as long as a refusal says is let in, and no failure is forgotten before its window is over, for any limit,
\* window and number of keys and of requests at the same time (assertAllowed, recordFailure, sweep).
THEOREM LimitIsAlwaysExact == AttemptSpec => []LimitIsExact
<1>1. AttemptInit => AttemptInv
  BY AttemptStart
<1>2. AttemptInv /\ [AttemptNext]_attemptVars => AttemptInv'
  <2> SUFFICES ASSUME AttemptInv, [AttemptNext]_attemptVars
               PROVE  AttemptInv'
    OBVIOUS
  <2>1. CASE passTime
    <3>1. /\ attemptClock' = attemptClock + 1 /\ attemptFailures' = attemptFailures /\ everFailed' = everFailed
          /\ promised' = promised /\ attemptClock < MaxAttemptTime
      BY <2>1 DEF passTime
    <3>2. attemptClock \in Nat /\ MaxAttemptTime \in Nat
      BY AttemptAssumption DEF AttemptInv
    <3>3. attemptClock' \in Nat /\ attemptClock' <= MaxAttemptTime
      BY <3>1, <3>2
    <3>4. \A k \in AttemptKeys : KeyOK(attemptFailures[k], everFailed[k], promised[k], attemptClock + 1)
      BY <3>2, KeyWaits DEF AttemptInv
    <3>5. \A k \in AttemptKeys : KeyOK(attemptFailures'[k], everFailed'[k], promised'[k], attemptClock')
      BY <3>1, <3>4
    <3>6. DOMAIN attemptFailures' = AttemptKeys /\ DOMAIN everFailed' = AttemptKeys /\ DOMAIN promised' = AttemptKeys
      BY <3>1 DEF AttemptInv
    <3> QED
      BY <3>3, <3>5, <3>6 DEF AttemptInv
  <2>2. CASE \E k \in AttemptKeys : assertAllowed(k)
    BY <2>2, AllowedKeeps
  <2>3. CASE \E k \in AttemptKeys : recordFailure(k)
    BY <2>3, FailureKeeps
  <2>4. CASE \E k \in AttemptKeys : succeed(k)
    BY <2>4 DEF succeed, AttemptInv
  <2>5. CASE UNCHANGED attemptVars
    BY <2>5 DEF attemptVars, AttemptInv
  <2> QED
    BY <2>1, <2>2, <2>3, <2>4, <2>5 DEF AttemptNext
<1>3. AttemptInv => LimitIsExact
  <2> SUFFICES ASSUME AttemptInv, NEW k \in AttemptKeys
               PROVE  /\ attemptClock >= promised[k] => Len(recentFailures(k)) < FailureLimit
                      /\ recentFailures(k) = recentOf(everFailed[k])
    BY DEF LimitIsExact, RetryAfterIsEnough, FailuresCount
  <2>1. KeyOK(attemptFailures[k], everFailed[k], promised[k], attemptClock) /\ attemptClock \in Nat /\ attemptClock <= MaxAttemptTime
    BY DEF AttemptInv
  <2>2. recentFailures(k) = recentOf(everFailed[k])
    BY <2>1 DEF KeyOK, recentFailures, recentOf
  <2>3. ASSUME attemptClock >= promised[k]
        PROVE  Len(recentFailures(k)) < FailureLimit
    <3> DEFINE a == attemptFailures[k]
               p == promised[k]
               r == recentAt(a, p)
    <3>1. a \in Seq(Nat) /\ Rises(a) /\ p \in Nat /\ (p # NoPromise => Len(r) < FailureLimit)
      BY <2>1 DEF KeyOK
    <3>2. p # NoPromise
      BY <2>1, <2>3, <3>1, AttemptAssumption DEF NoPromise
    <3>3. r \in Seq(Nat) /\ Len(r) \in Nat /\ Rises(r)
      BY <3>1, RecentType, RecentRises
    <3>4. recentAt(r, attemptClock) = recentAt(a, attemptClock)
      BY <2>1, <2>3, <3>1, RecentOfRecent
    <3>5. Len(recentAt(r, attemptClock)) <= Len(r) /\ Len(recentAt(r, attemptClock)) \in Nat
      <4> HIDE DEF r
      <4> QED
        BY <3>3, RecentRises, RecentType
    <3>6. recentFailures(k) = recentAt(a, attemptClock)
      BY DEF recentFailures, recentOf
    <3> HIDE DEF a, p, r
    <3> QED
      BY <3>1, <3>2, <3>3, <3>4, <3>5, <3>6, AttemptAssumption
  <2> QED
    BY <2>2, <2>3
<1> QED
  BY <1>1, <1>2, <1>3, PTL DEF AttemptSpec

------------------------------------------------------------------------------
(* What the routes declare.                                                 *)

\* A route asks for what its path is about; what is somebody's is checked or not stored; and who buys is not of the staff.
Checked(route) == route.permissions # {} \/ route.account # "none"
Declared(route) ==
  /\ route.path = "admin" <=> route.permissions # {}
  /\ route.path = "me" <=> route.account # "none"
  /\ route.scope = "USER" => Checked(route)
KeptPrivate(route) == route.personal => Checked(route) \/ route.noStore
NotByStaff(route) == route.buys => route.noStaff
Paths == {"public", "me", "admin"}
Whose == {"none", "any", "customer", "pending"}
Scopes == {"none", "USER", "CART"}
PermissionCodes ==
  {"audit.read", "catalog.read", "catalog.write", "customers.manage", "customers.read", "events.manage",
   "inventory.read", "inventory.write", "orders.manage", "orders.place", "orders.read", "orders.read-blocked",
   "payments.configure", "payments.manage", "pricing.read", "pricing.write", "promotions.manage",
   "promotions.read", "shipping.configure", "shipping.manage", "staff.manage", "work-orders.manage",
   "work-orders.read", "work-orders.read-blocked"}
Limits ==
  {"register", "password-reset-ip", "guest-order", "order-access-ip", "password-reset-email", "order-access-email",
   "place-order-email", "email-verification", "place-order", "admin-place-order", "ai-description-draft"}
RouteFields ==
  [path : Paths, permissions : SUBSET PermissionCodes, account : Whose, noStaff : BOOLEAN, limits : SUBSET Limits, scope : Scopes,
   noStore : BOOLEAN, personal : BOOLEAN, buys : BOOLEAN]
RouteOK(route) == route \in RouteFields /\ Declared(route) /\ KeptPrivate(route) /\ NotByStaff(route)

\* The names of the limits.
LEMMA LimitNames ==
  DOMAIN RATE_LIMITS = Limits
  BY DEF RATE_LIMITS, Limits

\* What an open route declares.
LEMMA OpenFields ==
  /\ open \in RouteFields /\ open.path = "public" /\ open.permissions = {} /\ open.account = "none" /\ open.noStaff = FALSE
  /\ open.limits = {} /\ open.scope = "none" /\ open.noStore = FALSE /\ open.personal = FALSE /\ open.buys = FALSE
<1>1. open.path = "public" /\ open.permissions = {} /\ open.account = "none" /\ open.limits = {} /\ open.scope = "none"
  BY DEF open
<1>2. open.noStaff = FALSE /\ open.noStore = FALSE
  BY DEF open
<1>3. open.personal = FALSE /\ open.buys = FALSE
  BY DEF open
<1>4. open \in RouteFields
  <2>1. ASSUME NEW p \in Paths, NEW e \in SUBSET PermissionCodes, NEW n \in Whose, NEW l \in SUBSET Limits, NEW s \in Scopes, NEW f \in BOOLEAN
        PROVE  [path |-> p, permissions |-> e, account |-> n, noStaff |-> f, limits |-> l, scope |-> s,
                noStore |-> f, personal |-> f, buys |-> f] \in RouteFields
    BY DEF RouteFields
  <2>2. {} \in SUBSET PermissionCodes /\ {} \in SUBSET Limits /\ "public" \in Paths /\ "none" \in Whose /\ "none" \in Scopes /\ FALSE \in BOOLEAN
    BY DEF Paths, Whose, Scopes
  <2> HIDE DEF RouteFields
  <2> QED
    BY <2>1, <2>2 DEF open
<1> QED
  BY <1>1, <1>2, <1>3, <1>4

\* What a decorator changes of a route, and what it leaves alone.
LEMMA NeedsFields ==
  ASSUME NEW code \in PermissionCodes
  PROVE  LET r == needs(code) IN
         /\ r \in RouteFields /\ r.path = "admin" /\ r.permissions = {code} /\ r.account = "none" /\ r.noStaff = FALSE
         /\ r.limits = {} /\ r.scope = "none" /\ r.noStore = FALSE /\ r.personal /\ r.buys = FALSE
<1> DEFINE W(q, p, x) == [q EXCEPT !.path = p, !.permissions = x, !.personal = TRUE]
           r == W(open, "admin", {code})
<1>1. ASSUME NEW q \in RouteFields, NEW p \in Paths, NEW x \in SUBSET PermissionCodes
      PROVE  /\ W(q, p, x) \in RouteFields /\ W(q, p, x).path = p /\ W(q, p, x).permissions = x /\ W(q, p, x).personal
             /\ W(q, p, x).account = q.account /\ W(q, p, x).limits = q.limits /\ W(q, p, x).scope = q.scope
             /\ W(q, p, x).noStaff = q.noStaff /\ W(q, p, x).noStore = q.noStore /\ W(q, p, x).buys = q.buys
  BY DEF RouteFields
<1>2. "admin" \in Paths /\ {code} \in SUBSET PermissionCodes
  BY DEF Paths
<1>3. needs(code) = r
  BY DEF needs
<1>4. open \in RouteFields
  BY OpenFields
<1> HIDE DEF W
<1>5. /\ r \in RouteFields /\ r.path = "admin" /\ r.permissions = {code} /\ r.personal
      /\ r.account = open.account /\ r.limits = open.limits /\ r.scope = open.scope
      /\ r.noStaff = open.noStaff /\ r.noStore = open.noStore /\ r.buys = open.buys
  BY <1>1, <1>2, <1>4, Zenon
<1> HIDE DEF r
<1>6. r.account = "none" /\ r.limits = {} /\ r.scope = "none"
  BY <1>5, OpenFields
<1>7. r.noStaff = FALSE /\ r.noStore = FALSE /\ r.buys = FALSE
  BY <1>5, OpenFields, Zenon
<1> QED
  BY <1>3, <1>5, <1>6, <1>7, Zenon

\* RequireAccount.
LEMMA SignedInFields ==
  ASSUME NEW who \in Whose
  PROVE  LET r == signedIn(who) IN
         /\ r \in RouteFields /\ r.path = "me" /\ r.account = who /\ r.permissions = {} /\ r.noStaff = FALSE
         /\ r.limits = {} /\ r.scope = "none" /\ r.noStore = FALSE /\ r.personal /\ r.buys = FALSE
<1> DEFINE W(q, p, x) == [q EXCEPT !.path = p, !.account = x, !.personal = TRUE]
           r == W(open, "me", who)
<1>1. ASSUME NEW q \in RouteFields, NEW p \in Paths, NEW x \in Whose
      PROVE  /\ W(q, p, x) \in RouteFields /\ W(q, p, x).path = p /\ W(q, p, x).account = x /\ W(q, p, x).personal
             /\ W(q, p, x).permissions = q.permissions /\ W(q, p, x).limits = q.limits /\ W(q, p, x).scope = q.scope
             /\ W(q, p, x).noStaff = q.noStaff /\ W(q, p, x).noStore = q.noStore /\ W(q, p, x).buys = q.buys
  BY DEF RouteFields
<1>2. "me" \in Paths /\ who \in Whose
  BY DEF Paths
<1>3. signedIn(who) = r
  BY DEF signedIn
<1>4. open \in RouteFields
  BY OpenFields
<1> HIDE DEF W
<1>5. /\ r \in RouteFields /\ r.path = "me" /\ r.account = who /\ r.personal
      /\ r.permissions = open.permissions /\ r.limits = open.limits /\ r.scope = open.scope
      /\ r.noStaff = open.noStaff /\ r.noStore = open.noStore /\ r.buys = open.buys
  BY <1>1, <1>2, <1>4, Zenon
<1> HIDE DEF r
<1>6. r.permissions = {} /\ r.limits = {} /\ r.scope = "none"
  BY <1>5, OpenFields
<1>7. r.noStaff = FALSE /\ r.noStore = FALSE /\ r.buys = FALSE
  BY <1>5, OpenFields, Zenon
<1> QED
  BY <1>3, <1>5, <1>6, <1>7, Zenon

\* A route that buys.
LEMMA PurchaseFields ==
  ASSUME NEW q \in RouteFields
  PROVE  LET r == purchase(q) IN
         /\ r \in RouteFields /\ r.path = q.path /\ r.permissions = q.permissions /\ r.account = q.account /\ r.noStaff = q.noStaff
         /\ r.limits = q.limits /\ r.scope = q.scope /\ r.noStore = q.noStore /\ r.personal /\ r.buys
  BY DEF purchase, RouteFields

\* A route that answers what is somebody's.
LEMMA PrivateFields ==
  ASSUME NEW q \in RouteFields
  PROVE  LET r == private(q) IN
         /\ r \in RouteFields /\ r.path = q.path /\ r.permissions = q.permissions /\ r.account = q.account /\ r.noStaff = q.noStaff
         /\ r.limits = q.limits /\ r.scope = q.scope /\ r.noStore = q.noStore /\ r.personal /\ r.buys = q.buys
  BY DEF private, RouteFields

\* NoStaffPurchases.
LEMMA NoStaffFields ==
  ASSUME NEW q \in RouteFields
  PROVE  LET r == noStaff(q) IN
         /\ r \in RouteFields /\ r.path = q.path /\ r.permissions = q.permissions /\ r.account = q.account /\ r.noStaff
         /\ r.limits = q.limits /\ r.scope = q.scope /\ r.noStore = q.noStore /\ r.personal = q.personal /\ r.buys = q.buys
  BY DEF noStaff, RouteFields

\* NoStore.
LEMMA UnstoredFields ==
  ASSUME NEW q \in RouteFields
  PROVE  LET r == unstored(q) IN
         /\ r \in RouteFields /\ r.path = q.path /\ r.permissions = q.permissions /\ r.account = q.account /\ r.noStaff = q.noStaff
         /\ r.limits = q.limits /\ r.scope = q.scope /\ r.noStore /\ r.personal = q.personal /\ r.buys = q.buys
  BY DEF unstored, RouteFields

\* RateLimit.
LEMMA LimitedFields ==
  ASSUME NEW q \in RouteFields, NEW names \in SUBSET Limits
  PROVE  LET r == limited(names, q) IN
         /\ r \in RouteFields /\ r.path = q.path /\ r.permissions = q.permissions /\ r.account = q.account /\ r.noStaff = q.noStaff
         /\ r.limits = names /\ r.scope = q.scope /\ r.noStore = q.noStore /\ r.personal = q.personal /\ r.buys = q.buys
  BY DEF limited, RouteFields

\* Idempotent.
LEMMA IdempotentFields ==
  ASSUME NEW q \in RouteFields, NEW scope \in Scopes
  PROVE  LET r == idempotent(scope, q) IN
         /\ r \in RouteFields /\ r.path = q.path /\ r.permissions = q.permissions /\ r.account = q.account /\ r.noStaff = q.noStaff
         /\ r.limits = q.limits /\ r.scope = scope /\ r.noStore = q.noStore /\ r.personal = q.personal /\ r.buys = q.buys
  BY DEF idempotent, RouteFields

\* Of each decorator: what it keeps of these.
LEMMA OpenIs == open \in RouteFields /\ Declared(open) /\ ~Checked(open) /\ KeptPrivate(open) /\ NotByStaff(open)
<1>1. open \in RouteFields /\ Declared(open) /\ ~Checked(open)
  BY OpenFields DEF Declared, Checked
<1>2. KeptPrivate(open) /\ NotByStaff(open)
  BY OpenFields, Zenon DEF KeptPrivate, NotByStaff
<1> QED
  BY <1>1, <1>2

\* A route of the back office is checked.
LEMMA NeedsIs == ASSUME NEW code \in PermissionCodes PROVE RouteOK(needs(code)) /\ Checked(needs(code))
<1>1. needs(code) \in RouteFields /\ Declared(needs(code)) /\ Checked(needs(code))
  BY NeedsFields DEF Declared, Checked
<1>2. NotByStaff(needs(code))
  BY NeedsFields, Zenon DEF NotByStaff
<1> QED
  BY <1>1, <1>2 DEF RouteOK, KeptPrivate

\* A route of an account is checked.
LEMMA SignedInIs ==
  ASSUME NEW who \in {"any", "customer", "pending"} PROVE RouteOK(signedIn(who)) /\ Checked(signedIn(who))
<1>0. who \in Whose /\ who # "none"
  BY DEF Whose
<1>1. signedIn(who) \in RouteFields /\ Declared(signedIn(who)) /\ Checked(signedIn(who))
  BY <1>0, SignedInFields DEF Declared, Checked
<1>2. NotByStaff(signedIn(who))
  BY <1>0, SignedInFields, Zenon DEF NotByStaff
<1> QED
  BY <1>1, <1>2 DEF RouteOK, KeptPrivate

\* Who is of the staff does not buy.
LEMMA BoughtIs ==
  ASSUME NEW q \in RouteFields
  PROVE  LET r == noStaff(q) IN
         /\ r \in RouteFields /\ (Declared(q) => Declared(r)) /\ (Checked(q) <=> Checked(r)) /\ NotByStaff(r)
<1> DEFINE r == noStaff(q)
<1>1. r \in RouteFields /\ r.path = q.path /\ r.permissions = q.permissions /\ r.account = q.account /\ r.scope = q.scope
  BY NoStaffFields
<1>2. (Declared(q) => Declared(r)) /\ (Checked(q) <=> Checked(r))
  <2> HIDE DEF r
  <2> QED
    BY <1>1 DEF Declared, Checked
<1>3. NotByStaff(r)
  BY NoStaffFields DEF NotByStaff
<1> QED
  BY <1>1, <1>2, <1>3

\* Buying changes no guard.
LEMMA PurchaseIs ==
  ASSUME NEW q \in RouteFields
  PROVE  LET r == purchase(q) IN
         /\ r \in RouteFields /\ (Declared(q) => Declared(r)) /\ (Checked(q) <=> Checked(r))
<1> DEFINE r == purchase(q)
<1>1. r \in RouteFields /\ r.path = q.path /\ r.permissions = q.permissions /\ r.account = q.account /\ r.scope = q.scope
  BY PurchaseFields
<1>2. (Declared(q) => Declared(r)) /\ (Checked(q) <=> Checked(r))
  <2> HIDE DEF r
  <2> QED
    BY <1>1 DEF Declared, Checked
<1> QED
  BY <1>1, <1>2

\* Nor does whose the answer is.
LEMMA PrivateIs ==
  ASSUME NEW q \in RouteFields
  PROVE  LET r == private(q) IN
         /\ r \in RouteFields /\ (Declared(q) => Declared(r)) /\ (Checked(q) <=> Checked(r)) /\ (NotByStaff(q) => NotByStaff(r))
<1> DEFINE r == private(q)
<1>1. r \in RouteFields /\ r.path = q.path /\ r.permissions = q.permissions /\ r.account = q.account /\ r.scope = q.scope
  BY PrivateFields
<1>2. (Declared(q) => Declared(r)) /\ (Checked(q) <=> Checked(r))
  <2> HIDE DEF r
  <2> QED
    BY <1>1 DEF Declared, Checked
<1>3. NotByStaff(q) => NotByStaff(r)
  BY PrivateFields, Zenon DEF NotByStaff
<1> QED
  BY <1>1, <1>2, <1>3

\* What is not stored is kept private.
LEMMA UnstoredIs ==
  ASSUME NEW q \in RouteFields
  PROVE  LET r == unstored(q) IN
         /\ r \in RouteFields /\ (Declared(q) => Declared(r)) /\ (Checked(q) <=> Checked(r)) /\ KeptPrivate(r) /\ (NotByStaff(q) => NotByStaff(r))
<1> DEFINE r == unstored(q)
<1>1. r \in RouteFields /\ r.path = q.path /\ r.permissions = q.permissions /\ r.account = q.account /\ r.scope = q.scope
  BY UnstoredFields
<1>2. (Declared(q) => Declared(r)) /\ (Checked(q) <=> Checked(r))
  <2> HIDE DEF r
  <2> QED
    BY <1>1 DEF Declared, Checked
<1>3. NotByStaff(q) => NotByStaff(r)
  BY UnstoredFields, Zenon DEF NotByStaff
<1>4. KeptPrivate(r)
  BY UnstoredFields DEF KeptPrivate
<1> QED
  BY <1>1, <1>2, <1>3, <1>4

\* A limit changes no guard.
LEMMA LimitedIs ==
  ASSUME NEW q \in RouteFields, NEW names \in SUBSET Limits
  PROVE  LET r == limited(names, q) IN
         /\ r \in RouteFields /\ (Declared(q) => Declared(r)) /\ (Checked(q) <=> Checked(r)) /\ (KeptPrivate(q) => KeptPrivate(r)) /\ (NotByStaff(q) => NotByStaff(r))
<1> DEFINE r == limited(names, q)
<1>1. r \in RouteFields /\ r.path = q.path /\ r.permissions = q.permissions /\ r.account = q.account /\ r.scope = q.scope
  BY LimitedFields
<1>2. (Declared(q) => Declared(r)) /\ (Checked(q) <=> Checked(r))
  <2> HIDE DEF r
  <2> QED
    BY <1>1 DEF Declared, Checked
<1>3. NotByStaff(q) => NotByStaff(r)
  BY LimitedFields, Zenon DEF NotByStaff
<1>4. KeptPrivate(q) => KeptPrivate(r)
  BY <1>2, LimitedFields, Zenon DEF KeptPrivate
<1> QED
  BY <1>1, <1>2, <1>3, <1>4

\* A key needs an account or a cart.
LEMMA IdempotentIs ==
  ASSUME NEW q \in RouteFields, NEW scope \in {"CART", "USER"}, scope = "USER" => Checked(q)
  PROVE  LET r == idempotent(scope, q) IN
         /\ r \in RouteFields /\ (Declared(q) => Declared(r)) /\ (Checked(q) <=> Checked(r))
         /\ (KeptPrivate(q) => KeptPrivate(r)) /\ (NotByStaff(q) => NotByStaff(r))
<1> DEFINE r == idempotent(scope, q)
<1>0. scope \in Scopes
  BY DEF Scopes
<1>1. r \in RouteFields /\ r.path = q.path /\ r.permissions = q.permissions /\ r.account = q.account /\ r.scope = scope
  BY <1>0, IdempotentFields
<1>2. (Declared(q) => Declared(r)) /\ (Checked(q) <=> Checked(r))
  <2> HIDE DEF r
  <2> QED
    BY <1>1 DEF Declared, Checked
<1>3. NotByStaff(q) => NotByStaff(r)
  BY <1>0, IdempotentFields, Zenon DEF NotByStaff
<1>4. KeptPrivate(q) => KeptPrivate(r)
  BY <1>0, <1>2, IdempotentFields, Zenon DEF KeptPrivate
<1> QED
  BY <1>1, <1>2, <1>3, <1>4

\* Whatever is not stored in the end, and whatever needs an account, may be somebody's.
Half(route) == route \in RouteFields /\ Declared(route) /\ NotByStaff(route)

\* The routes of anyone, but for what is not stored in the end.
LEMMA HalfOpen == Half(open) /\ Half(private(open)) /\ Half(noStaff(purchase(open))) /\ RouteOK(open)
<1>1. purchase(open) \in RouteFields /\ Declared(purchase(open))
  BY OpenIs, PurchaseIs
<1>2. Half(noStaff(purchase(open)))
  BY <1>1, BoughtIs DEF Half
<1> QED
  BY <1>2, OpenIs, PrivateIs DEF Half, RouteOK

\* A route that is not stored, or is checked, is a good one.
LEMMA HalfBecomesWhole ==
  ASSUME NEW q, Half(q)
  PROVE  RouteOK(unstored(q)) /\ (Checked(q) => RouteOK(q))
  BY UnstoredIs DEF Half, RouteOK, KeptPrivate

\* A limit keeps both.
LEMMA HalfLimited ==
  ASSUME NEW q, NEW names \in SUBSET Limits
  PROVE  /\ Half(q) => Half(limited(names, q)) /\ (Checked(q) <=> Checked(limited(names, q)))
         /\ RouteOK(q) => RouteOK(limited(names, q))
  BY LimitedIs DEF Half, RouteOK

\* So does a key.
LEMMA HalfIdempotent ==
  ASSUME NEW q, NEW scope \in {"CART", "USER"}, scope = "USER" => Checked(q)
  PROVE  /\ Half(q) => Half(idempotent(scope, q))
         /\ RouteOK(q) => RouteOK(idempotent(scope, q))
  BY IdempotentIs DEF Half, RouteOK

\* A customer who is signed in may buy.
LEMMA WholePurchase ==
  RouteOK(noStaff(purchase(signedIn("any")))) /\ Checked(noStaff(purchase(signedIn("any"))))
<1>1. RouteOK(signedIn("any")) /\ Checked(signedIn("any"))
  BY SignedInIs
<1>2. LET p == purchase(signedIn("any")) IN p \in RouteFields /\ Declared(p) /\ Checked(p)
  BY <1>1, PurchaseIs DEF RouteOK
<1>3. LET r == noStaff(purchase(signedIn("any"))) IN Half(r) /\ Checked(r)
  BY <1>2, BoughtIs DEF Half
<1> QED
  BY <1>3, HalfBecomesWhole

\* Every route of every controller is a good one.
LEMMA RoutesAreGood == \A route \in Routes : RouteOK(route)
<1>1. \A route \in CatalogController : RouteOK(route)
  BY HalfOpen DEF CatalogController
<1>2. \A route \in AdminBrandsController : RouteOK(route)
  BY NeedsIs DEF AdminBrandsController, PermissionCodes
<1>3. \A route \in AdminCategoriesController : RouteOK(route)
  BY NeedsIs DEF AdminCategoriesController, PermissionCodes
<1>4. \A route \in AdminProductsController : RouteOK(route)
  BY NeedsIs, HalfLimited DEF AdminProductsController, PermissionCodes, Limits
<1>5. \A route \in AdminProductVariants : RouteOK(route)
  BY NeedsIs DEF AdminProductVariants, PermissionCodes
<1>6. \A route \in AdminProductImagesController : RouteOK(route)
  BY NeedsIs DEF AdminProductImagesController, PermissionCodes
<1>7. \A route \in AdminProductImportsController : RouteOK(route)
  BY NeedsIs DEF AdminProductImportsController, PermissionCodes
<1>8. \A route \in AdminVariantsController : RouteOK(route)
  BY NeedsIs DEF AdminVariantsController, PermissionCodes
<1>9. \A route \in AdminPricingController : RouteOK(route)
  BY NeedsIs DEF AdminPricingController, PermissionCodes
<1>10. \A route \in AdminStockController : RouteOK(route)
  BY NeedsIs DEF AdminStockController, PermissionCodes
<1>11. \A route \in AdminWarehousesController : RouteOK(route)
  BY NeedsIs DEF AdminWarehousesController, PermissionCodes
<1>12. \A route \in AdminReceiptImportsController : RouteOK(route)
  BY NeedsIs DEF AdminReceiptImportsController, PermissionCodes
<1>13. \A route \in CartsController : RouteOK(route)
  BY HalfOpen, HalfBecomesWhole DEF CartsController
<1>14. \A route \in MeCartController : RouteOK(route)
  BY WholePurchase DEF MeCartController
<1>15. \A route \in CheckoutController : RouteOK(route)
  BY HalfOpen, HalfBecomesWhole DEF CheckoutController
<1>16. \A route \in MeCheckoutController : RouteOK(route)
  BY WholePurchase DEF MeCheckoutController
<1>17. \A route \in OrdersController : RouteOK(route)
  BY HalfOpen, HalfBecomesWhole, HalfLimited, HalfIdempotent DEF OrdersController, Limits
<1>18. \A route \in MeOrdersController : RouteOK(route)
  <2> DEFINE buy == noStaff(purchase(signedIn("any")))
  <2>1. {"place-order"} \in SUBSET Limits
    BY DEF Limits
  <2>2. RouteOK(buy) /\ Checked(buy) /\ Half(buy)
    BY WholePurchase DEF RouteOK, Half
  <2> HIDE DEF buy
  <2>3. RouteOK(limited({"place-order"}, buy)) /\ Checked(limited({"place-order"}, buy))
    BY <2>1, <2>2, HalfLimited
  <2>4. RouteOK(idempotent("USER", limited({"place-order"}, buy))) /\ RouteOK(idempotent("USER", buy))
    BY <2>2, <2>3, HalfIdempotent
  <2> QED
    BY <2>2, <2>4, SignedInIs DEF MeOrdersController, buy
<1>19. \A route \in AdminOrdersController : RouteOK(route)
  BY NeedsIs, HalfLimited, HalfIdempotent DEF PermissionCodes, Limits, RouteOK, Half, AdminOrdersController
<1>20. \A route \in AdminOrderChanges : RouteOK(route)
  BY NeedsIs, HalfIdempotent DEF AdminOrderChanges, PermissionCodes
<1>21. \A route \in AdminStoreProfileController : RouteOK(route)
  BY NeedsIs DEF AdminStoreProfileController, PermissionCodes
<1>22. \A route \in AdminPaymentsController : RouteOK(route)
  BY NeedsIs DEF AdminPaymentsController, PermissionCodes
<1>23. \A route \in AdminPaymentSettingsController : RouteOK(route)
  BY NeedsIs DEF AdminPaymentSettingsController, PermissionCodes
<1>24. \A route \in AdminShippingMethodController : RouteOK(route)
  BY NeedsIs DEF AdminShippingMethodController, PermissionCodes
<1>25. \A route \in AdminShipmentsController : RouteOK(route)
  BY NeedsIs DEF AdminShipmentsController, PermissionCodes
<1>26. \A route \in AdminShipmentChanges : RouteOK(route)
  BY NeedsIs DEF AdminShipmentChanges, PermissionCodes
<1>27. \A route \in AdminPromotionsController : RouteOK(route)
  BY NeedsIs DEF AdminPromotionsController, PermissionCodes
<1>28. \A route \in AdminWorkOrdersController : RouteOK(route)
  BY NeedsIs, HalfIdempotent DEF AdminWorkOrdersController, PermissionCodes
<1>29. \A route \in AdminWorkOrderChanges : RouteOK(route)
  BY NeedsIs DEF AdminWorkOrderChanges, PermissionCodes
<1>30. \A route \in AuthController : RouteOK(route)
  BY SignedInIs, HalfOpen, HalfBecomesWhole, HalfLimited DEF AuthController, Limits
<1>31. \A route \in MeController : RouteOK(route)
  BY SignedInIs, HalfLimited DEF MeController, Limits
<1>32. \A route \in MeAddressesController : RouteOK(route)
  BY SignedInIs DEF MeAddressesController
<1>33. \A route \in AdminCustomersController : RouteOK(route)
  BY NeedsIs DEF AdminCustomersController, PermissionCodes
<1>34. \A route \in AnonymizationsController : RouteOK(route)
  BY NeedsIs DEF AnonymizationsController, PermissionCodes
<1>35. \A route \in AdminStaffController : RouteOK(route)
  BY NeedsIs DEF AdminStaffController, PermissionCodes
<1>36. \A route \in AdminRolesController : RouteOK(route)
  BY NeedsIs DEF AdminRolesController, PermissionCodes
<1>37. \A route \in AdminAuditController : RouteOK(route)
  BY NeedsIs DEF AdminAuditController, PermissionCodes
<1>38. \A route \in EventDeliveriesController : RouteOK(route)
  BY NeedsIs DEF EventDeliveriesController, PermissionCodes
<1>39. \A route \in RetentionPolicyController : RouteOK(route)
  BY HalfOpen DEF RetentionPolicyController
<1>40. \A route \in GeoCatalogController : RouteOK(route)
  BY HalfOpen DEF GeoCatalogController
<1> QED
  BY <1>1, <1>2, <1>3, <1>4, <1>5, <1>6, <1>7, <1>8, <1>9, <1>10, <1>11, <1>12, <1>13, <1>14, <1>15, <1>16, <1>17, <1>18, <1>19, <1>20, <1>21, <1>22, <1>23, <1>24, <1>25, <1>26, <1>27, <1>28, <1>29, <1>30, <1>31, <1>32, <1>33, <1>34, <1>35, <1>36, <1>37, <1>38, <1>39, <1>40
     DEF Routes

------------------------------------------------------------------------------
(* What is known of the account and of the request.                         *)

VisitFields == {"at", "token", "changes", "user", "session", "route", "body", "keys", "scope", "noStore", "answer"}
Places == {"none", "authenticating", "limiting", "authorizing", "handling", "answered"}

\* A row of the account that was read while the request was authenticated.
WasSeen(u, a, s) ==
  u \in AccountRows /\ u.type = a.type /\ standing(u) \cup powers(u) \subseteq s.once /\ s.always \subseteq standing(u)

\* What was read of the account so far.
Reading(v, a, s) ==
  /\ v.token
  /\ v.user = Anyone \/ WasSeen(v.user, a, s)
  /\ v.session = "active" => "session" \in s.once
  /\ v.session # "unread" /\ v.session # "active" => "session" \notin s.always

\* A permission of the superadmin only, or of a role that was the account's.
Granted(u, a, s) ==
  \A code \in u.permissions :
    /\ a.type = "STAFF"
    /\ SuperadminRole \in s.once \/ (code \notin SUPERADMIN_ONLY_PERMISSIONS /\ {"any role", code} \subseteq s.once)

\* Who the request was found to be of.
MissedOut(v, s) == v.token => ~({"canSignIn", "session"} \subseteq s.always)
IsOf(v, a, s) ==
  /\ v.user \in SignedIn /\ v.token /\ {"canSignIn", "session"} \subseteq s.once /\ v.user.type = a.type
  /\ "mustChange" \in s.always => v.user.mustChange
  /\ Granted(v.user, a, s)
Known(v, a, s) == IF v.user = Anyone THEN MissedOut(v, s) ELSE IsOf(v, a, s)

\* Its route, and what was counted of it.
KeysAreCounted(v) == v.keys = {<<name, rateLimitKey(name, v.user, v.body)>> : name \in v.route.limits}
Routed(v) == RouteOK(v.route) /\ KeysAreCounted(v)

Admitted(v) == authorization(v.route, v.user) = "none" /\ (Checked(v.route) => v.noStore)
Handled(v) ==
  /\ authorization(v.route, v.user) = "none" /\ ~isStaffPurchase(v.route, v.user) /\ v.body
  /\ Checked(v.route) \/ v.route.noStore => v.noStore
  /\ v.scope = scopeOf(v.route, v.user, v.body)
DeniedOnce(v, n) == n <= IF v.answer \in {"forbidden", "password-change-required"} /\ v.route.path = "admin" THEN 1 ELSE 0

AccountInv == account \in AccountRows /\ WasSeen(account, account, since)
FrontDoorInv ==
  /\ AccountInv
  /\ DOMAIN visit = VisitFields /\ visit.at \in Places
  /\ visit.at = "authenticating" => Reading(visit, account, since)
  /\ visit.at \in {"limiting", "authorizing", "handling", "answered"} => Known(visit, account, since)
  /\ visit.at \in {"authorizing", "handling", "answered"} => Routed(visit)
  /\ visit.at = "handling" => Admitted(visit)
  /\ visit.at = "answered" => visit.answer # "undeclared" /\ (visit.answer = "handled" => Handled(visit)) /\ DeniedOnce(visit, denials)
  /\ visit.at # "answered" => visit.answer = "none" /\ denials = 0

\* No request has come yet.
LEMMA FrontDoorStart == FrontDoorInit => FrontDoorInv
<1> SUFFICES ASSUME FrontDoorInit
             PROVE  FrontDoorInv
  OBVIOUS
<1>1. AccountInv
  BY DEF FrontDoorInit, AccountInv, WasSeen
<1>2. DOMAIN NoVisit = VisitFields /\ NoVisit.at = "none" /\ NoVisit.answer = "none"
  BY DEF NoVisit, VisitFields
<1> QED
  BY <1>1, <1>2 DEF FrontDoorInit, FrontDoorInv, Places

\* A change of the account: what was true at some time grows, what was true all the time shrinks.
LEMMA ChangeKeeps ==
  ASSUME FrontDoorInv, NEW new \in AccountRows, new.type = account.type, changeAccount(new)
  PROVE  FrontDoorInv'
<1>1. /\ account' = new /\ denials' = denials /\ visit.at = "authenticating"
      /\ since' = [once |-> since.once \cup standing(new) \cup powers(new), always |-> since.always \cap standing(new)]
      /\ visit' = [visit EXCEPT !.changes = @ + 1]
  BY DEF changeAccount
<1>2. /\ since'.once = since.once \cup standing(new) \cup powers(new)
      /\ since'.always = since.always \cap standing(new)
  BY <1>1
<1>3. /\ DOMAIN visit' = VisitFields /\ visit'.at = visit.at /\ visit'.token = visit.token /\ visit'.user = visit.user
      /\ visit'.session = visit.session /\ visit'.answer = visit.answer
  BY <1>1 DEF FrontDoorInv, VisitFields
<1>4. WasSeen(new, new, since')
  BY <1>2 DEF WasSeen
<1>5. Reading(visit, account, since) /\ AccountInv /\ visit.answer = "none" /\ denials = 0
  BY <1>1 DEF FrontDoorInv
<1>6. visit.user = Anyone \/ WasSeen(visit.user, new, since')
  BY <1>2, <1>5 DEF Reading, WasSeen
<1>7. Reading(visit', new, since')
  BY <1>2, <1>3, <1>5, <1>6 DEF Reading
<1>8. AccountInv'
  BY <1>1, <1>4 DEF AccountInv
<1> QED
  BY <1>1, <1>3, <1>5, <1>7, <1>8 DEF FrontDoorInv, Places

\* Every change leaves an account of the same type.
LEMMA AccountChanges ==
  ASSUME AccountInv,
         suspendAccount \/ reactivateAccount \/ endSession \/ replaceRolesOf \/ replacePermissions \/ changePasswordOf
  PROVE  \E new \in AccountRows : new.type = account.type /\ changeAccount(new)
<1>0. account \in AccountRows
  BY DEF AccountInv
<1> DEFINE Staff == [type : {"STAFF"}, roles : RoleSets, grants : RoleGrants, canSignIn : BOOLEAN, mustChange : BOOLEAN, session : BOOLEAN]
           Customers == [type : {"CUSTOMER"}, roles : {{}}, grants : {{}}, canSignIn : BOOLEAN, mustChange : {FALSE}, session : BOOLEAN]
<1>1. AccountRows = Staff \cup Customers
  BY DEF AccountRows
<1>2. CASE suspendAccount
  <2> DEFINE new == [account EXCEPT !.canSignIn = FALSE, !.session = FALSE]
  <2>1. new \in Staff \cup Customers /\ new.type = account.type
    BY <1>0, <1>1, Zenon
  <2> QED
    BY <1>1, <1>2, <2>1, Zenon DEF suspendAccount
<1>3. CASE reactivateAccount
  <2> DEFINE new == [account EXCEPT !.canSignIn = TRUE]
  <2>1. new \in Staff \cup Customers /\ new.type = account.type
    BY <1>0, <1>1, Zenon
  <2> QED
    BY <1>1, <1>3, <2>1, Zenon DEF reactivateAccount
<1>4. CASE endSession
  <2> DEFINE new == [account EXCEPT !.session = FALSE]
  <2>1. new \in Staff \cup Customers /\ new.type = account.type
    BY <1>0, <1>1, Zenon
  <2> QED
    BY <1>1, <1>4, <2>1, Zenon DEF endSession
<1>5. CASE replaceRolesOf
  <2>1. PICK roles \in RoleSets : changeAccount([account EXCEPT !.roles = roles])
    BY <1>5 DEF replaceRolesOf
  <2> DEFINE new == [account EXCEPT !.roles = roles]
  <2>2. account \in Staff
    BY <1>0, <1>1, <1>5 DEF replaceRolesOf
  <2>3. new \in Staff /\ new.type = account.type
    BY <2>2
  <2> QED
    BY <1>1, <2>1, <2>3
<1>6. CASE replacePermissions
  <2>1. PICK grants \in RoleGrants : changeAccount([account EXCEPT !.grants = grants])
    BY <1>6 DEF replacePermissions
  <2> DEFINE new == [account EXCEPT !.grants = grants]
  <2>2. account \in Staff
    BY <1>0, <1>1, <1>6 DEF replacePermissions
  <2>3. new \in Staff /\ new.type = account.type
    BY <2>2
  <2> QED
    BY <1>1, <2>1, <2>3
<1>7. CASE changePasswordOf
  <2> DEFINE new == [account EXCEPT !.mustChange = FALSE]
  <2>1. new \in Staff \cup Customers /\ new.type = account.type
    BY <1>0, <1>1, Zenon
  <2> QED
    BY <1>1, <1>7, <2>1, Zenon DEF changePasswordOf
<1> QED
  BY <1>2, <1>3, <1>4, <1>5, <1>6, <1>7

\* A request comes, with a token or without.
LEMMA ArriveKeeps ==
  ASSUME FrontDoorInv, NEW token \in BOOLEAN, arrive(token)
  PROVE  FrontDoorInv'
<1>1. /\ visit = NoVisit /\ account' = account /\ since' = since /\ denials' = denials
      /\ visit' = [visit EXCEPT !.at = IF token THEN "authenticating" ELSE "limiting", !.token = token]
  BY DEF arrive
<1>2. visit.at = "none" /\ visit.user = Anyone /\ visit.session = "unread" /\ visit.answer = "none"
  BY <1>1 DEF NoVisit
<1>3. DOMAIN visit = VisitFields /\ AccountInv /\ denials = 0
  BY <1>2 DEF FrontDoorInv
<1>4. AccountInv'
  BY <1>1, <1>3 DEF AccountInv
<1>5. CASE token
  BY <1>1, <1>5, Zenon, <1>2, <1>3, <1>4 DEF VisitFields, Reading, FrontDoorInv, Places
<1>6. CASE ~token
  BY <1>1, <1>6, Zenon, <1>2, <1>3, <1>4 DEF VisitFields, Known, MissedOut, FrontDoorInv, Places
<1> QED
  BY <1>5, <1>6

\* The user is read.
LEMMA FindUserKeeps ==
  ASSUME FrontDoorInv, findUser
  PROVE  FrontDoorInv'
<1>1. /\ visit.at = "authenticating" /\ account' = account /\ since' = since /\ denials' = denials
      /\ visit' = [visit EXCEPT !.user = account]
  BY DEF findUser
<1>2. /\ DOMAIN visit = VisitFields /\ Reading(visit, account, since) /\ AccountInv /\ visit.answer = "none" /\ denials = 0
  BY <1>1 DEF FrontDoorInv
<1>3. /\ DOMAIN visit' = VisitFields /\ visit'.at = "authenticating" /\ visit'.token = visit.token /\ visit'.user = account
      /\ visit'.session = visit.session /\ visit'.answer = "none"
  BY <1>1, <1>2 DEF VisitFields
<1>4. Reading(visit', account', since')
  BY <1>1, <1>2, <1>3 DEF Reading, AccountInv
<1>5. AccountInv'
  BY <1>1, <1>2 DEF AccountInv
<1> QED
  BY <1>1, <1>2, <1>3, <1>4, <1>5 DEF FrontDoorInv, Places

\* The session is read.
LEMMA ActiveKeeps ==
  ASSUME FrontDoorInv, isActive
  PROVE  FrontDoorInv'
<1>1. /\ visit.at = "authenticating" /\ account' = account /\ since' = since /\ denials' = denials
      /\ visit' = [visit EXCEPT !.session = IF account.session THEN "active" ELSE "ended"]
  BY DEF isActive
<1>2. /\ DOMAIN visit = VisitFields /\ Reading(visit, account, since) /\ AccountInv /\ visit.answer = "none" /\ denials = 0
  BY <1>1 DEF FrontDoorInv
<1>3. /\ DOMAIN visit' = VisitFields /\ visit'.at = "authenticating" /\ visit'.token = visit.token /\ visit'.user = visit.user
      /\ visit'.answer = "none" /\ visit'.session = (IF account.session THEN "active" ELSE "ended")
  BY <1>1, <1>2 DEF VisitFields
<1>4. "session" \in standing(account) <=> account.session
  BY DEF standing
<1>5. standing(account) \subseteq since.once /\ since.always \subseteq standing(account)
  BY <1>2 DEF AccountInv, WasSeen
<1>6. visit'.session = "active" => "session" \in since.once
  BY <1>3, <1>4, <1>5
<1>7. visit'.session # "unread" /\ visit'.session # "active" => "session" \notin since.always
  BY <1>3, <1>4, <1>5
<1>8. Reading(visit', account', since')
  BY <1>1, <1>2, <1>3, <1>6, <1>7 DEF Reading
<1>9. AccountInv'
  BY <1>1, <1>2 DEF AccountInv
<1> QED
  BY <1>1, <1>2, <1>3, <1>8, <1>9 DEF FrontDoorInv, Places

\* What the roles of a row that was read grant by now was the account's at some time.
LEMMA PermissionsAreTheirs ==
  ASSUME AccountInv, NEW u, WasSeen(u, account, since)
  PROVE  /\ effectivePermissions(u) \in SUBSET PERMISSION_CODES
         /\ \A code \in effectivePermissions(u) :
              /\ account.type = "STAFF"
              /\ SuperadminRole \in since.once
                 \/ (code \notin SUPERADMIN_ONLY_PERMISSIONS /\ {"any role", code} \subseteq since.once)
<1>1. u.type = account.type /\ powers(u) \subseteq since.once /\ powers(account) \subseteq since.once /\ account \in AccountRows
  BY DEF WasSeen, AccountInv
<1>2. CASE u.type # "STAFF" \/ u.roles = {}
  BY <1>2 DEF effectivePermissions
<1>3. CASE u.type = "STAFF" /\ u.roles # {} /\ SuperadminRole \in u.roles
  BY <1>3, <1>1 DEF effectivePermissions, powers
<1>4. CASE u.type = "STAFF" /\ u.roles # {} /\ SuperadminRole \notin u.roles
  BY <1>4, <1>1, FrontDoorAssumption DEF effectivePermissions, AccountRows, powers
<1> QED
  BY <1>2, <1>3, <1>4

\* The roles are read, and the request is of somebody or of nobody.
LEMMA ResolveKeeps ==
  ASSUME FrontDoorInv, resolve
  PROVE  FrontDoorInv'
<1> DEFINE who == signedInAs(visit.user, visit.session)
<1>1. /\ visit.at = "authenticating" /\ visit.user # Anyone /\ visit.session # "unread"
      /\ account' = account /\ since' = since /\ denials' = denials
      /\ visit' = [visit EXCEPT !.at = "limiting", !.changes = 0, !.session = "unread", !.user = who]
  BY DEF resolve
<1>2. /\ DOMAIN visit = VisitFields /\ Reading(visit, account, since) /\ AccountInv /\ visit.answer = "none" /\ denials = 0
  BY <1>1 DEF FrontDoorInv
<1>3. /\ DOMAIN visit' = VisitFields /\ visit'.at = "limiting" /\ visit'.token = visit.token /\ visit'.user = who /\ visit'.answer = "none"
  <2> HIDE DEF who
  <2> QED
    BY <1>1, <1>2 DEF VisitFields
<1> DEFINE u == visit.user
<1>4. WasSeen(u, account, since) /\ visit.token
  BY <1>1, <1>2 DEF Reading
<1>5. u \in AccountRows /\ u.type = account.type /\ standing(u) \subseteq since.once /\ since.always \subseteq standing(u)
  BY <1>4 DEF WasSeen
<1>6. ("canSignIn" \in standing(u) <=> u.canSignIn) /\ ("mustChange" \in standing(u) <=> u.mustChange)
  BY DEF standing
<1>7. u.type \in {"STAFF", "CUSTOMER"} /\ u.mustChange \in BOOLEAN
  BY <1>5 DEF AccountRows
<1>8. ASSUME ~u.canSignIn \/ visit.session # "active"
      PROVE  Known(visit', account', since')
  BY <1>8, <1>1, <1>2, <1>3, <1>5, <1>6 DEF signedInAs, MissedOut, Reading, Known
<1>9. ASSUME ~(~u.canSignIn \/ visit.session # "active")
      PROVE  Known(visit', account', since')
  <2> DEFINE p == effectivePermissions(u)
             t == u.type
             m == u.mustChange
  <2>1. who = [type |-> t, mustChange |-> m, permissions |-> p]
    BY <1>9 DEF signedInAs
  <2>2. p \in SUBSET PERMISSION_CODES /\ t \in {"STAFF", "CUSTOMER"} /\ m \in BOOLEAN
    BY <1>2, <1>4, <1>7, PermissionsAreTheirs
  <2>3. t = account.type
    BY <1>5
  <2>4. "mustChange" \in since.always => m
    BY <1>5, <1>6
  <2>5. \A code \in p :
          /\ account.type = "STAFF"
          /\ SuperadminRole \in since.once
             \/ (code \notin SUPERADMIN_ONLY_PERMISSIONS /\ {"any role", code} \subseteq since.once)
    BY <1>2, <1>4, PermissionsAreTheirs
  <2>6. {"canSignIn", "session"} \subseteq since.once
    BY <1>2, <1>5, <1>6, <1>9 DEF Reading
  <2> HIDE DEF p, t, m
  <2>7. who \in SignedIn /\ who.type = t /\ who.permissions = p
    BY <2>1, <2>2 DEF SignedIn
  <2>8. who.mustChange = m
    BY <2>1
  <2>9. who # Anyone
    BY <2>7, FrontDoorAssumption
  <2> HIDE DEF who
  <2>10. Granted(visit'.user, account', since')
    BY <1>1, <1>3, <2>5, <2>7 DEF Granted
  <2>11. "mustChange" \in since'.always => visit'.user.mustChange
    BY <1>1, <1>3, <2>4, <2>8
  <2>12. IsOf(visit', account', since')
    BY <1>1, <1>3, <1>4, <2>3, <2>6, <2>7, <2>10, <2>11 DEF IsOf
  <2> QED
    BY <1>3, <2>9, <2>12 DEF Known
<1>10. Known(visit', account', since')
  BY <1>8, <1>9
<1>11. AccountInv'
  BY <1>1, <1>2 DEF AccountInv
<1> HIDE DEF who
<1> QED
  BY <1>1, <1>2, <1>3, <1>10, <1>11 DEF FrontDoorInv, Places

\* A request is counted with all limits of its route.
LEMMA RateLimitKeeps ==
  ASSUME FrontDoorInv, NEW route \in Routes, NEW body \in BOOLEAN, rateLimit(route, body)
  PROVE  FrontDoorInv'
<1> DEFINE keys == {<<name, rateLimitKey(name, visit.user, body)>> : name \in route.limits}
<1>1. /\ visit.at = "limiting" /\ account' = account /\ since' = since /\ denials' = denials
      /\ \/ visit' = [visit EXCEPT !.at = "authorizing", !.route = route, !.body = body, !.keys = keys]
         \/ visit' = [[visit EXCEPT !.at = "answered", !.answer = "rate-limit-exceeded"] EXCEPT !.route = route, !.body = body, !.keys = keys]
  BY Zenon DEF rateLimit, answerWith
<1>2. /\ DOMAIN visit = VisitFields /\ Known(visit, account, since) /\ AccountInv /\ visit.answer = "none" /\ denials = 0
  BY <1>1 DEF FrontDoorInv
<1>3. /\ DOMAIN visit' = VisitFields /\ visit'.token = visit.token /\ visit'.user = visit.user
      /\ visit'.route = route /\ visit'.keys = keys /\ visit'.body = body
  <2> HIDE DEF keys
  <2> QED
    BY <1>1, <1>2 DEF VisitFields
<1>4. \/ visit'.at = "authorizing" /\ visit'.answer = "none"
      \/ visit'.at = "answered" /\ visit'.answer = "rate-limit-exceeded"
  <2> HIDE DEF keys
  <2> QED
    BY <1>1, <1>2 DEF VisitFields
<1>5. Known(visit', account', since')
  BY <1>1, <1>2, <1>3 DEF Known, MissedOut, IsOf
<1>6. KeysAreCounted(visit')
  BY <1>3 DEF KeysAreCounted
<1>7. Routed(visit')
  BY <1>3, <1>6, RoutesAreGood DEF Routed
<1>8. AccountInv'
  BY <1>1, <1>2 DEF AccountInv
<1> HIDE DEF keys
<1>9. CASE visit'.at = "authorizing" /\ visit'.answer = "none"
  BY <1>1, <1>2, <1>3, <1>5, <1>7, <1>8, <1>9 DEF FrontDoorInv, Places
<1>10. CASE visit'.at = "answered" /\ visit'.answer = "rate-limit-exceeded"
  BY <1>1, <1>2, <1>10, <1>3, <1>5, <1>7, <1>8 DEF DeniedOnce, FrontDoorInv, Places
<1> QED
  BY <1>4, <1>9, <1>10

\* The authorization of the route answers or lets the request on.
LEMMA AuthorizeKeeps ==
  ASSUME FrontDoorInv, authorize
  PROVE  FrontDoorInv'
<1> DEFINE problem == authorization(visit.route, visit.user)
           checked == problem # "undeclared" /\ (visit.route.permissions # {} \/ visit.route.account # "none")
<1>1. /\ visit.at = "authorizing" /\ account' = account /\ since' = since
      /\ problem = "none" => visit' = [[visit EXCEPT !.at = "handling"] EXCEPT !.noStore = checked]
      /\ problem # "none" => visit' = [[visit EXCEPT !.at = "answered", !.answer = problem] EXCEPT !.noStore = checked]
      /\ auditDeniedAccess(visit.route, problem)
  BY Zenon DEF authorize, answerWith
<1>2. /\ DOMAIN visit = VisitFields /\ Known(visit, account, since) /\ AccountInv /\ visit.answer = "none" /\ denials = 0
      /\ Routed(visit)
  BY <1>1 DEF FrontDoorInv
<1>3. problem # "undeclared"
  BY <1>2 DEF authorization, Routed, RouteOK, Declared
<1>4. problem # "handled"
  BY DEF authorization
<1>5. Checked(visit.route) => checked
  BY <1>3 DEF Checked
<1>6. denials' = 0 \/ (denials' = 1 /\ visit.route.path = "admin" /\ problem \in {"forbidden", "password-change-required"})
  <2> HIDE DEF problem
  <2> QED
    BY <1>1, <1>2 DEF auditDeniedAccess
<1> HIDE DEF problem, checked
<1>7. /\ DOMAIN visit' = VisitFields /\ visit'.token = visit.token /\ visit'.user = visit.user
      /\ visit'.route = visit.route /\ visit'.keys = visit.keys /\ visit'.body = visit.body /\ visit'.noStore = checked
  BY <1>1, <1>2 DEF VisitFields
<1>8. Known(visit', account', since')
  BY <1>1, <1>2, <1>7 DEF Known, MissedOut, IsOf
<1>9. Routed(visit')
  BY <1>2, <1>7 DEF Routed, KeysAreCounted
<1>10. AccountInv'
  BY <1>1, <1>2 DEF AccountInv
<1>11. CASE problem = "none"
  <2>1. visit'.at = "handling" /\ visit'.answer = "none"
    BY <1>1, <1>2, <1>11 DEF VisitFields
  <2>2. Admitted(visit')
    BY <1>5, <1>7, <1>11 DEF Admitted, problem
  <2>3. denials' = 0
    BY <1>6, <1>11
  <2> QED
    BY <1>1, <1>7, <1>8, <1>9, <1>10, <2>1, <2>2, <2>3 DEF FrontDoorInv, Places
<1>12. CASE problem # "none"
  <2>1. visit'.at = "answered" /\ visit'.answer = problem
    BY <1>1, <1>2, <1>12 DEF VisitFields
  <2>2. DeniedOnce(visit', denials')
    BY <1>6, <1>7, <2>1 DEF DeniedOnce
  <2> QED
    BY <1>1, <1>3, <1>4, <1>7, <1>8, <1>9, <1>10, <2>1, <2>2 DEF FrontDoorInv, Places
<1> QED
  BY <1>11, <1>12

\* The handler answers.
LEMMA HandlerKeeps ==
  ASSUME FrontDoorInv, runHandler
  PROVE  FrontDoorInv'
<1>1. /\ visit.at = "handling" /\ account' = account /\ since' = since /\ denials' = denials
  BY DEF runHandler
<1>2. /\ DOMAIN visit = VisitFields /\ Known(visit, account, since) /\ AccountInv /\ denials = 0
      /\ Routed(visit) /\ Admitted(visit)
  BY <1>1 DEF FrontDoorInv
<1>3. AccountInv'
  BY <1>1, <1>2 DEF AccountInv
<1>4. CASE isStaffPurchase(visit.route, visit.user)
  <2>1. visit' = [visit EXCEPT !.at = "answered", !.answer = "staff-cannot-purchase"]
    BY <1>4, Zenon DEF runHandler, answerWith
  <2>2. /\ DOMAIN visit' = VisitFields /\ visit'.token = visit.token /\ visit'.user = visit.user
        /\ visit'.route = visit.route /\ visit'.keys = visit.keys /\ visit'.body = visit.body
        /\ visit'.at = "answered" /\ visit'.answer = "staff-cannot-purchase"
    BY <1>2, <2>1 DEF VisitFields
  <2>3. Known(visit', account', since') /\ Routed(visit')
    BY <1>1, <1>2, <2>2 DEF Known, MissedOut, IsOf, Routed, KeysAreCounted
  <2>4. DeniedOnce(visit', denials')
    BY <1>1, <1>2, <2>2 DEF DeniedOnce
  <2> QED
    BY <1>1, <1>3, <2>2, <2>3, <2>4 DEF FrontDoorInv, Places
<1>5. CASE ~isStaffPurchase(visit.route, visit.user)
  <2> DEFINE told == IF visit.body THEN "handled" ELSE "validation-error"
             hidden == visit.noStore \/ visit.route.noStore
             scope == scopeOf(visit.route, visit.user, visit.body)
  <2>1. visit' = [[visit EXCEPT !.at = "answered", !.answer = told] EXCEPT !.noStore = @ \/ visit.route.noStore, !.scope = scope]
    BY <1>5, Zenon DEF runHandler, answerWith
  <2>2. visit' = [[visit EXCEPT !.at = "answered", !.answer = told] EXCEPT !.noStore = hidden, !.scope = scope]
    <3>1. [visit EXCEPT !.at = "answered", !.answer = told].noStore = visit.noStore
      <4> HIDE DEF told
      <4> QED
        BY <1>2 DEF VisitFields
    <3> QED
      BY <2>1, <3>1
  <2> HIDE DEF told, hidden, scope
  <2>3. /\ DOMAIN visit' = VisitFields /\ visit'.token = visit.token /\ visit'.user = visit.user
        /\ visit'.route = visit.route /\ visit'.keys = visit.keys /\ visit'.body = visit.body
        /\ visit'.at = "answered" /\ visit'.answer = told /\ visit'.noStore = hidden /\ visit'.scope = scope
    BY <1>2, <2>2 DEF VisitFields
  <2>4. Known(visit', account', since') /\ Routed(visit')
    BY <1>1, <1>2, <2>3 DEF Known, MissedOut, IsOf, Routed, KeysAreCounted
  <2>5. told \in {"handled", "validation-error"} /\ (told = "handled" => visit.body)
    BY DEF told
  <2>6. DeniedOnce(visit', denials')
    BY <1>1, <1>2, <2>3, <2>5 DEF DeniedOnce
  <2>7. ASSUME told = "handled"
        PROVE  Handled(visit')
    BY <1>2, <1>5, <2>3, <2>5, <2>7 DEF Admitted, hidden, Handled, scope
  <2> QED
    BY <1>1, <1>3, <2>3, <2>4, <2>5, <2>6, <2>7 DEF FrontDoorInv, Places
<1> QED
  BY <1>4, <1>5

\* What the authorization of a good route means.
LEMMA AuthorizedMeans ==
  ASSUME NEW r, RouteOK(r), NEW u, authorization(r, u) = "none", Checked(r)
  PROVE  /\ u # Anyone
         /\ u.mustChange => r.account = "pending"
         /\ r.permissions # {} => u.type = "STAFF" /\ r.permissions \subseteq u.permissions
         /\ r.account = "customer" => u.type = "CUSTOMER"
<1>1. u # Anyone
  BY DEF authorization, RouteOK, Declared, Checked
<1>2. u.mustChange => r.account = "pending"
  BY <1>1 DEF authorization, RouteOK, Declared, Checked
<1>3. (u.mustChange /\ r.account # "pending") \/ ~(r.permissions # {} /\ ~(u.type = "STAFF" /\ r.permissions \subseteq u.permissions))
  BY <1>1 DEF authorization, RouteOK, Declared, Checked
<1>4. r.permissions # {} => u.type = "STAFF" /\ r.permissions \subseteq u.permissions
  BY <1>2, <1>3
<1>5. r.account = "customer" => u.type = "CUSTOMER"
  BY <1>1, <1>2, <1>4 DEF authorization, RouteOK, Declared, Checked
<1> QED
  BY <1>1, <1>2, <1>4, <1>5

\* A limit that names the account counts whoever is signed in by it.
LEMMA UserCounts ==
  ASSUME NEW name \in Limits, NEW u, u # Anyone, NEW body, "user" \in Range(RATE_LIMITS[name])
  PROVE  rateLimitKey(name, u, body) = "user"
<1> DEFINE keyFields == RATE_LIMITS[name]
           has(aField) == IF aField = "user" THEN u # Anyone ELSE body
           first == {i \in DOMAIN keyFields : has(keyFields[i]) /\ \A j \in 1..(i - 1) : ~has(keyFields[j])}
<1>1. name \in {"email-verification", "place-order", "admin-place-order", "ai-description-draft"}
  <2>1. PICK i \in DOMAIN keyFields : keyFields[i] = "user"
    BY DEF Range
  <2>2. CASE name \in {"register", "password-reset-ip", "guest-order", "order-access-ip"}
    BY <2>2, <2>1 DEF RATE_LIMITS
  <2>3. CASE name = "password-reset-email"
    BY <2>3, <2>1 DEF RATE_LIMITS
  <2>4. CASE name \in {"order-access-email", "place-order-email"}
    BY <2>4, <2>1 DEF RATE_LIMITS
  <2> QED
    BY <2>2, <2>3, <2>4 DEF Limits
<1>2. keyFields[1] = "user" /\ DOMAIN keyFields = 1..2
  <2>1. CASE name = "email-verification"
    BY <2>1 DEF RATE_LIMITS
  <2>2. CASE name \in {"place-order", "admin-place-order", "ai-description-draft"}
    BY <2>2 DEF RATE_LIMITS
  <2> QED
    BY <1>1, <2>1, <2>2
<1>3. rateLimitKey(name, u, body) = IF first = {} THEN "ip" ELSE keyFields[CHOOSE i \in first : TRUE]
  BY DEF rateLimitKey
<1>4. has(keyFields[1])
  BY <1>2
<1> HIDE DEF has, keyFields
<1>5. 1 \in first
  BY <1>2, <1>4
<1>6. \A i \in first : i = 1
  BY <1>2, <1>4
<1> HIDE DEF first
<1> QED
  BY <1>2, <1>3, <1>5, <1>6

\* What is known of a request that is handled is what the guards promise.
LEMMA AdmittedOnly == FrontDoorInv => RequestsAreAdmitted
<1> SUFFICES ASSUME FrontDoorInv
             PROVE  RequestsAreAdmitted
  OBVIOUS
<1>1. ASSUME IsHandled
      PROVE  /\ Handled(visit) /\ RouteOK(visit.route) /\ Known(visit, account, since)
             /\ Checked(visit.route) => visit.user # Anyone /\ IsOf(visit, account, since)
  BY <1>1, AuthorizedMeans DEF IsHandled, FrontDoorInv, Handled, Routed, Known
<1>2. AuthorityIsFresh
  <2> SUFFICES ASSUME IsHandled
               PROVE  /\ visit.route.path # "public" => visit.token /\ {"canSignIn", "session"} \subseteq since.once
                      /\ \A code \in visit.route.permissions :
                           /\ account.type = "STAFF"
                           /\ \/ SuperadminRole \in since.once
                              \/ code \notin SUPERADMIN_ONLY_PERMISSIONS /\ {"any role", code} \subseteq since.once
    BY DEF AuthorityIsFresh
  <2>1. ASSUME visit.route.path # "public"
        PROVE  visit.token /\ {"canSignIn", "session"} \subseteq since.once
    BY <1>1, <2>1 DEF RouteOK, RouteFields, Declared, Checked, Paths, IsOf
  <2>2. ASSUME NEW code \in visit.route.permissions
        PROVE  /\ account.type = "STAFF"
               /\ SuperadminRole \in since.once \/ (code \notin SUPERADMIN_ONLY_PERMISSIONS /\ {"any role", code} \subseteq since.once)
    BY <2>2, <1>1, AuthorizedMeans DEF Checked, IsOf, Handled, Granted
  <2> QED
    BY <2>1, <2>2
<1>3. WhoMayDoWhat
  <2> SUFFICES ASSUME IsHandled, visit.token, {"canSignIn", "session"} \subseteq since.always
               PROVE  /\ account.type = "STAFF" => ~visit.route.buys /\ visit.route.account # "customer"
                      /\ account.type = "CUSTOMER" => visit.route.path # "admin"
                      /\ "mustChange" \in since.always /\ visit.route.path # "public" => visit.route.account = "pending"
    BY DEF WhoMayDoWhat
  <2>1. visit.user # Anyone /\ IsOf(visit, account, since)
    BY <1>1 DEF Known, MissedOut
  <2>2. visit.user.type = account.type /\ ("mustChange" \in since.always => visit.user.mustChange)
    BY <2>1 DEF IsOf
  <2>3. ASSUME account.type = "STAFF"
        PROVE  ~visit.route.buys /\ visit.route.account # "customer"
    BY <1>1, <2>1, <2>2, <2>3, Zenon, AuthorizedMeans DEF Handled, isStaffPurchase, RouteOK, NotByStaff, Checked
  <2>4. ASSUME account.type = "CUSTOMER"
        PROVE  visit.route.path # "admin"
    BY <1>1, <2>2, <2>4, AuthorizedMeans DEF Handled, Checked, RouteOK, Declared
  <2>5. ASSUME "mustChange" \in since.always, visit.route.path # "public"
        PROVE  visit.route.account = "pending"
    BY <1>1, <2>5, <2>2, AuthorizedMeans DEF RouteOK, RouteFields, Declared, Checked, Paths, Handled
  <2> QED
    BY <2>3, <2>4, <2>5
<1>4. EveryRouteIsDeclared
  BY DEF EveryRouteIsDeclared, FrontDoorInv
<1>5. AnswersAreTheirs
  <2>1. ASSUME IsHandled, visit.route.personal
        PROVE  visit.noStore
    BY <1>1, <2>1 DEF Handled, RouteOK, KeptPrivate
  <2>2. ASSUME IsHandled, visit.route.scope # "none"
        PROVE  visit.scope = visit.route.scope
    <3>1. visit.route.scope \in {"USER", "CART"}
      BY <1>1, <2>2 DEF RouteOK, RouteFields, Scopes
    <3>2. visit.body /\ visit.scope = scopeOf(visit.route, visit.user, visit.body)
      BY <1>1, <2>2 DEF Handled
    <3>3. CASE visit.route.scope = "USER"
      BY <1>1, <2>2, <3>3, <3>2 DEF RouteOK, Declared, scopeOf
    <3>4. CASE visit.route.scope = "CART"
      BY <3>2, <3>4 DEF scopeOf
    <3> QED
      BY <3>1, <3>3, <3>4
  <2>3. ASSUME visit.user # Anyone, visit.at \in {"authorizing", "handling", "answered"}, NEW name \in visit.route.limits,
               "user" \in Range(RATE_LIMITS[name])
        PROVE  <<name, "user">> \in visit.keys
    BY <2>3, UserCounts DEF FrontDoorInv, Routed, RouteOK, RouteFields, KeysAreCounted
  <2> QED
    BY <2>1, <2>2, <2>3 DEF AnswersAreTheirs
<1>6. DenialsAreReal
  BY DEF FrontDoorInv, DeniedOnce, DenialsAreReal
<1> QED
  BY <1>2, <1>3, <1>4, <1>5, <1>6 DEF RequestsAreAdmitted

\* A step of a request or of its account keeps what is known of them.
LEMMA FrontDoorStep == FrontDoorInv /\ [FrontDoorNext]_frontDoorVars => FrontDoorInv'
<1> SUFFICES ASSUME FrontDoorInv, [FrontDoorNext]_frontDoorVars
             PROVE  FrontDoorInv'
  OBVIOUS
<1>1. CASE \E token \in BOOLEAN : arrive(token)
  BY <1>1, ArriveKeeps
<1>2. CASE findUser
  BY <1>2, FindUserKeeps
<1>3. CASE isActive
  BY <1>3, ActiveKeeps
<1>4. CASE resolve
  BY <1>4, ResolveKeeps
<1>5. CASE \E route \in Routes : \E body \in BodiesOf(route) : rateLimit(route, body)
  BY <1>5, RateLimitKeeps DEF BodiesOf
<1>6. CASE authorize
  BY <1>6, AuthorizeKeeps
<1>7. CASE runHandler
  BY <1>7, HandlerKeeps
<1>8. CASE suspendAccount \/ reactivateAccount \/ endSession \/ replaceRolesOf \/ replacePermissions \/ changePasswordOf
  BY <1>8, AccountChanges, ChangeKeeps DEF FrontDoorInv
<1>9. CASE UNCHANGED frontDoorVars
  BY <1>9 DEF frontDoorVars, FrontDoorInv, AccountInv
<1> QED
  BY <1>1, <1>2, <1>3, <1>4, <1>5, <1>6, <1>7, <1>8, <1>9 DEF FrontDoorNext

\* Whoever reaches a handler had what it takes since the request came, however often the account changes meanwhile and
\* whatever its roles may grant; what is somebody's is answered as such, and denials are audited once (the guards).
THEOREM RequestsAreAlwaysAdmitted == FrontDoorSpec => []RequestsAreAdmitted
<1>1. FrontDoorInit => FrontDoorInv
  BY FrontDoorStart
<1>2. FrontDoorInv /\ [FrontDoorNext]_frontDoorVars => FrontDoorInv'
  BY FrontDoorStep
<1>3. FrontDoorInv => RequestsAreAdmitted
  BY AdmittedOnly
<1> QED
  BY <1>1, <1>2, <1>3, PTL DEF FrontDoorSpec

------------------------------------------------------------------------------
(* The answers to errors.                                                   *)

\* An error of the domain of which the category and the catalog say the same.
Agrees(error) ==
  /\ error.kind = "domain" /\ error.code \in DOMAIN PROBLEM_TYPES
  /\ CATEGORY_STATUS[error.category] = PROBLEM_TYPES[error.code]

\* The statuses of the catalog.
LEMMA CatalogHas ==
  /\ DOMAIN PROBLEM_TYPES = BadRequests \cup Unauthenticated \cup Refusals \cup Conflicts \cup OtherProblems
  /\ \A code \in BadRequests : PROBLEM_TYPES[code] = 400
  /\ \A code \in Refusals : PROBLEM_TYPES[code] = 403
  /\ \A code \in Conflicts : PROBLEM_TYPES[code] = 409
  /\ PROBLEM_TYPES["not-found"] = 404 /\ PROBLEM_TYPES["payload-too-large"] = 413
  /\ PROBLEM_TYPES["unsupported-media-type"] = 415 /\ PROBLEM_TYPES["internal-error"] = 500
<1> DEFINE S == BadRequests \cup Unauthenticated \cup Refusals \cup Conflicts \cup OtherProblems
<1>1. DOMAIN PROBLEM_TYPES = S
  BY DEF PROBLEM_TYPES
<1>2. \A code \in BadRequests : PROBLEM_TYPES[code] = 400
  BY DEF PROBLEM_TYPES, BadRequests, Unauthenticated, Refusals, Conflicts, OtherProblems
<1>3. \A code \in Refusals : PROBLEM_TYPES[code] = 403
  BY DEF PROBLEM_TYPES, BadRequests, Unauthenticated, Refusals, Conflicts, OtherProblems
<1>4. \A code \in Conflicts : PROBLEM_TYPES[code] = 409
  BY DEF PROBLEM_TYPES, BadRequests, Unauthenticated, Refusals, Conflicts, OtherProblems
<1>5. PROBLEM_TYPES["not-found"] = 404 /\ PROBLEM_TYPES["payload-too-large"] = 413
  BY DEF PROBLEM_TYPES, BadRequests, Unauthenticated, Refusals, Conflicts, OtherProblems
<1>6. PROBLEM_TYPES["unsupported-media-type"] = 415 /\ PROBLEM_TYPES["internal-error"] = 500
  BY DEF PROBLEM_TYPES, BadRequests, Unauthenticated, Refusals, Conflicts, OtherProblems
<1> QED
  BY <1>1, <1>2, <1>3, <1>4, <1>5, <1>6

\* The statuses of the categories.
LEMMA CategoriesHave ==
  /\ CATEGORY_STATUS["invalid"] = 400 /\ CATEGORY_STATUS["forbidden"] = 403 /\ CATEGORY_STATUS["missing"] = 404
  /\ CATEGORY_STATUS["conflict"] = 409 /\ CATEGORY_STATUS["large"] = 413 /\ CATEGORY_STATUS["unsupported"] = 415
  BY DEF CATEGORY_STATUS

\* When an error agrees with the catalog.
LEMMA ErrorFits ==
  ASSUME NEW code \in DOMAIN PROBLEM_TYPES, NEW category, CATEGORY_STATUS[category] = PROBLEM_TYPES[code]
  PROVE  Agrees(DomainError(code, category))
  BY DEF Agrees, DomainError

\* Errors of a value, all with a type of status 400.
LEMMA InvalidFits == ASSUME NEW codes \in SUBSET BadRequests PROVE \A error \in Invalid(codes) : Agrees(error)
  BY CatalogHas, CategoriesHave, ErrorFits DEF Invalid

\* Errors of what is not allowed, all of status 403.
LEMMA ForbiddenFits == ASSUME NEW codes \in SUBSET Refusals PROVE \A error \in Forbidden(codes) : Agrees(error)
  BY CatalogHas, CategoriesHave, ErrorFits DEF Forbidden

\* Errors of a conflict, all of status 409.
LEMMA ConflictFits == ASSUME NEW codes \in SUBSET Conflicts PROVE \A error \in Conflict(codes) : Agrees(error)
  BY CatalogHas, CategoriesHave, ErrorFits DEF Conflict

\* What is missing, too large or unsupported.
LEMMA OthersFit ==
  /\ \A error \in NotFound : Agrees(error)
  /\ \A error \in ImageErrors : Agrees(error)
<1>1. {"not-found", "payload-too-large", "unsupported-media-type"} \subseteq DOMAIN PROBLEM_TYPES
  BY CatalogHas DEF OtherProblems
<1> QED
  BY <1>1, CatalogHas, CategoriesHave, ErrorFits DEF NotFound, ImageErrors

\* Of every error of the domain the category and the catalog say the same.
LEMMA DomainErrorsFit == \A error \in DomainErrors : Agrees(error)
<1>1. \A error \in KernelErrors : Agrees(error)
  BY ConflictFits, InvalidFits, OthersFit DEF BadRequests, Conflicts, KernelErrors
<1>2. \A error \in LinkErrors : Agrees(error)
  BY InvalidFits DEF LinkErrors, BadRequests
<1>3. \A error \in FileErrors : Agrees(error)
  BY InvalidFits DEF FileErrors, BadRequests
<1>4. \A error \in CategoryErrors : Agrees(error)
  BY ConflictFits, InvalidFits DEF Conflicts, BadRequests, CategoryErrors
<1>5. \A error \in ProductErrors : Agrees(error)
  BY ConflictFits, InvalidFits DEF Conflicts, BadRequests, ProductErrors
<1>6. \A error \in GalleryErrors : Agrees(error)
  BY ConflictFits, InvalidFits DEF Conflicts, BadRequests, GalleryErrors
<1>7. \A error \in ImageErrors : Agrees(error)
  BY OthersFit
<1>8. \A error \in CartErrors : Agrees(error)
  BY ConflictFits, InvalidFits DEF Conflicts, BadRequests, CartErrors
<1>9. \A error \in CheckoutErrors : Agrees(error)
  BY ConflictFits, ForbiddenFits DEF Conflicts, Refusals, CheckoutErrors
<1>10. \A error \in OrderErrors : Agrees(error)
  BY ConflictFits, InvalidFits DEF Conflicts, BadRequests, OrderErrors
<1>11. \A error \in AddressErrors : Agrees(error)
  BY ConflictFits DEF AddressErrors, Conflicts
<1>12. \A error \in IdentityErrors : Agrees(error)
  BY ConflictFits, ForbiddenFits, InvalidFits DEF Conflicts, BadRequests, Refusals, IdentityErrors
<1>13. \A error \in PasswordErrors : Agrees(error)
  BY InvalidFits DEF PasswordErrors, BadRequests
<1>14. \A error \in GeoErrors : Agrees(error)
  BY InvalidFits, OthersFit DEF BadRequests, GeoErrors
<1>15. \A error \in ShipmentErrors : Agrees(error)
  BY InvalidFits DEF ShipmentErrors, BadRequests
<1>16. \A error \in ShippingMethodErrors : Agrees(error)
  BY InvalidFits DEF ShippingMethodErrors, BadRequests
<1>17. \A error \in ReceiptErrors : Agrees(error)
  BY ConflictFits DEF ReceiptErrors, Conflicts
<1>18. \A error \in WarehouseErrors : Agrees(error)
  BY ConflictFits, InvalidFits DEF BadRequests, Conflicts, WarehouseErrors
<1>19. \A error \in StockErrors : Agrees(error)
  BY ConflictFits, InvalidFits DEF BadRequests, Conflicts, StockErrors
<1>20. \A error \in PriceErrors : Agrees(error)
  BY ConflictFits, InvalidFits DEF Conflicts, BadRequests, PriceErrors
<1>21. \A error \in PromotionErrors : Agrees(error)
  BY InvalidFits DEF PromotionErrors, BadRequests
<1>22. \A error \in PaymentErrors : Agrees(error)
  BY ForbiddenFits, InvalidFits DEF Refusals, BadRequests, PaymentErrors
<1>23. \A error \in WorkOrderErrors : Agrees(error)
  BY ConflictFits DEF WorkOrderErrors, Conflicts
<1> QED
  BY <1>1, <1>2, <1>3, <1>4, <1>5, <1>6, <1>7, <1>8, <1>9, <1>10, <1>11, <1>12, <1>13, <1>14, <1>15, <1>16, <1>17, <1>18, <1>19, <1>20, <1>21, <1>22, <1>23
     DEF DomainErrors

\* Whatever is thrown is answered as the catalog says of its code.
LEMMA AnswersAreOfTheCatalog ==
  ASSUME NEW error \in Thrown
  PROVE  \E code \in DOMAIN PROBLEM_TYPES :
           /\ toProblem(error) = fromCatalog(code)
           /\ error.kind \in {"domain", "problem"} => code = error.code
           /\ error.kind \notin {"domain", "problem", "http"} => code = "internal-error"
<1>0. {"internal-error", "validation-error", "unauthenticated", "forbidden", "not-found", "payload-too-large", "unsupported-media-type",
       "rate-limit-exceeded"} \subseteq DOMAIN PROBLEM_TYPES
  BY CatalogHas DEF BadRequests, Unauthenticated, Refusals, OtherProblems
<1>1. CASE error \in DomainErrors
  BY <1>1, DomainErrorsFit DEF Agrees, toProblem, fromDomainError, fromCatalog
<1>2. CASE \E code \in DOMAIN PROBLEM_TYPES : error = ProblemException(code)
  BY <1>2 DEF ProblemException, toProblem
<1>3. CASE \E httpStatus : error = HttpException(httpStatus)
  <2>1. PICK httpStatus : error = HttpException(httpStatus)
    BY <1>3
  <2>2. error.kind = "http" /\ error.status = httpStatus
    BY <2>1 DEF HttpException
  <2>3. toProblem(error) = IF httpStatus \in DOMAIN STATUS_CODES THEN fromCatalog(STATUS_CODES[httpStatus]) ELSE fromCatalog("internal-error")
    BY <2>2 DEF toProblem
  <2>4. httpStatus \in DOMAIN STATUS_CODES => STATUS_CODES[httpStatus] \in DOMAIN PROBLEM_TYPES
    BY <1>0 DEF STATUS_CODES
  <2> QED
    BY <1>0, <2>2, <2>3, <2>4
<1>4. CASE error = [kind |-> "unknown"]
  BY <1>4, <1>0 DEF toProblem
<1> QED
  BY <1>1, <1>2, <1>3, <1>4 DEF Thrown

ThrownOf(entry) == entry.thrown \in Thrown /\ entry.got = toProblem(entry.thrown)
ProblemsInv ==
  /\ problems \in Seq([thrown : Thrown, got : {toProblem(error) : error \in Thrown}])
  /\ \A i \in 1..Len(problems) : ThrownOf(problems[i])
  /\ keptProblem = "none" => \A i \in 1..Len(problems) : ~IsKept(problems[i].thrown)
  /\ keptProblem # "none" =>
       /\ keptProblem \in DOMAIN PROBLEM_TYPES
       /\ \A i \in 1..Len(problems) : IsKept(problems[i].thrown) =>
            \A j \in i..Len(problems) : problems[j].got = fromCatalog(keptProblem)

\* One answer more.
LEMMA OneMoreAnswer ==
  ASSUME problems \in Seq([thrown : Thrown, got : {toProblem(error) : error \in Thrown}]), NEW error \in Thrown, Told(error)
  PROVE  /\ problems' \in Seq([thrown : Thrown, got : {toProblem(e) : e \in Thrown}])
         /\ Len(problems) \in Nat /\ Len(problems') = Len(problems) + 1
         /\ \A i \in 1..Len(problems) : problems'[i] = problems[i]
         /\ problems'[Len(problems) + 1].thrown = error /\ problems'[Len(problems) + 1].got = toProblem(error)
<1> DEFINE T == [thrown : Thrown, got : {toProblem(e) : e \in Thrown}]
           entry == [thrown |-> error, got |-> toProblem(error)]
<1>1. entry \in T /\ entry.thrown = error /\ entry.got = toProblem(error)
  OBVIOUS
<1>2. problems \in Seq(T) /\ problems' = Append(problems, entry)
  BY DEF Told
<1> HIDE DEF T, entry
<1>3. /\ problems' \in Seq(T) /\ Len(problems') = Len(problems) + 1 /\ Len(problems) \in Nat
      /\ \A i \in 1..Len(problems) : problems'[i] = problems[i]
      /\ problems'[Len(problems) + 1] = entry
  BY <1>1, <1>2, AppendProperties
<1> QED
  BY <1>1, <1>3 DEF T

\* A request runs and fails.
LEMMA RunKeeps ==
  ASSUME ProblemsInv, NEW error \in Thrown, run(error)
  PROVE  ProblemsInv'
<1>1. keptProblem = "none" /\ keptProblem' = (IF IsKept(error) THEN error.code ELSE "none") /\ Told(error)
  BY DEF run
<1> DEFINE n == Len(problems)
<1>2. /\ problems' \in Seq([thrown : Thrown, got : {toProblem(e) : e \in Thrown}])
      /\ n \in Nat /\ Len(problems') = n + 1 /\ \A i \in 1..n : problems'[i] = problems[i]
      /\ problems'[n + 1].thrown = error /\ problems'[n + 1].got = toProblem(error)
  BY <1>1, OneMoreAnswer DEF ProblemsInv
<1>3. \A i \in 1..n : ThrownOf(problems[i]) /\ ~IsKept(problems[i].thrown)
  BY <1>1 DEF ProblemsInv
<1> HIDE DEF n
<1>4. \A i \in 1..(n + 1) : i \in 1..n \/ i = n + 1
  BY <1>2
<1>5. \A i \in 1..(n + 1) : ThrownOf(problems'[i])
  BY <1>2, <1>3, <1>4 DEF ThrownOf
<1>6. \A i \in 1..(n + 1) : IsKept(problems'[i].thrown) => i = n + 1 /\ IsKept(error)
  BY <1>2, <1>3, <1>4
<1>7. "none" \notin DOMAIN PROBLEM_TYPES
  BY CatalogHas DEF BadRequests, Unauthenticated, Refusals, Conflicts, OtherProblems
<1>8. CASE ~IsKept(error)
  BY <1>1, <1>8, <1>2, <1>5, <1>6 DEF ProblemsInv
<1>9. CASE IsKept(error)
  <2>1. keptProblem' = error.code
    BY <1>1, <1>9
  <2>2. error.kind = "domain" /\ error.code \in DOMAIN PROBLEM_TYPES
    BY <1>9 DEF IsKept, isProblemCode
  <2>3. toProblem(error) = fromCatalog(error.code)
    BY <2>2, AnswersAreOfTheCatalog
  <2>4. keptProblem' # "none" /\ keptProblem' \in DOMAIN PROBLEM_TYPES
    BY <1>7, <2>1, <2>2
  <2>5. \A i \in 1..(n + 1) : IsKept(problems'[i].thrown) =>
          \A j \in i..(n + 1) : problems'[j].got = fromCatalog(keptProblem')
    <3>1. ASSUME NEW i \in 1..(n + 1), IsKept(problems'[i].thrown), NEW j \in i..(n + 1)
          PROVE  problems'[j].got = fromCatalog(keptProblem')
      BY <1>6, <3>1, <1>2, <2>3, <2>1
    <3> QED
      BY <3>1
  <2> QED
    BY <1>2, <1>5, <2>4, <2>5 DEF ProblemsInv
<1> QED
  BY <1>8, <1>9

\* A request sent again is answered with the error that was kept.
LEMMA ReplayKeeps ==
  ASSUME ProblemsInv, replay
  PROVE  ProblemsInv'
<1> DEFINE again == ProblemException(keptProblem)
           n == Len(problems)
<1>1. keptProblem # "none" /\ keptProblem \in DOMAIN PROBLEM_TYPES /\ keptProblem' = keptProblem
  BY DEF replay, ProblemsInv
<1>2. Told(again)
  BY <1>1 DEF replay, isProblemCode
<1>3. again \in Thrown
  BY <1>1 DEF Thrown
<1>4. again.kind = "problem" /\ again.code = keptProblem
  BY DEF ProblemException
<1>5. toProblem(again) = fromCatalog(keptProblem) /\ ~IsKept(again)
  BY <1>3, <1>4, AnswersAreOfTheCatalog DEF IsKept
<1> HIDE DEF again
<1>6. /\ problems' \in Seq([thrown : Thrown, got : {toProblem(e) : e \in Thrown}])
      /\ n \in Nat /\ Len(problems') = n + 1 /\ \A i \in 1..n : problems'[i] = problems[i]
      /\ problems'[n + 1].thrown = again /\ problems'[n + 1].got = toProblem(again)
  BY <1>2, <1>3, OneMoreAnswer DEF ProblemsInv
<1>7. /\ \A i \in 1..n : ThrownOf(problems[i])
      /\ \A i \in 1..n : IsKept(problems[i].thrown) => \A j \in i..n : problems[j].got = fromCatalog(keptProblem)
  BY <1>1 DEF ProblemsInv
<1> HIDE DEF n
<1>8. \A i \in 1..(n + 1) : i \in 1..n \/ i = n + 1
  BY <1>6
<1>9. \A i \in 1..(n + 1) : ThrownOf(problems'[i])
  BY <1>3, <1>6, <1>7, <1>8 DEF ThrownOf
<1>10. ASSUME NEW i \in 1..(n + 1), IsKept(problems'[i].thrown), NEW j \in i..(n + 1)
       PROVE  problems'[j].got = fromCatalog(keptProblem)
  <2>1. i \in 1..n /\ IsKept(problems[i].thrown)
    BY <1>5, <1>6, <1>8, <1>10
  <2>2. j \in i..n \/ j = n + 1
    BY <1>6, <2>1
  <2>3. CASE j \in i..n
    BY <1>6, <2>1, <2>3, <1>7
  <2>4. CASE j = n + 1
    BY <1>5, <1>6, <2>4
  <2> QED
    BY <2>2, <2>3, <2>4
<1> QED
  BY <1>1, <1>6, <1>9, <1>10 DEF ProblemsInv

\* So the answers hold together.
LEMMA AnswersFollow == ProblemsInv => ProblemsHold
<1> SUFFICES ASSUME ProblemsInv
             PROVE  ProblemsHold
  OBVIOUS
<1> DEFINE n == Len(problems)
<1>1. DOMAIN problems = 1..n /\ n \in Nat
  BY DEF ProblemsInv
<1>2. \A i \in 1..n : ThrownOf(problems[i])
  BY DEF ProblemsInv
<1>3. \A i \in 1..n : \E code \in DOMAIN PROBLEM_TYPES :
         /\ problems[i].got.code = code /\ problems[i].got.status = PROBLEM_TYPES[code]
         /\ problems[i].thrown.kind \in {"domain", "problem"} => code = problems[i].thrown.code
         /\ problems[i].thrown.kind \notin {"domain", "problem", "http"} => code = "internal-error"
  BY <1>2, AnswersAreOfTheCatalog DEF ThrownOf, fromCatalog
<1>4. ASSUME NEW i \in 1..n, NEW j \in 1..n, i < j, IsKept(problems[i].thrown)
      PROVE  problems[j].got = problems[i].got
  BY <1>4, <1>1 DEF ProblemsInv
<1>5. ASSUME NEW i \in 1..n, NEW j \in 1..n, problems[i].got.code = problems[j].got.code
      PROVE  problems[i].got.status = problems[j].got.status
  BY <1>3, <1>5
<1>6. ASSUME keptProblem = "none", NEW i \in 1..n, problems[i].got.status \in {403, 409}
      PROVE  problems[i].thrown.kind \in {"problem", "http"}
  <2>1. ~IsKept(problems[i].thrown)
    BY <1>6 DEF ProblemsInv
  <2>2. PICK code \in DOMAIN PROBLEM_TYPES :
          /\ problems[i].got.status = PROBLEM_TYPES[code]
          /\ problems[i].thrown.kind \in {"domain", "problem"} => code = problems[i].thrown.code
          /\ problems[i].thrown.kind \notin {"domain", "problem", "http"} => code = "internal-error"
    BY <1>3
  <2>3. PROBLEM_TYPES["internal-error"] = 500 /\ PROBLEM_TYPES["validation-error"] = 400
    BY CatalogHas DEF BadRequests
  <2>4. problems[i].thrown.kind # "domain"
    BY <2>1, <2>2, <1>6, <2>3 DEF IsKept, isProblemCode
  <2>5. problems[i].thrown.kind \in {"domain", "problem", "http"}
    BY <1>6, <2>2, <2>3
  <2> QED
    BY <2>4, <2>5
<1> QED
  BY <1>1, <1>4, <1>5, <1>6 DEF ProblemsHold

\* A request sent again is answered as it was, every type means one httpStatus, and what is not kept is no broken rule, however
\* often the request is sent (ProblemDetailsFilter, the idempotency interceptor).
THEOREM ProblemsAlwaysHold == ProblemsInit /\ [][ProblemsNext]_problemVars => []ProblemsHold
<1>1. ProblemsInit => ProblemsInv
  BY DEF ProblemsInit, ProblemsInv
<1>2. ProblemsInv /\ [ProblemsNext]_problemVars => ProblemsInv'
  <2> SUFFICES ASSUME ProblemsInv, [ProblemsNext]_problemVars
               PROVE  ProblemsInv'
    OBVIOUS
  <2>1. CASE \E error \in Thrown : run(error)
    BY <2>1, RunKeeps
  <2>2. CASE replay
    BY <2>2, ReplayKeeps
  <2>3. CASE UNCHANGED problemVars
    BY <2>3 DEF problemVars, ProblemsInv
  <2> QED
    BY <2>1, <2>2, <2>3 DEF ProblemsNext
<1>3. ProblemsInv => ProblemsHold
  BY AnswersFollow
<1> QED
  BY <1>1, <1>2, <1>3, PTL

-----------------------------------------------------------------------------
(* The components in one behavior, of which each step is of one.            *)

\* The transactions and their locks start as they do by themselves.
LEMMA PlatformStart == PlatformInit => ScopeInit /\ LocksInit
  BY DEF PlatformInit

\* They share no variable with the rest, and go on by themselves.
LEMMA PlatformStep == [PlatformNext]_platformVars => [ScopeNext]_scopeVars /\ [LocksNext]_locksVars
<1> SUFFICES ASSUME [PlatformNext]_platformVars
             PROVE  [ScopeNext]_scopeVars /\ [LocksNext]_locksVars
  OBVIOUS
<1>1. CASE PlatformNext /\ about = "transaction"
  BY <1>1 DEF PlatformNext, Rest
<1>2. CASE PlatformNext /\ about = "locks"
  BY <1>2 DEF PlatformNext, Rest
<1>3. CASE PlatformNext /\ about # "transaction" /\ about # "locks"
  BY <1>3 DEF PlatformNext, Rest
<1>4. CASE UNCHANGED platformVars
  BY <1>4 DEF platformVars
<1> QED
  BY <1>1, <1>2, <1>3, <1>4

\* The transactions of the platform tell what they did, and wait for each other in known circles only.
THEOREM TransactionsAlwaysHold == PlatformSpec => []TransactionsHold
<1>1. PlatformSpec => ScopeSpec /\ LocksSpec
  BY PlatformStart, PlatformStep, PTL DEF PlatformSpec, ScopeSpec, LocksSpec
<1> QED
  BY <1>1, TransactionsTellAll, CirclesAreAlwaysKnown, PTL DEF TransactionsHold

\* The guards, the limit of failed attempts and the answers to errors start as they do by themselves.
LEMMA RequestsStart == PlatformInit => FrontDoorInit /\ AttemptInit /\ ProblemsInit
  BY DEF PlatformInit

\* The three share no variable with the rest, and go on by themselves.
LEMMA RequestsStep ==
  [PlatformNext]_platformVars =>
    [FrontDoorNext]_frontDoorVars /\ [AttemptNext]_attemptVars /\ [ProblemsNext]_problemVars
<1> SUFFICES ASSUME [PlatformNext]_platformVars
             PROVE  [FrontDoorNext]_frontDoorVars /\ [AttemptNext]_attemptVars /\ [ProblemsNext]_problemVars
  OBVIOUS
<1>1. CASE PlatformNext /\ about = "http"
  BY <1>1 DEF PlatformNext, Rest
<1>2. CASE PlatformNext /\ about = "attempts"
  BY <1>2 DEF PlatformNext, Rest
<1>3. CASE PlatformNext /\ about = "problems"
  BY <1>3 DEF PlatformNext, Rest
<1>4. CASE PlatformNext /\ about # "http" /\ about # "attempts" /\ about # "problems"
  BY <1>4 DEF PlatformNext, Rest
<1>5. CASE UNCHANGED platformVars
  BY <1>5 DEF platformVars
<1> QED
  BY <1>1, <1>2, <1>3, <1>4, <1>5

\* What a request meets holds: the guards that admit it, the exact limit on its failed attempts, the answers to its errors.
THEOREM RequestsAlwaysHold == PlatformSpec => []RequestsHold
<1>1. PlatformSpec => FrontDoorSpec /\ AttemptSpec /\ ProblemsInit /\ [][ProblemsNext]_problemVars
  BY RequestsStart, RequestsStep, PTL DEF PlatformSpec, FrontDoorSpec, AttemptSpec
<1> QED
  BY <1>1, RequestsAreAlwaysAdmitted, LimitIsAlwaysExact, ProblemsAlwaysHold, PTL DEF RequestsHold
==============================================================================
