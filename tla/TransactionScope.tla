-------------------------- MODULE TransactionScope --------------------------
(***************************************************************************)
(* A transaction of src/platform/persistence: its work, the steps inside   *)
(* it that can be undone alone (savepoints), and the callbacks that its    *)
(* steps leave for before and after the commit, which is how an event is   *)
(* stored with what it tells and dispatched once that is true.  A step     *)
(* writes a row and publishes an event about it.  Errors pass from a step  *)
(* to the one around it, which lets them pass or goes on without it.       *)
(***************************************************************************)
EXTENDS Naturals, Sequences

CONSTANTS MaxWrites, MaxNesting, MaxSavepoints

ASSUME ScopeAssumption == MaxWrites \in Nat /\ MaxNesting \in Nat /\ MaxSavepoints \in Nat

VARIABLES
  txPhase,        \* "work", "before", "commit", "after" or "end"
  writes,         \* the rows written in the transaction, in order
  beforeCommitCallbacks, afterCommitCallbacks,   \* of the scope: the write each one is about
  marks,          \* the nested steps open: how many rows and callbacks there were when each began
  failing,        \* an error: "raised" in the step open now, or "left" a nested step for the one around it
  broken,         \* the connection is lost: every later statement fails
  stored, dispatched,   \* what the callbacks did, in order
  committed, nextWrite, savepoints

scopeVars == <<txPhase, writes, beforeCommitCallbacks, afterCommitCallbacks, marks, failing, broken, stored, dispatched,
               committed, nextWrite, savepoints>>

WriteIds == 1..MaxWrites

ScopeInit ==
  /\ txPhase = "work" /\ writes = <<>> /\ beforeCommitCallbacks = <<>> /\ afterCommitCallbacks = <<>> /\ marks = <<>>
  /\ failing = "no" /\ broken = FALSE /\ stored = <<>> /\ dispatched = <<>> /\ committed = FALSE
  /\ nextWrite = 1 /\ savepoints = 0

Working == txPhase = "work" /\ failing = "no"

\* A step changes a row and publishes its event: stored before the commit, dispatched after it.
write ==
  /\ Working /\ ~broken /\ nextWrite \in WriteIds
  /\ writes' = Append(writes, nextWrite)
  /\ beforeCommitCallbacks' = Append(beforeCommitCallbacks, nextWrite)
  /\ afterCommitCallbacks' = Append(afterCommitCallbacks, nextWrite)
  /\ nextWrite' = nextWrite + 1
  /\ UNCHANGED <<txPhase, marks, failing, broken, stored, dispatched, committed, savepoints>>

mark == [writes |-> Len(writes), beforeCommit |-> Len(beforeCommitCallbacks), afterCommit |-> Len(afterCommitCallbacks)]

beginNested ==
  /\ Working /\ ~broken /\ Len(marks) < MaxNesting /\ savepoints < MaxSavepoints
  /\ marks' = Append(marks, mark) /\ savepoints' = savepoints + 1
  /\ UNCHANGED <<txPhase, writes, beforeCommitCallbacks, afterCommitCallbacks, failing, broken, stored, dispatched,
                 committed, nextWrite>>

releaseNested ==
  /\ Working /\ ~broken /\ marks # <<>>
  /\ marks' = SubSeq(marks, 1, Len(marks) - 1)
  /\ UNCHANGED <<txPhase, writes, beforeCommitCallbacks, afterCommitCallbacks, failing, broken, stored, dispatched,
                 committed, nextWrite, savepoints>>

\* Some statement or check fails, or the connection does.
fail ==
  /\ Working /\ failing' = "raised" /\ broken' \in {broken, TRUE}
  /\ UNCHANGED <<txPhase, writes, beforeCommitCallbacks, afterCommitCallbacks, marks, stored, dispatched, committed,
                 nextWrite, savepoints>>

keptOf(callbacks, length) == SubSeq(callbacks, 1, IF length < Len(callbacks) THEN length ELSE Len(callbacks))

\* Mutant: only what was to run before the commit is dropped.
discardSinceBefore(m) ==
  /\ beforeCommitCallbacks' = keptOf(beforeCommitCallbacks, m.beforeCommit)
  /\ UNCHANGED afterCommitCallbacks
discardSince(m) ==
  /\ beforeCommitCallbacks' = keptOf(beforeCommitCallbacks, m.beforeCommit)
  /\ afterCommitCallbacks' = keptOf(afterCommitCallbacks, m.afterCommit)

\* The error leaves a nested step: what it wrote and left is undone, unless going back fails too.
undoNested ==
  /\ txPhase = "work" /\ failing = "raised" /\ marks # <<>>
  /\ LET m == marks[Len(marks)] IN
     IF broken THEN UNCHANGED <<writes, beforeCommitCallbacks, afterCommitCallbacks>>
     ELSE writes' = SubSeq(writes, 1, m.writes) /\ discardSince(m)
  /\ marks' = SubSeq(marks, 1, Len(marks) - 1) /\ failing' = "left"
  /\ UNCHANGED <<txPhase, broken, stored, dispatched, committed, nextWrite, savepoints>>

\* The step around it goes on without it, or fails too.
handleError ==
  /\ txPhase = "work" /\ failing = "left" /\ failing' \in {"no", "raised"}
  /\ UNCHANGED <<txPhase, writes, beforeCommitCallbacks, afterCommitCallbacks, marks, broken, stored, dispatched, committed,
                 nextWrite, savepoints>>

\* The error leaves the work: the transaction rolls back and no callback runs.
rollback ==
  /\ txPhase = "work" /\ failing = "raised" /\ marks = <<>>
  /\ txPhase' = "end" /\ writes' = <<>>
  /\ UNCHANGED <<beforeCommitCallbacks, afterCommitCallbacks, marks, failing, broken, stored, dispatched, committed,
                 nextWrite, savepoints>>

workDone ==
  /\ Working /\ marks = <<>> /\ txPhase' = "before"
  /\ UNCHANGED <<writes, beforeCommitCallbacks, afterCommitCallbacks, marks, failing, broken, stored, dispatched, committed,
                 nextWrite, savepoints>>

runBeforeCommitCallbacks ==
  /\ txPhase = "before"
  /\ IF Len(stored) = Len(beforeCommitCallbacks)
     THEN txPhase' = "commit" /\ UNCHANGED <<writes, stored>>
     ELSE \/ ~broken /\ stored' = Append(stored, beforeCommitCallbacks[Len(stored) + 1]) /\ UNCHANGED <<txPhase, writes>>
          \/ txPhase' = "end" /\ writes' = <<>> /\ stored' = <<>>   \* it fails: everything rolls back
  /\ UNCHANGED <<beforeCommitCallbacks, afterCommitCallbacks, marks, failing, broken, dispatched, committed, nextWrite,
                 savepoints>>

commitWork ==
  /\ txPhase = "commit"
  /\ \/ ~broken /\ committed' = TRUE /\ txPhase' = "after" /\ UNCHANGED <<writes, stored>>
     \/ UNCHANGED committed /\ txPhase' = "end" /\ writes' = <<>> /\ stored' = <<>>
  /\ UNCHANGED <<beforeCommitCallbacks, afterCommitCallbacks, marks, failing, broken, dispatched, nextWrite, savepoints>>

runAfterCommitCallbacks ==
  /\ txPhase = "after"
  /\ IF Len(dispatched) = Len(afterCommitCallbacks)
     THEN txPhase' = "end" /\ UNCHANGED dispatched
     ELSE dispatched' = Append(dispatched, afterCommitCallbacks[Len(dispatched) + 1]) /\ UNCHANGED txPhase
  /\ UNCHANGED <<writes, beforeCommitCallbacks, afterCommitCallbacks, marks, failing, broken, stored, committed, nextWrite,
                 savepoints>>

ScopeNext ==
  \/ write \/ beginNested \/ releaseNested \/ fail \/ undoNested \/ handleError \/ rollback \/ workDone
  \/ runBeforeCommitCallbacks \/ commitWork \/ runAfterCommitCallbacks
ScopeSpec == ScopeInit /\ [][ScopeNext]_scopeVars

-----------------------------------------------------------------------------
(* Properties. *)

IsPrefixOf(s, t) == Len(s) <= Len(t) /\ s = SubSeq(t, 1, Len(s))

\* However steps nest, fail and are gone on without, the callbacks left are those of the writes that stay, in their order.
CallbacksFollowWrites ==
  txPhase \in {"work", "before", "commit"} => beforeCommitCallbacks = writes /\ afterCommitCallbacks = writes

\* What commits has all its events stored with it and dispatches them in order; what rolls back tells nothing.
EventsTellTheTruth ==
  /\ IF committed THEN stored = writes /\ IsPrefixOf(dispatched, writes) ELSE dispatched = <<>>
  /\ txPhase = "end" => dispatched = writes /\ stored = writes

\* The callbacks and the events of a transaction follow its writes through every nested failure, up to its end
\* (runNested, discardSince, runInTransaction).
CommitsTellAll == CallbacksFollowWrites /\ EventsTellTheTruth
=============================================================================
