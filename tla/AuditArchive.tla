---------------------------- MODULE AuditArchive ----------------------------
(***************************************************************************)
(* The nightly job that moves the audit records of an old day from the     *)
(* database to a file (src/modules/audit): it exports them in batches to a *)
(* draft, reads the draft back, keeps it under a name no file has, and     *)
(* deletes the records of the day if they are the ones of the file.        *)
(* Records may still arrive for the day, the draft may be damaged, and the *)
(* process may stop between any two steps.  runJob keeps two runs from     *)
(* overlapping, so there is one.                                           *)
(***************************************************************************)
EXTENDS JobRuns, Sequences, SequencesExt

CONSTANTS
  MaxRecords,          \* bound: the records of the day, by occurredAt and id
  ARCHIVE_BATCH_SIZE

ASSUME ArchiveAssumption == MaxRecords \in Nat /\ ARCHIVE_BATCH_SIZE \in Nat \ {0}

Records == 1..MaxRecords

VARIABLES
  auditLogs,      \* the records of the day in the database
  recorded,       \* every record of the day there has been
  archiveFiles,   \* the files of the day that were kept
  archiveRun,     \* where the run is, what it exported and what its draft holds
  dayAge          \* of the day: recent, past the retention of the database, past the one of the files

archiveVars == <<auditLogs, recorded, archiveFiles, archiveRun, dayAge>>

NoRun == [step |-> "none", exported |-> <<>>, draft |-> <<>>]

ArchiveInit ==
  /\ auditLogs = {} /\ recorded = {} /\ archiveFiles = {}
  /\ archiveRun = NoRun /\ dayAge = "recent"

\* write: the record is inserted with the change it is about.
recordAudit(r) ==
  /\ r \notin recorded
  /\ auditLogs' = auditLogs \cup {r} /\ recorded' = recorded \cup {r}
  /\ UNCHANGED <<archiveFiles, archiveRun, dayAge>>

\* AUDIT_ARCHIVE_RETENTION_MONTHS is more than AUDIT_RETENTION_MONTHS (environment.ts).
growOld ==
  /\ \/ dayAge = "recent" /\ dayAge' = "archivable"
     \/ dayAge = "archivable" /\ dayAge' = "expired"
  /\ UNCHANGED <<auditLogs, recorded, archiveFiles, archiveRun>>

-----------------------------------------------------------------------------
(* A run, for the day. *)

\* run and archive: what an earlier run left unfinished goes; a day without records is not in daysBefore.
startArchive ==
  /\ archiveRun = NoRun /\ dayAge # "recent" /\ auditLogs # {}
  /\ archiveRun' = [NoRun EXCEPT !.step = "export"]
  /\ UNCHANGED <<auditLogs, recorded, archiveFiles, dayAge>>

position == IF archiveRun.exported = <<>> THEN 0 ELSE Last(archiveRun.exported)
entriesOf == SetToSortSeq({r \in auditLogs : r > position}, <)
nextBatch == SubSeq(entriesOf, 1, IF Len(entriesOf) < ARCHIVE_BATCH_SIZE THEN Len(entriesOf) ELSE ARCHIVE_BATCH_SIZE)

\* append: the disk may end up with less than what was written.
exportBatch ==
  /\ archiveRun.step = "export"
  /\ \E written \in {nextBatch, <<>>} :
       archiveRun' = [step |-> IF Len(nextBatch) < ARCHIVE_BATCH_SIZE THEN "close" ELSE "export",
                      exported |-> archiveRun.exported \o nextBatch,
                      draft |-> archiveRun.draft \o written]
  /\ UNCHANGED <<auditLogs, recorded, archiveFiles, dayAge>>

\* close: the ids of the file, read from the disk.
readBack == archiveRun.draft

\* close and keep: a draft that does not hold what was exported is discarded, and so is an empty one.
keepDraft ==
  /\ archiveRun.step = "close"
  /\ IF archiveRun.exported # <<>> /\ readBack = archiveRun.exported
     THEN archiveFiles' = archiveFiles \cup {ToSet(archiveRun.draft)} /\ archiveRun' = [archiveRun EXCEPT !.step = "delete"]
     ELSE archiveRun' = [archiveRun EXCEPT !.step = "expire"] /\ UNCHANGED archiveFiles
  /\ UNCHANGED <<auditLogs, recorded, dayAge>>

\* Every record of the day, whatever the run exported; with other records than the file nothing is deleted.
deleteDay ==
  /\ archiveRun.step = "delete" /\ archiveRun' = [archiveRun EXCEPT !.step = "expire"]
  /\ auditLogs' = IF auditLogs = ToSet(archiveRun.exported) THEN {} ELSE auditLogs
  /\ UNCHANGED <<recorded, archiveFiles, dayAge>>

\* deleteBefore: the files whose time is over, and the end of the run.
deleteExpired ==
  /\ archiveRun.step = "expire" /\ archiveRun' = NoRun
  /\ archiveFiles' = IF dayAge = "expired" THEN {} ELSE archiveFiles
  /\ UNCHANGED <<auditLogs, recorded, dayAge>>

crashArchive ==
  /\ archiveRun # NoRun /\ archiveRun' = NoRun
  /\ UNCHANGED <<auditLogs, recorded, archiveFiles, dayAge>>

ArchiveNext ==
  \/ \E r \in Records : recordAudit(r)
  \/ growOld \/ startArchive \/ exportBatch \/ keepDraft \/ deleteDay \/ deleteExpired \/ crashArchive

ArchiveSpec == ArchiveInit /\ [][ArchiveNext]_archiveVars

-----------------------------------------------------------------------------
(* Properties. *)

\* ADR-0146: until the retention of the files is over every record is in the database or in a file, though records
\* arrive for the day while it is exported, the draft is damaged or the process stops halfway.
NoRecordLost == dayAge # "expired" => recorded \subseteq auditLogs \cup UNION archiveFiles

\* What the jobs promise: a job never runs twice at once in a process, and the one that archives loses no record.
JobsHold == JobsRunAlone /\ NoRecordLost
=============================================================================
