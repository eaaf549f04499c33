------------------------------- MODULE Backup -------------------------------
(***************************************************************************)
(* backup.rs: copying a database's files to a snapshot directory, and      *)
(* restoring them over the live directory, one file operation at a time.   *)
(* The live directory is set aside as .bak, the copy is staged beside it,  *)
(* renamed into place and opened; only then is .bak removed.  A server     *)
(* that died in between puts the directories in order when it starts       *)
(* (reconcile_restore_artifacts).  Any file operation may fail, and the    *)
(* process may be killed between any two.                                  *)
(***************************************************************************)
EXTENDS Naturals, Sequences

CONSTANTS
  MaxChanges,       \* changes of the database and of the snapshot around the calls
  MaxBackupCalls,   \* snapshots and restores
  MaxIoErrors,      \* file operations that fail
  MaxKills          \* times the process is killed

\* nodes.db, edges.db, adjacency.db, strings.db and overflow.db stand as one
\* file, label_index.bin and schema.bin as one; a directory has a file when
\* there is a regular file of that name (graph.meta: a non-empty one).
RequiredFiles == {"db", "meta"}
FileNames == RequiredFiles \cup {"schema"}
CopyOrder == <<"db", "meta", "schema">>

\* A file is of one version of the database (none is of version 0), and readable
\* (its pages pass their checksums) or not; a directory is there or not.
NoFile == [ver |-> 0, ok |-> FALSE]
Absent == [there |-> FALSE, files |-> [f \in FileNames |-> NoFile]]
Database(v, names) ==
  [there |-> TRUE,
   files |-> [f \in FileNames |-> IF f \in names THEN [ver |-> v, ok |-> TRUE] ELSE NoFile]]
Has(d) == { f \in FileNames : d.files[f] # NoFile }

\* live_dir and snapshot_dir with the siblings that bak_dir_for,
\* staging_dir_for and sibling_with_suffix name.
DirNames == {"live", "bak", "failed", "partial", "staging", "snap", "snap-staging"}
StagingFor(dest) == IF dest = "live" THEN "staging" ELSE "snap-staging"

VARIABLES
  dir,       \* the directories
  call,      \* the call in progress
  running,   \* the server is up: it has reconciled and serves the database
  result,    \* history: the restore that last ended, or was cut short
  spent      \* history: changes, calls, errors and kills so far

backupVars == <<dir, call, running, result, spent>>

\* had: there was a live directory; before, source: the live directory and the
\* snapshot when a restore began; clean: the staging directory began empty.
NoResult == [outcome |-> "none", before |-> Absent, source |-> Absent, clean |-> TRUE]
Idle == [op |-> "none", at |-> "-", from |-> "-", to |-> "-", had |-> FALSE, left |-> <<>>,
         before |-> Absent, source |-> Absent, clean |-> TRUE, outcome |-> "-"]

\* A database, and a snapshot of an earlier version without optional files.
InitBackup ==
  /\ dir = [d \in DirNames |->
              CASE d = "live" -> Database(2, FileNames)
                [] d = "snap" -> Database(1, RequiredFiles)
                [] OTHER -> Absent]
  /\ call = Idle /\ running = TRUE /\ result = NoResult
  /\ spent = [changes |-> 0, calls |-> 0, errors |-> 0, kills |-> 0]

----------------------------------------------------------------------------
(* File operations.                                                        *)

At(op, at) == call.op \in op /\ call.at = at
Goto(at) == call' = [call EXCEPT !.at = at]
Quiet == UNCHANGED <<running, result, spent>>
Spend(what) == spent' = [spent EXCEPT ![what] = @ + 1]
MayFail == spent.errors < MaxIoErrors

\* std::fs::rename of a directory.
Renamed(from, to) == [dir EXCEPT ![to] = dir[from], ![from] = Absent]

\* remove_dir_all: the files in any order, then the directory.
RemoveSome(d) ==
  IF Has(dir[d]) = {} THEN dir' = [dir EXCEPT ![d] = Absent]
  ELSE \E f \in Has(dir[d]) : dir' = [dir EXCEPT ![d].files[f] = NoFile]

\* One file of it goes, or the last of it and the call goes on.
RemoveAll(d, next) ==
  /\ RemoveSome(d)
  /\ call' = IF Has(dir[d]) = {} THEN [call EXCEPT !.at = next] ELSE call
  /\ Quiet

\* A failing operation changes nothing and the call goes on elsewhere.
Failing(next) ==
  /\ MayFail /\ Spend("errors") /\ Goto(next)
  /\ UNCHANGED <<dir, running, result>>

\* validate_snapshot_source
ValidSource(d) == d.there /\ RequiredFiles \subseteq Has(d)

\* Graph::open and verify_all_pages.
Opens(d) == ValidSource(d) /\ \A f \in Has(d) : d.files[f].ok

----------------------------------------------------------------------------
(* The ends of a call; a restore leaves a record of it.                                                     *)

Outcome(outcome) ==
  [outcome |-> outcome, before |-> call.before, source |-> call.source, clean |-> call.clean]
Ended(outcome) ==
  /\ call' = Idle
  /\ result' = IF call.op = "restore" THEN Outcome(outcome) ELSE NoResult
  /\ UNCHANGED running

Finish(outcome) == Ended(outcome) /\ UNCHANGED <<dir, spent>>
FinishFailing(outcome) == MayFail /\ Spend("errors") /\ Ended(outcome) /\ UNCHANGED dir

\* finish_with_rollback remembers the error the caller will see; without an
\* original there is only the copy to clear away.
Rollback(outcome) ==
  call' = [call EXCEPT !.at = IF call.had THEN "moveLive" ELSE "dropLive",
                       !.outcome = outcome]

CopyError ==
  /\ IF call.op = "restore" THEN Rollback("CopyFailed") ELSE call' = Idle
  /\ UNCHANGED <<running, result>>
CopyFailing == MayFail /\ Spend("errors") /\ CopyError /\ UNCHANGED dir

----------------------------------------------------------------------------
(* restore_db_files_atomic                                                 *)

\* Step 1 comes before anything is touched.
Restore ==
  /\ running /\ call = Idle /\ spent.calls < MaxBackupCalls
  /\ Spend("calls")
  /\ IF ValidSource(dir["snap"])
     THEN /\ call' = [Idle EXCEPT !.op = "restore", !.from = "snap", !.to = "live",
                        !.at = IF dir["bak"].there THEN "clearBak" ELSE "aside",
                        !.before = dir["live"], !.source = dir["snap"]]
          /\ result' = NoResult
     ELSE /\ call' = Idle
          /\ result' = [NoResult EXCEPT !.outcome = "SourceInvalid", !.before = dir["live"],
                                     !.source = dir["snap"]]
  /\ UNCHANGED <<dir, running>>

\* Step 2: a stale .bak goes first; failing to remove it refuses the restore.
ClearBak ==
  /\ At({"restore"}, "clearBak")
  /\ \/ RemoveAll("bak", "aside")
     \/ FinishFailing("SourceInvalid")

\* Step 2: an existing live directory becomes .bak.
SetAside ==
  /\ At({"restore"}, "aside")
  /\ \/ /\ ~dir["live"].there
        /\ Goto("copyStart") /\ UNCHANGED dir /\ Quiet
     \/ /\ dir["live"].there
        /\ dir' = Renamed("live", "bak")
        /\ call' = [call EXCEPT !.at = "fsyncAside", !.had = TRUE]
        /\ Quiet
     \/ dir["live"].there /\ FinishFailing("CopyFailed")

FsyncAside ==
  /\ At({"restore"}, "fsyncAside")
  /\ \/ Goto("copyStart") /\ UNCHANGED dir /\ Quiet
     \/ Failing("undoAside")

\* The rename back is tried once and its failure is not looked at.
UndoAside ==
  /\ At({"restore"}, "undoAside")
  /\ \/ dir' = Renamed("bak", "live") /\ Ended("CopyFailed") /\ UNCHANGED spent
     \/ FinishFailing("CopyFailed")

----------------------------------------------------------------------------
(* copy_db_files_atomic, for a snapshot of the live directory and for the  *)
(* third step of a restore.                                                *)

Snapshot ==
  /\ running /\ call = Idle /\ spent.calls < MaxBackupCalls
  /\ Spend("calls")
  /\ call' = [Idle EXCEPT !.op = "snapshot", !.at = "copyStart", !.from = "live", !.to = "snap"]
  /\ result' = NoResult
  /\ UNCHANGED <<dir, running>>

\* What an aborted run left in the staging directory goes first; failing to
\* remove it is ignored.
CopyStart ==
  /\ At({"restore", "snapshot"}, "copyStart")
  /\ IF dir[call.from].there /\ "meta" \in Has(dir[call.from])
     THEN Goto(IF dir[StagingFor(call.to)].there THEN "clearStaging" ELSE "stage") /\ Quiet
     ELSE CopyError /\ UNCHANGED spent
  /\ UNCHANGED dir

ClearStaging ==
  /\ At({"restore", "snapshot"}, "clearStaging")
  /\ \/ RemoveAll(StagingFor(call.to), "stage")
     \/ /\ MayFail /\ Spend("errors")
        /\ call' = [call EXCEPT !.at = "stage", !.clean = FALSE]
        /\ UNCHANGED <<dir, running, result>>

Stage ==
  /\ At({"restore", "snapshot"}, "stage")
  /\ \/ /\ dir' = [dir EXCEPT ![StagingFor(call.to)].there = TRUE]
        /\ call' = [call EXCEPT !.at = "copyFile", !.left = CopyOrder]
        /\ Quiet
     \/ Failing("dropStaging")

\* The files one after the other; a required one that is missing ends the
\* copy, an optional one is passed over.
CopyFile ==
  LET f == Head(call.left)
      src == dir[call.from]
  IN  /\ At({"restore", "snapshot"}, "copyFile")
      /\ \/ /\ call.left # <<>> /\ f \in Has(src)
            /\ dir' = [dir EXCEPT ![StagingFor(call.to)].files[f] = src.files[f]]
            /\ call' = [call EXCEPT !.left = Tail(@)]
            /\ Quiet
         \/ /\ call.left # <<>> /\ f \notin Has(src)
            /\ call' = IF f \in RequiredFiles THEN [call EXCEPT !.at = "dropStaging"]
                       ELSE [call EXCEPT !.left = Tail(@)]
            /\ UNCHANGED dir /\ Quiet
         \/ /\ call.left = <<>>
            /\ Goto(IF dir[call.to].there THEN "clearDest" ELSE "install")
            /\ UNCHANGED dir /\ Quiet
         \/ call.left # <<>> /\ Failing("dropStaging")

DropStaging ==
  /\ At({"restore", "snapshot"}, "dropStaging")
  /\ LET d == StagingFor(call.to)
     IN  \/ dir[d].there /\ RemoveAll(d, "dropStaging")
         \/ ~dir[d].there /\ CopyError /\ UNCHANGED <<dir, spent>>
         \/ CopyFailing

\* An existing destination is removed before the staged one takes its name.
ClearDest ==
  /\ At({"restore", "snapshot"}, "clearDest")
  /\ \/ RemoveAll(call.to, "install")
     \/ CopyFailing

Install ==
  /\ At({"restore", "snapshot"}, "install")
  /\ \/ /\ dir' = Renamed(StagingFor(call.to), call.to) /\ Goto("fsyncDest") /\ Quiet
     \/ CopyFailing

FsyncDest ==
  /\ At({"restore", "snapshot"}, "fsyncDest")
  /\ \/ IF call.op = "restore" THEN Goto("fsyncFiles") /\ UNCHANGED dir /\ Quiet
        ELSE Finish("Ok")
     \/ CopyFailing

----------------------------------------------------------------------------
(* The rest of a restore.                                                  *)

\* The end of step 3: fsync_dir_recursive.
FsyncFiles ==
  /\ At({"restore"}, "fsyncFiles")
  /\ \/ Goto("open") /\ UNCHANGED dir /\ Quiet
     \/ MayFail /\ Spend("errors") /\ Rollback("CopyFailed") /\ UNCHANGED <<dir, running, result>>

\* Step 4: the restored database is opened and all its pages are read.
OpenRestored ==
  /\ At({"restore"}, "open")
  /\ IF ~Opens(dir["live"]) THEN Rollback("ValidationFailed") /\ UNCHANGED dir /\ Quiet
     ELSE IF call.had THEN Goto("commit") /\ UNCHANGED dir /\ Quiet
     ELSE Finish("Ok")

\* Step 5: .bak goes; failing to remove it is ignored.
Commit ==
  /\ At({"restore"}, "commit")
  /\ \/ dir["bak"].there /\ RemoveAll("bak", "commit")
     \/ ~dir["bak"].there /\ Finish("Ok")
     \/ FinishFailing("Ok")

\* rollback_db_files without an original: the copy is cleared away.
DropLive ==
  /\ At({"restore"}, "dropLive")
  /\ \/ dir["live"].there /\ RemoveAll("live", "dropLive")
     \/ ~dir["live"].there /\ Finish(call.outcome)
     \/ FinishFailing(call.outcome)

\* rollback_db_files: the copy is moved aside, over what an earlier rollback
\* left there ...
MoveLive ==
  /\ At({"restore"}, "moveLive")
  /\ \/ ~dir["live"].there /\ Goto("moveBack") /\ UNCHANGED dir /\ Quiet
     \/ dir["live"].there /\ dir' = Renamed("live", "failed") /\ Goto("moveBack") /\ Quiet
     \/ dir["live"].there /\ FinishFailing("RollbackFailed")

\* ... .bak takes its name again ...
MoveBack ==
  /\ At({"restore"}, "moveBack")
  /\ \/ dir' = Renamed("bak", "live") /\ Goto("dropFailed") /\ Quiet
     \/ FinishFailing("RollbackFailed")

\* ... and only then is the copy removed.
DropFailed ==
  /\ At({"restore"}, "dropFailed")
  /\ \/ dir["failed"].there /\ RemoveAll("failed", "dropFailed")
     \/ ~dir["failed"].there /\ Finish(call.outcome)
     \/ FinishFailing(call.outcome)

----------------------------------------------------------------------------
(* The process dies and starts again: reconcile_restore_artifacts.         *)

\* A restore that was cut short is remembered.
Kill ==
  /\ running \/ call.op = "reconcile"
  /\ spent.kills < MaxKills /\ Spend("kills")
  /\ running' = FALSE /\ call' = Idle
  /\ result' = IF call.op = "restore"
               THEN Outcome("cut")
               ELSE IF result.outcome = "cut" THEN result ELSE NoResult
  /\ UNCHANGED dir

Start ==
  /\ ~running /\ call = Idle
  /\ call' = [Idle EXCEPT !.op = "reconcile", !.at = "staging"]
  /\ UNCHANGED <<dir, running, result, spent>>

\* Partial copies are never kept.
ReconcileCopies ==
  \/ /\ At({"reconcile"}, "staging")
     /\ \/ dir["staging"].there /\ RemoveAll("staging", "failed")
        \/ ~dir["staging"].there /\ Goto("failed") /\ UNCHANGED dir /\ Quiet
  \/ /\ At({"reconcile"}, "failed")
     /\ \/ dir["failed"].there /\ RemoveAll("failed", "decide")
        \/ ~dir["failed"].there /\ Goto("decide") /\ UNCHANGED dir /\ Quiet

\* Mutant: every .bak is taken for what a committed restore left.
ReconcileDecide_Residual ==
  /\ At({"reconcile"}, "decide")
  /\ Goto(IF dir["bak"].there THEN "dropBak" ELSE "up")
  /\ UNCHANGED dir /\ Quiet

\* Is the live directory a complete database?  Then .bak is what a committed
\* restore left; otherwise it is the original.
ReconcileDecide ==
  /\ At({"reconcile"}, "decide")
  /\ Goto(IF ~dir["bak"].there THEN "up"
          ELSE IF ValidSource(dir["live"]) THEN "dropBak"
          ELSE IF dir["live"].there THEN "movePartial" ELSE "back")
  /\ UNCHANGED dir /\ Quiet

ReconcileDropBak == At({"reconcile"}, "dropBak") /\ RemoveAll("bak", "up")

\* An incomplete live directory is moved out of the way, over what an earlier
\* start left there, and .bak takes its name.
ReconcileReinstate ==
  \/ /\ At({"reconcile"}, "movePartial")
     /\ dir' = Renamed("live", "partial") /\ Goto("dropPartial") /\ Quiet
  \/ At({"reconcile"}, "dropPartial") /\ RemoveAll("partial", "back")
  \/ /\ At({"reconcile"}, "back")
     /\ dir' = Renamed("bak", "live") /\ Goto("up") /\ Quiet

\* An operation of it that fails ends it, and the next start tries again;
\* removing .partial is the one that may fail unnoticed.
ReconcileFails ==
  /\ call.op = "reconcile" /\ call.at \notin {"decide", "up"}
  /\ MayFail /\ Spend("errors")
  /\ call' = IF call.at = "dropPartial" THEN [call EXCEPT !.at = "back"] ELSE Idle
  /\ UNCHANGED <<dir, running, result>>

\* The server opens the database.
Up ==
  /\ At({"reconcile"}, "up")
  /\ running' = TRUE /\ call' = Idle
  /\ UNCHANGED <<dir, result, spent>>

----------------------------------------------------------------------------
(* What happens around these calls.                                        *)

Change ==
  /\ running /\ call = Idle /\ spent.changes < MaxChanges /\ Spend("changes")
  /\ result' = NoResult
  /\ UNCHANGED <<call, running>>

\* The database is written and flushed; the optional files are there or not.
Write ==
  /\ Change /\ Opens(dir["live"])
  /\ \E names \in {RequiredFiles, FileNames} :
       dir' = [dir EXCEPT !["live"] = Database(spent.changes + 3, names)]

\* A file of the snapshot rots or is lost while it is kept.
Rot ==
  /\ Change /\ dir["snap"].there
  /\ \E f \in Has(dir["snap"]) :
       \/ dir' = [dir EXCEPT !["snap"].files[f].ok = FALSE]
       \/ dir' = [dir EXCEPT !["snap"].files[f] = NoFile]

\* The live directory is destroyed or loses a file: the case a restore is for.
Destroy ==
  /\ Change /\ dir["live"].there
  /\ \/ dir' = [dir EXCEPT !["live"] = Absent]
     \/ \E f \in Has(dir["live"]) : dir' = [dir EXCEPT !["live"].files[f] = NoFile]

RestoreStep ==
  \/ Restore \/ ClearBak \/ SetAside \/ FsyncAside \/ UndoAside
  \/ FsyncFiles \/ OpenRestored \/ Commit \/ DropLive
  \/ MoveLive \/ MoveBack \/ DropFailed
CopyStep ==
  \/ Snapshot \/ CopyStart \/ ClearStaging \/ Stage \/ CopyFile \/ DropStaging
  \/ ClearDest \/ Install \/ FsyncDest
Reconcile ==
  \/ ReconcileCopies \/ ReconcileDecide \/ ReconcileDropBak \/ ReconcileReinstate
  \/ ReconcileFails \/ Up
NextBackup ==
  \/ RestoreStep \/ CopyStep
  \/ Kill \/ Start \/ Reconcile
  \/ Write \/ Rot \/ Destroy

SpecBackup == InitBackup /\ [][NextBackup]_backupVars

\* An offline tool takes the database up again without reconciling it.
StartOffline ==
  /\ ~running /\ call = Idle
  /\ running' = TRUE
  /\ UNCHANGED <<dir, call, result, spent>>

----------------------------------------------------------------------------
(* Properties.                                                             *)

\* The copy of a snapshot: all its files, and no others unless the staging
\* directory could not be cleared of an earlier copy.
IsCopy(d, source, clean) ==
  /\ d.there /\ \A f \in Has(source) : d.files[f] = source.files[f]
  /\ clean => d = source

\* A restore that answers is all or nothing, whatever operations of it failed:
\* after Ok the live directory is a copy of the snapshot and opens; after an
\* error a live directory is what it was, or is gone and .bak is what it was:
\* the rollback failed as well.
RestoreIsAllOrNothing ==
  call = Idle =>
    CASE result.outcome = "Ok" -> IsCopy(dir["live"], result.source, result.clean) /\ Opens(dir["live"])
      [] result.outcome = "RollbackFailed" -> dir["bak"] = result.before
      [] result.outcome = "CopyFailed" ->
           result.before.there =>
             \/ dir["live"] = result.before
             \/ ~dir["live"].there /\ dir["bak"] = result.before
      [] result.outcome \in {"SourceInvalid", "ValidationFailed"} ->
           result.before.there => dir["live"] = result.before
      [] OTHER -> TRUE

\* "CopyFailed if the file copy or an fsync fails (live db reinstated)".
\* Refuted: when the directory cannot be synced after the live one was set
\* aside, it is renamed back once, and that this failed is not reported.
CopyFailedReinstates ==
  (call = Idle /\ result.outcome = "CopyFailed" /\ result.before.there) =>
  dir["live"] = result.before

\* A restore of a readable snapshot over a complete database, cut short at
\* any point, and whose clearing up may be cut short too, leaves the database
\* as it was or as the snapshot, never a mixture and never nothing.
CutRestoreIsEither ==
  (running /\ call = Idle /\ result.outcome = "cut" /\ ValidSource(result.before)
    /\ Opens(result.source)) =>
  dir["live"] = result.before \/ IsCopy(dir["live"], result.source, result.clean)

\* "A crash at any point leaves either the original database (via the .bak,
\* which a server reconciles on startup) or the fully-restored one": the
\* snapshot here need not be readable.
CrashLeavesEither ==
  (running /\ call = Idle /\ result.outcome = "cut" /\ ValidSource(result.before)) =>
  dir["live"] = result.before \/ (dir["live"] = result.source /\ Opens(dir["live"]))

\* A .bak that an interrupted restore left is never silently destroyed: with
\* a live directory at the start and none destroyed since, one of the two is
\* there whenever nothing runs.
OneCopySurvives == call = Idle => dir["live"].there \/ dir["bak"].there

\* A restore is all or nothing: when it answers, whatever failed in it, and
\* when it is cut short with a readable snapshot.
RestoreIsAtomic ==
  RestoreIsAllOrNothing /\ CutRestoreIsEither

=============================================================================
