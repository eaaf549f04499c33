----------------------------- MODULE Durability -----------------------------
(***************************************************************************)
(* The write-ahead log under the transaction engine, crashes and recovery: *)
(* what commit_txn appends and syncs, what flush checkpoints and truncates, *)
(* what the buffer pool may have written by the time of a crash, and what  *)
(* FileBackend::open replays.                                              *)
(*                                                                         *)
(* Mvcc's `page` is the buffer pool's view of a slot; `disk` is the file.  *)
(* A crash keeps the synced prefix of the log and any part of the unsynced *)
(* rest (the BufWriter spills when full).  Begin and Rollback markers are  *)
(* left out of the log: recovery ignores both.                             *)
(***************************************************************************)
EXTENDS Mvcc, SequencesExt

CONSTANT
    Budgets     \* bounds: how often the store is opened, flushed, fails, opens a batch

ASSUME BudgetsAssumption ==
    Budgets \subseteq [lives : Nat, flush : Nat, fail : Nat, batch : Nat]

VARIABLES
    wal,        \* wal.log with the writer's buffer: the records in LSN order
    synced,     \* how many of them the last successful sync covers
    disk,       \* the version in each slot of the data files
    diskIds,    \* next_node_id and next_edge_id in graph.meta
    batchOpen,  \* batch_depth > 0, on behalf of whichever session
    committing, \* the transaction whose commit holds the lock, log written, not synced
    causes,     \* history: what has put the recovery of a record in doubt
    budget      \* bound: lives, checkpoints, failures and batches left

logVars == <<wal, synced>>
diskVars == <<disk, diskIds>>
durVars == <<vars, logVars, diskVars, batchOpen, committing, causes, budget>>

Redo(k, v, t) == [kind |-> "Write", key |-> k, val |-> v, txn |-> t]

CommitMarker(t) == [kind |-> "Commit", txn |-> t]

OwnNewest(t, k) == Newest(OfTxn(chain[k], t)).new

\* The records of one commit: a redo per written record, then the marker.
CommitRecords(t) ==
    LET keys == SetToSeq({k \in written[t] : OfTxn(chain[k], t) # {}})
    IN  Append([i \in DOMAIN keys |-> Redo(keys[i], OwnNewest(t, keys[i]), t)], CommitMarker(t))

\* wal_sync is skipped while a batch is open.
WalSync(log) == synced' = IF batchOpen THEN synced ELSE Len(log)

\* Closing a batch syncs what its commits left unsynced.
Settled(c) == c \ {"batch"}

-----------------------------------------------------------------------------

InitDurability ==
    /\ Init
    /\ wal = <<>>
    /\ synced = 0
    /\ disk = page
    /\ diskIds = <<nextNode, nextEdge>>
    /\ batchOpen = FALSE
    /\ committing = NoTxn
    /\ causes = [k \in Keys |-> {}]
    /\ budget \in Budgets

-----------------------------------------------------------------------------
(* Commit, in the two halves a crash can fall between.                     *)

CommittedTxnIds(log) == {r.txn : r \in {s \in Range(log) : s.kind = "Commit"}}

\* The log already has a marker for this id, of an earlier life or attempt.
ReuseCause(t, k) == {c \in {"reuse"} : t \in CommittedTxnIds(wal) /\ k \in written[t]}

LogCommit(t) ==
    /\ committing = NoTxn
    /\ t \in active
    /\ clock < MaxClock
    /\ committing' = t
    /\ wal' = wal \o CommitRecords(t)
    /\ causes' = [k \in Keys |-> causes[k] \cup ReuseCause(t, k)]
    /\ UNCHANGED <<vars, synced, diskVars, batchOpen, budget>>

Endpoints(t) == UNION {Ends[e] : e \in NetInserts(t) \cap Edges}

\* Mutant: the deltas become visible and the sync is left to the next one.
FinishCommit_NoSync ==
    /\ committing # NoTxn
    /\ CommitTxn(committing)
    /\ committing' = NoTxn
    /\ UNCHANGED <<logVars, diskVars, batchOpen, causes, budget>>

\* The sync succeeded: publish.  Linking a new edge then rewrites the slot of
\* each endpoint, logging the version in the page as an auto-commit record
\* that no sync follows.
FinishCommit ==
    LET t == committing
        rewritten == SetToSeq({n \in Endpoints(t) : MaterializedAtCommit(t)[n] # Absent})
    IN  /\ t # NoTxn
        /\ batchOpen => Endpoints(t) = {}
        /\ CommitTxn(t)
        /\ committing' = NoTxn
        /\ WalSync(wal)
        /\ wal' = wal \o [i \in DOMAIN rewritten |-> Redo(rewritten[i], page'[rewritten[i]], NoTxn)]
        /\ causes' = [k \in Keys |->
               (IF k \in written[t] THEN {} ELSE causes[k])
               \cup {c \in {"order"} : k \in written[t] /\ OwnNewest(t, k) # ReadAutoCommit(k)'}
               \cup {c \in {"pointer"} : k \in Range(rewritten) /\ page'[k] # ReadAutoCommit(k)'}
               \cup {c \in {"batch"} : batchOpen /\ k \in written[t]}]
        /\ UNCHANGED <<diskVars, batchOpen, budget>>

\* The sync failed: the transaction stays active, its records stay in the log.
FailSync ==
    /\ committing # NoTxn
    /\ ~batchOpen
    /\ budget.fail > 0
    /\ CommitTxnFails(committing)
    /\ committing' = NoTxn
    /\ causes' = [k \in Keys |-> causes[k] \cup {c \in {"failed"} : k \in written[committing]}]
    /\ budget' = [budget EXCEPT !.fail = @ - 1]
    /\ UNCHANGED <<logVars, diskVars, batchOpen>>

\* One of the appends failed: only a proper prefix of the records is there.
FailAppend(t) ==
    /\ committing = NoTxn
    /\ budget.fail > 0
    /\ CommitTxnFails(t)
    /\ \E n \in 0 .. (Len(CommitRecords(t)) - 1) : wal' = wal \o SubSeq(CommitRecords(t), 1, n)
    /\ causes' = [k \in Keys |-> causes[k] \cup ReuseCause(t, k)]
    /\ budget' = [budget EXCEPT !.fail = @ - 1]
    /\ UNCHANGED <<synced, diskVars, batchOpen, committing>>

\* The in-memory undo comes first; the sync of the marker may fail.
Rollback(t) ==
    /\ committing = NoTxn
    /\ RollbackTxn(t)
    /\ WalSync(wal) \/ UNCHANGED synced
    /\ UNCHANGED <<wal, diskVars, batchOpen, committing, causes, budget>>

\* A memory-cap abort inside a write rolls back like Rollback with a failed
\* sync; a successful one only narrows what a crash may lose.
MemoryStep ==
    /\ committing = NoTxn
    /\ BeginTxn \/ WriteInTxn \/ VacuumOnce
    /\ UNCHANGED <<logVars, diskVars, batchOpen, committing, causes, budget>>

-----------------------------------------------------------------------------
(* Batches, checkpoints and the buffer pool.                               *)

BeginBatch ==
    /\ committing = NoTxn
    /\ ~batchOpen
    /\ budget.batch > 0
    /\ batchOpen' = TRUE
    /\ budget' = [budget EXCEPT !.batch = @ - 1]
    /\ UNCHANGED <<vars, logVars, diskVars, committing, causes>>

\* Graph::flush: every dirty page and graph.meta are written, the log is emptied.
Checkpoint ==
    /\ budget.flush > 0
    /\ disk' = page
    /\ diskIds' = <<nextNode, nextEdge>>
    /\ wal' = <<>>
    /\ synced' = 0
    /\ causes' = [k \in Keys |-> {c \in {"checkpoint"} : page[k] # ReadAutoCommit(k)}]
    /\ budget' = [budget EXCEPT !.flush = @ - 1]

\* end_batch syncs (or fails to), and checkpoints a log past its threshold.
EndBatch ==
    /\ committing = NoTxn
    /\ batchOpen
    /\ batchOpen' = FALSE
    /\ \/ /\ synced' = Len(wal)
          /\ causes' = [k \in Keys |-> Settled(causes[k])]
          /\ UNCHANGED <<wal, diskVars, budget>>
       \/ UNCHANGED <<logVars, diskVars, causes, budget>>
       \/ Checkpoint
    /\ UNCHANGED <<vars, committing>>

Flush ==
    /\ committing = NoTxn
    /\ Checkpoint
    /\ UNCHANGED <<vars, batchOpen, committing>>

\* The pool writes a dirty page of one data file back to make room.
Evict(file) ==
    /\ committing = NoTxn
    /\ \E k \in file : disk[k] # page[k]
    /\ disk' = [k \in Keys |-> IF k \in file THEN page[k] ELSE disk[k]]
    /\ UNCHANGED <<vars, logVars, diskIds, batchOpen, committing, causes, budget>>

-----------------------------------------------------------------------------
(* Crash and reopen.                                                       *)

\* Mutant: records are replayed whether or not their transaction committed.
DurableRecords_All(log) == {i \in DOMAIN log : log[i].kind = "Write"}

\* The places of the records recovery replays: auto-commit ones and those of
\* transactions with a Commit marker anywhere in the log.
DurableRecords(log) ==
    {i \in DOMAIN log : log[i].kind = "Write" /\ log[i].txn \in CommittedTxnIds(log) \cup {NoTxn}}

\* Replayed in log order, so the last one of a record stays.
ReplayRecords(log) ==
    [k \in Keys |->
        LET own == {i \in DurableRecords(log) : log[i].key = k}
        IN  IF own = {} THEN disk[k] ELSE log[Max(own)].val]

NextId(stored, live) == Max({stored} \cup {k + 1 : k \in live})

\* FileBackend::open, Graph::open and enable_mvcc on what a crash left: replay,
\* truncate the log only if a record was replayed, rebuild the existence sets
\* from the pages, start clock and transaction ids afresh.
CrashAndReopen(kept) ==
    LET log == SubSeq(wal, 1, kept)
        recovered == ReplayRecords(log)
        live == {k \in Keys : recovered[k] # Absent}
    IN  /\ budget.lives > 0
        /\ budget' = [budget EXCEPT !.lives = @ - 1]
        /\ page' = recovered
        /\ disk' = recovered
        /\ wal' = IF DurableRecords(log) = {} THEN log ELSE <<>>
        /\ synced' = Len(wal')
        /\ clock' = 1
        /\ nextTxn' = 1
        /\ active' = {}
        /\ startTs' = [t \in TxnIds |-> 0]
        /\ used' = [t \in TxnIds |-> 0]
        /\ written' = [t \in TxnIds |-> {}]
        /\ pending' = [t \in TxnIds |-> {}]
        /\ chain' = [k \in Keys |-> {}]
        /\ exists' = live
        /\ nextNode' = NextId(diskIds[1], live \cap Nodes)
        /\ nextEdge' = NextId(diskIds[2], live \cap Edges)
        /\ batchOpen' = FALSE
        /\ committing' = NoTxn
        /\ causes' = [k \in Keys |->
               {c \in {"reuse"} : \E r \in Range(wal') : r.kind = "Write" /\ r.key = k}]
        /\ UNCHANGED diskIds

-----------------------------------------------------------------------------

NextDurability ==
    \/ MemoryStep
    \/ \E t \in active : LogCommit(t) \/ FailAppend(t) \/ Rollback(t)
    \/ FinishCommit
    \/ FailSync
    \/ BeginBatch
    \/ EndBatch
    \/ Flush
    \/ Evict(Nodes)
    \/ Evict(Edges)
    \/ \E kept \in synced .. Len(wal) : CrashAndReopen(kept)

SpecDurability == InitDurability /\ [][NextDurability]_durVars

-----------------------------------------------------------------------------
(* Properties.                                                             *)

\* A crash loses and invents nothing on the records whose recovery only the
\* `tolerated` causes put in doubt: the store reopens with what an auto-commit
\* reader saw, or, when the crash fell inside a commit, with all of that
\* transaction on top of it.
RecoversExactly(tolerated) ==
    LET sound == {k \in Keys : causes[k] \subseteq tolerated}
        before == [k \in Keys |-> ReadAutoCommit(k)]
        after == [k \in Keys |->
                     IF committing # NoTxn /\ k \in written[committing]
                     THEN OwnNewest(committing, k) ELSE before[k]]
    IN  \/ \A k \in sound : page'[k] = before[k]
        \/ \A k \in sound : page'[k] = after[k]

Reopened == budget'.lives # budget.lives

\* commit_txn is durable and atomic across crashes, whatever the order of
\* writes, commits, vacuums, evictions, checkpoints and restarts, on every
\* record none of the six named causes has touched since its last clean commit.
RecoveryIsExact == [][Reopened => RecoversExactly({})]_durVars

\* "truncating the journal is only safe once everything it holds ... is on
\* disk" (end_batch), "all data is on disk" (flush): a checkpoint does not cost
\* a committed version.
CheckpointIsSafe == [][Reopened => RecoversExactly({"checkpoint"})]_durVars

\* "an uncommitted transaction is discarded" on recovery (rollback_txn), also
\* when its commit was tried, failed and was then rolled back.
FailedCommitIsDiscarded ==
    [][Reopened /\ active = {} => RecoversExactly({"failed"})]_durVars

\* "An in-flight write whose transaction begun but never committed across a
\* crash is dropped" (replay_records), also at the crash after the next.
UncommittedIsDropped == [][Reopened => RecoversExactly({"reuse"})]_durVars

\* "a crash never leaves the in-memory state disagreeing with the WAL"
\* (commit_txn), when two transactions wrote the same record.
LogOrderIsVisibleOrder == [][Reopened => RecoversExactly({"order"})]_durVars

\* A committed version has "a durable WAL redo (replayed on recovery)"
\* (commit_txn), and linking an edge to the record does not undo it.
LinkingKeepsVersions == [][Reopened => RecoversExactly({"pointer"})]_durVars

\* "no reader ever saw a value that isn't durable" (commit_txn), while another
\* session has a batch open.
VisibleIsDurable == [][Reopened => RecoversExactly({"batch"})]_durVars

=============================================================================
