--------------------------- MODULE SnapshotStore ---------------------------
(***************************************************************************)
(* What the transaction engine promises, without clocks, chains or pages:  *)
(* a store of committed versions; a transaction reads the store as it was  *)
(* when it began, under its own writes; a commit publishes its writes at   *)
(* once and a rollback publishes nothing.                                  *)
(*                                                                         *)
(* The engine detects no write-write conflicts.  When a transaction        *)
(* commits a record that a transaction overlapping it has committed        *)
(* meanwhile, the store keeps one of the two versions: which one depends   *)
(* on the order of the writes, not of the commits.                         *)
(***************************************************************************)
CONSTANTS Keys, Versions, TxnIds, NotWritten, NoSnapshot

VARIABLES
    db,         \* the committed version of every record
    live,       \* transactions begun and not ended
    snap,       \* the store each live transaction reads
    writes,     \* the versions each transaction has written
    overlap     \* records committed by others since the transaction began

vars == <<db, live, snap, writes, overlap>>

NoWrites == [k \in Keys |-> NotWritten]

Read(t, k) == IF writes[t][k] # NotWritten THEN writes[t][k] ELSE snap[t][k]

Init ==
    /\ db \in [Keys -> Versions]
    /\ live = {}
    /\ snap = [t \in TxnIds |-> NoSnapshot]
    /\ writes = [t \in TxnIds |-> NoWrites]
    /\ overlap = [t \in TxnIds |-> {}]

Begin(t) ==
    /\ t \notin live
    /\ live' = live \cup {t}
    /\ snap' = [snap EXCEPT ![t] = db]
    /\ UNCHANGED <<db, writes, overlap>>

Write(t, k, v) ==
    /\ t \in live
    /\ writes' = [writes EXCEPT ![t][k] = v]
    /\ UNCHANGED <<db, live, snap, overlap>>

WriteSet(t) == {k \in Keys : writes[t][k] # NotWritten}

Forget(t) ==
    /\ live' = live \ {t}
    /\ snap' = [snap EXCEPT ![t] = NoSnapshot]
    /\ writes' = [writes EXCEPT ![t] = NoWrites]

Commit(t) ==
    /\ t \in live
    /\ \E kept \in SUBSET (WriteSet(t) \cap overlap[t]) :
          db' = [k \in Keys |-> IF k \in WriteSet(t) \ kept THEN writes[t][k] ELSE db[k]]
    /\ overlap' = [u \in TxnIds |-> IF u \in live \ {t} THEN overlap[u] \cup WriteSet(t) ELSE {}]
    /\ Forget(t)

Rollback(t) ==
    /\ t \in live
    /\ overlap' = [overlap EXCEPT ![t] = {}]
    /\ Forget(t)
    /\ UNCHANGED db

Next ==
    \E t \in TxnIds :
        \/ Begin(t) \/ Commit(t) \/ Rollback(t)
        \/ \E k \in Keys, v \in Versions : Write(t, k, v)

Spec == Init /\ [][Next]_vars

=============================================================================
