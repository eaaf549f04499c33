--------------------------- MODULE MvccRefinement ---------------------------
(***************************************************************************)
(* The engine of Mvcc implements SnapshotStore.  The snapshot of a live    *)
(* transaction is nowhere stored: it is what the chains and the pages      *)
(* resolve to at its start_ts.                                             *)
(***************************************************************************)
EXTENDS Mvcc

CONSTANTS NotWritten, NoSnapshot

ASSUME NotWrittenAssumption == NotWritten \notin Versions

SnapshotOf(t) ==
    IF t \in active THEN [k \in Keys |-> ResolveVisible(k, startTs[t], NoTxn)] ELSE NoSnapshot

WritesOf(t) ==
    [k \in Keys |-> IF OfTxn(chain[k], t) # {} /\ t \in active
                    THEN Newest(OfTxn(chain[k], t)).new
                    ELSE NotWritten]

\* No chain with a commit younger than a live snapshot is ever vacuumed, so the
\* overlapping commits of a live transaction are all on the chains.
OverlapOf(t) ==
    {k \in Keys : t \in active /\ \E d \in chain[k] : d.cts # Uncommitted /\ d.cts > startTs[t]}

StoreDb == [k \in Keys |-> ReadAutoCommit(k)]
StoreSnap == [t \in TxnIds |-> SnapshotOf(t)]
StoreWrites == [t \in TxnIds |-> WritesOf(t)]
StoreOverlap == [t \in TxnIds |-> OverlapOf(t)]

Store == INSTANCE SnapshotStore WITH
    db <- StoreDb, live <- active, snap <- StoreSnap, writes <- StoreWrites, overlap <- StoreOverlap

\* A graph without edges, for Ends.
NoEdges == [e \in {} |-> {}]

\* The engine over a graph whose edges may change and go but none is created: a
\* commit then links no edge, so it materialises no page (MaterializedAtCommit).
SpecFixedEdges == Init /\ [][Next /\ UNCHANGED nextEdge]_vars

\* Every step of the engine, as long as no edge is created, is a step of the
\* snapshot store or changes nothing a client can see: begin_txn takes the
\* snapshot, commit_txn publishes, the vacuum is invisible.
RefinesSnapshotStore == Store!Spec

\* A transaction reads its own last write of a record, else its snapshot of it
\* (node_in_txn: "the transaction's own uncommitted writes plus everything
\* committed before it began").
ReadYourWrites ==
    \A t \in active, k \in Keys : ReadInTxn(t, k) = Store!Read(t, k)

=============================================================================
