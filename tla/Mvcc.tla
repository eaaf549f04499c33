-------------------------------- MODULE Mvcc --------------------------------
(***************************************************************************)
(* The multi-version transaction engine of crates/ermya-graph: the clock,  *)
(* the transaction registry, the delta chains, the page slots under them   *)
(* and the existence set, as `Graph` drives them through begin_txn, the    *)
(* *_in_txn writers, commit_txn, rollback_txn and vacuum_once.             *)
(*                                                                         *)
(* Every action is one `&mut Graph` method: `SharedGraph` serialises them  *)
(* behind one RwLock, so transactions interleave method by method.         *)
(*                                                                         *)
(* A chain is the set of its deltas, ordered by `pos` (the push order: the *)
(* code keeps them newest first).  A version is a value or Absent; Absent  *)
(* stands for `None`, for `EntitySnapshot::Deleted` and for a page slot    *)
(* that is not live: every reader treats the three alike.                  *)
(***************************************************************************)
EXTENDS Integers, FiniteSets

CONSTANTS
    MaxNode,    \* node ids are 1 .. MaxNode
    MaxEdge,    \* edge ids are MaxNode+1 .. MaxNode+MaxEdge (EntityKey tags them)
    Ends,       \* the endpoints the creator of each edge id gives it
    Values,     \* label and properties of one version of a record
    Absent,     \* no version
    MaxTxn,     \* bound: transactions begun in one process
    MaxClock,   \* bound: timestamps drawn (failed commits draw one too)
    MemCap      \* txn_memory_cap, in deltas

Nodes == 1 .. MaxNode
Edges == (MaxNode + 1) .. (MaxNode + MaxEdge)
Keys == Nodes \cup Edges
TxnIds == 1 .. MaxTxn
Versions == Values \cup {Absent}
NoTxn == 0          \* reader_txn_id = None: an auto-commit reader
Uncommitted == 0    \* commit_ts = None; the clock starts at 1

ASSUME BoundsAssumption ==
    MaxNode \in Nat /\ MaxEdge \in Nat /\ MaxTxn \in Nat /\ MaxClock \in Nat /\ MemCap \in Nat

ASSUME EndsAssumption == Ends \in [Edges -> SUBSET Nodes]

ASSUME AbsentAssumption == Absent \notin Values

Delta == [pos : Nat, txn : TxnIds, op : {"Insert", "Update", "Delete"},
          prior : Versions, new : Versions, cts : Nat]

VARIABLES
    clock,      \* TxnClock: the next timestamp to hand out
    nextTxn,    \* TxnRegistry.next_txn_id
    active,     \* TxnRegistry.active: the live transactions
    startTs,    \* ... and the snapshot of each
    used,       \* ... and its bytes_used
    written,    \* TxnRegistry.written: the keys each transaction touched
    pending,    \* TxnRegistry.overlays: ids each transaction inserted
    chain,      \* DeltaTable: the deltas of each record
    page,       \* the version in each record's page slot
    exists,     \* node_exists and edge_exists
    nextNode,   \* meta.next_node_id
    nextEdge    \* meta.next_edge_id

registryVars == <<active, startTs, used, written, pending>>
idVars == <<nextNode, nextEdge>>
vars == <<clock, nextTxn, registryVars, chain, page, exists, idVars>>

-----------------------------------------------------------------------------
(* Delta chains and visibility.                                            *)

Newest(ds) == CHOOSE d \in ds : \A e \in ds : e.pos <= d.pos

Oldest(ds) == CHOOSE d \in ds : \A e \in ds : d.pos <= e.pos

OfTxn(ds, t) == {d \in ds : d.txn = t}

Stamped(d, t, ts) ==
    IF d.txn = t /\ d.cts = Uncommitted THEN [d EXCEPT !.cts = ts] ELSE d

\* Mutant: only the newest delta of the transaction is stamped.
StampTxn_NewestOnly(ds, t, ts) ==
    {IF d = Newest(OfTxn(ds, t)) THEN Stamped(d, t, ts) ELSE d : d \in ds}

StampTxn(ds, t, ts) == {Stamped(d, t, ts) : d \in ds}

RemoveTxn(ds, t) == {d \in ds : d.txn # t}

\* Mutant: a transaction does not see its own deltas.
DeltaVisibleTo_CommittedOnly(d, ts, reader) == d.cts # Uncommitted /\ d.cts < ts

DeltaVisibleTo(d, ts, reader) ==
    \/ d.txn = reader
    \/ d.cts # Uncommitted /\ d.cts < ts

VisibleDeltas(ds, ts, reader) == {d \in ds : DeltaVisibleTo(d, ts, reader)}

ApplyDeltasForRead(base, ds, ts, reader) ==
    LET vis == VisibleDeltas(ds, ts, reader)
    IN  IF vis = {} THEN base ELSE Newest(vis).new

\* oldest_active_start_ts is the least start_ts of a live transaction, so
\* "commit_ts < watermark" is "older than every live snapshot".
BelowWatermark(ts) == \A t \in active : ts < startTs[t]

\* Mutant: every committed delta is drained, whoever may still need the page.
SafeToVacuum_NoWatermark(d) == d.cts # Uncommitted

SafeToVacuum(d) == d.cts # Uncommitted /\ BelowWatermark(d.cts)

AllSafeToVacuum(k) == \A d \in chain[k] : SafeToVacuum(d)

-----------------------------------------------------------------------------
(* Reads.  The page is consulted only for a record in the existence set;   *)
(* a slot that does not decode reads as Absent.                            *)

CommittedBase(k) == IF k \in exists THEN page[k] ELSE Absent

ResolveVisible(k, ts, reader) ==
    ApplyDeltasForRead(CommittedBase(k), chain[k], ts, reader)

ReadInTxn(t, k) == ResolveVisible(k, startTs[t], t)

ReadAutoCommit(k) == ResolveVisible(k, clock, NoTxn)

NodeIdsInTxn(t) ==
    {n \in Nodes : n \in exists \cup pending[t] /\ ReadInTxn(t, n) # Absent}

\* The version a new delta of t chains onto: its own pending one, else the page.
ChainBase(t, k) ==
    LET own == {d \in chain[k] : d.txn = t /\ d.cts = Uncommitted}
    IN  IF own # {} THEN Newest(own).new ELSE CommittedBase(k)

-----------------------------------------------------------------------------
(* Initial states: a store just opened, its ids dense below the counters,  *)
(* some of them since deleted, no edge without its endpoints.              *)

Init ==
    /\ clock = 1
    /\ nextTxn = 1
    /\ active = {}
    /\ startTs = [t \in TxnIds |-> 0]
    /\ used = [t \in TxnIds |-> 0]
    /\ written = [t \in TxnIds |-> {}]
    /\ pending = [t \in TxnIds |-> {}]
    /\ chain = [k \in Keys |-> {}]
    /\ page \in [Keys -> Versions]
    /\ exists = {k \in Keys : page[k] # Absent}
    /\ nextNode \in 1 .. (MaxNode + 1)
    /\ nextEdge \in (MaxNode + 1) .. (MaxNode + MaxEdge + 1)
    /\ \A n \in Nodes : page[n] # Absent => n < nextNode
    /\ \A e \in Edges : page[e] # Absent => e < nextEdge /\ Ends[e] \subseteq exists

-----------------------------------------------------------------------------
(* Transaction control.                                                    *)

\* The second disjunct is a failed WAL append of the Begin marker: the id and
\* the timestamp are spent and the registry entry is taken back.
BeginTxn ==
    /\ nextTxn <= MaxTxn
    /\ clock < MaxClock
    /\ nextTxn' = nextTxn + 1
    /\ clock' = clock + 1
    /\ \/ /\ active' = active \cup {nextTxn}
          /\ startTs' = [startTs EXCEPT ![nextTxn] = clock]
       \/ UNCHANGED <<active, startTs>>
    /\ UNCHANGED <<used, written, pending, chain, page, exists, idVars>>

\* TxnRegistry.end: every per-transaction entry goes.
EndTxn(t) ==
    /\ active' = active \ {t}
    /\ startTs' = [startTs EXCEPT ![t] = 0]
    /\ used' = [used EXCEPT ![t] = 0]
    /\ written' = [written EXCEPT ![t] = {}]
    /\ pending' = [pending EXCEPT ![t] = {}]

\* Mutant: undo walks the overlay of inserted ids instead of the reverse index.
Undo_OverlayOnly(t) ==
    /\ chain' = [k \in Keys |-> IF k \in pending[t] THEN RemoveTxn(chain[k], t) ELSE chain[k]]
    /\ EndTxn(t)

\* In-memory undo: drop the transaction's deltas, then end it.
Undo(t) ==
    /\ chain' = [k \in Keys |-> IF k \in written[t] THEN RemoveTxn(chain[k], t) ELSE chain[k]]
    /\ EndTxn(t)

\* A failed append or sync of the Rollback marker leaves the same state.
RollbackTxn(t) ==
    /\ t \in active
    /\ Undo(t)
    /\ UNCHANGED <<clock, nextTxn, page, exists, idVars>>

PushTxnDelta(t, k, op, prior, new) ==
    LET pos == IF chain[k] = {} THEN 1 ELSE Newest(chain[k]).pos + 1
        delta == [pos |-> pos, txn |-> t, op |-> op, prior |-> prior,
                  new |-> new, cts |-> Uncommitted]
    IN  /\ chain' = [chain EXCEPT ![k] = @ \cup {delta}]
        /\ written' = [written EXCEPT ![t] = @ \cup {k}]
        /\ pending' = [pending EXCEPT ![t] = IF op = "Insert" THEN @ \cup {k} ELSE @]
        /\ used' = [used EXCEPT ![t] = @ + 1]
        /\ UNCHANGED <<active, startTs>>

\* charge_txn_memory runs before the push: over the cap the whole transaction
\* is rolled back instead, and the caller gets TxnMemoryCapExceeded.
ChargeThenPush(t, k, op, prior, new) ==
    IF used[t] + 1 > MemCap THEN Undo(t) ELSE PushTxnDelta(t, k, op, prior, new)

-----------------------------------------------------------------------------
(* The transactional writers.  A refused write (not visible, not active)   *)
(* changes nothing.  An id is burned even when the transaction is aborted. *)

AddNodeInTxn(t, v) ==
    /\ t \in active
    /\ nextNode \in Nodes
    /\ nextNode' = nextNode + 1
    /\ ChargeThenPush(t, nextNode, "Insert", Absent, v)
    /\ UNCHANGED <<clock, nextTxn, page, exists, nextEdge>>

UpdateNodeInTxn(t, n, v) ==
    /\ t \in active
    /\ ReadInTxn(t, n) # Absent
    /\ ChargeThenPush(t, n, "Update", ChainBase(t, n), v)
    /\ UNCHANGED <<clock, nextTxn, page, exists, idVars>>

RemoveNodeInTxn(t, n) ==
    /\ t \in active
    /\ ReadInTxn(t, n) # Absent
    /\ ChargeThenPush(t, n, "Delete", ChainBase(t, n), Absent)
    /\ UNCHANGED <<clock, nextTxn, page, exists, idVars>>

AddEdgeInTxn(t, v) ==
    /\ t \in active
    /\ nextEdge \in Edges
    /\ \A n \in Ends[nextEdge] : ReadInTxn(t, n) # Absent
    /\ nextEdge' = nextEdge + 1
    /\ ChargeThenPush(t, nextEdge, "Insert", Absent, v)
    /\ UNCHANGED <<clock, nextTxn, page, exists, nextNode>>

UpdateEdgeInTxn(t, e, v) ==
    /\ t \in active
    /\ ReadInTxn(t, e) # Absent
    /\ ChargeThenPush(t, e, "Update", ChainBase(t, e), v)
    /\ UNCHANGED <<clock, nextTxn, page, exists, idVars>>

RemoveEdgeInTxn(t, e) ==
    /\ t \in active
    /\ ReadInTxn(t, e) # Absent
    /\ ChargeThenPush(t, e, "Delete", ChainBase(t, e), Absent)
    /\ UNCHANGED <<clock, nextTxn, page, exists, idVars>>

-----------------------------------------------------------------------------
(* Commit: stamp, reconcile the additions, end.                            *)

StampedChain(t, k) ==
    IF k \in written[t] THEN StampTxn(chain[k], t, clock) ELSE chain[k]

\* Mutant: only the newest operation decides what the transaction did.
NetInserts_NewestOp(t) ==
    {k \in written[t] : LET own == OfTxn(chain[k], t)
                       IN  own # {} /\ Newest(own).op = "Insert"}

\* The keys whose record the transaction, as a whole, created: its oldest
\* delta is an insert and its newest leaves a version behind.
NetInserts(t) ==
    {k \in written[t] : LET own == OfTxn(chain[k], t)
                       IN  own # {} /\ Oldest(own).op = "Insert" /\ Newest(own).new # Absent}

\* Reconciling a new edge links it into both endpoints' adjacency, which
\* persists the adjacency head in the endpoint's slot.  A slot that is not
\* live yet is materialised, whole, from the newest committed version.
MaterializedAtCommit(t) ==
    LET touched == UNION {Ends[e] : e \in NetInserts(t) \cap Edges}
    IN  [k \in Keys |->
            IF k \in touched /\ page[k] = Absent
            THEN ApplyDeltasForRead(Absent, StampedChain(t, k), clock + 1, NoTxn)
            ELSE page[k]]

CommitTxn(t) ==
    /\ t \in active
    /\ clock < MaxClock
    /\ clock' = clock + 1
    /\ chain' = [k \in Keys |-> StampedChain(t, k)]
    /\ exists' = exists \cup NetInserts(t)
    /\ page' = MaterializedAtCommit(t)
    /\ EndTxn(t)
    /\ UNCHANGED <<nextTxn, idVars>>

\* The WAL redo, the Commit marker or the sync failed: the timestamp is spent,
\* the transaction stays active and nothing became visible.
CommitTxnFails(t) ==
    /\ t \in active
    /\ clock < MaxClock
    /\ clock' = clock + 1
    /\ UNCHANGED <<nextTxn, registryVars, chain, page, exists, idVars>>

-----------------------------------------------------------------------------
(* Vacuum: drain the chains no live snapshot needs and write their newest  *)
(* version to the page.                                                    *)

Drainable == {k \in Keys : chain[k] # {} /\ AllSafeToVacuum(k)}

\* apply_vacuum_category_b, existence part: a chain that ends deleted leaves
\* the existence set when its oldest delta replaced a version.
VacuumedDeletes ==
    {k \in Drainable : Newest(chain[k]).new = Absent /\ Oldest(chain[k]).prior # Absent}

VacuumOnce ==
    /\ Drainable # {}
    /\ page' = [k \in Keys |-> IF k \in Drainable THEN Newest(chain[k]).new ELSE page[k]]
    /\ exists' = exists \ VacuumedDeletes
    /\ chain' = [k \in Keys |-> IF k \in Drainable THEN {} ELSE chain[k]]
    /\ UNCHANGED <<clock, nextTxn, registryVars, idVars>>

-----------------------------------------------------------------------------

\* Every operation of one transaction that only its own deltas feel.
WriteInTxn ==
    \E t \in active :
        \/ \E v \in Values : AddNodeInTxn(t, v) \/ AddEdgeInTxn(t, v)
        \/ \E n \in Nodes : RemoveNodeInTxn(t, n) \/ \E v \in Values : UpdateNodeInTxn(t, n, v)
        \/ \E e \in Edges : RemoveEdgeInTxn(t, e) \/ \E v \in Values : UpdateEdgeInTxn(t, e, v)

\* The steps that leave the shared derived structures (category B) alone.
LocalStep ==
    \/ BeginTxn
    \/ \E t \in active : CommitTxnFails(t) \/ RollbackTxn(t)
    \/ WriteInTxn

Next ==
    \/ LocalStep
    \/ \E t \in active : CommitTxn(t)
    \/ VacuumOnce

Spec == Init /\ [][Next]_vars

-----------------------------------------------------------------------------
(* Properties.                                                             *)

\* Every variable has the shape of the Rust type it stands for.
TypeOK ==
    /\ clock \in Nat \ {0}
    /\ nextTxn \in 1 .. (MaxTxn + 1)
    /\ active \in SUBSET TxnIds
    /\ startTs \in [TxnIds -> Nat]
    /\ used \in [TxnIds -> Nat]
    /\ written \in [TxnIds -> SUBSET Keys]
    /\ pending \in [TxnIds -> SUBSET Keys]
    /\ chain \in [Keys -> SUBSET Delta]
    /\ page \in [Keys -> Versions]
    /\ exists \in SUBSET Keys
    /\ nextNode \in 1 .. (MaxNode + 1)
    /\ nextEdge \in (MaxNode + 1) .. (MaxNode + MaxEdge + 1)

\* Every delta that carries no commit_ts belongs to a live transaction whose
\* reverse index (TxnRegistry.written) names the record: rollback and commit,
\* which walk that index, leave no delta behind that would hold the vacuum up
\* for ever.
NoOrphanDelta ==
    \A k \in Keys : \A d \in chain[k] :
        d.cts = Uncommitted => d.txn \in active /\ k \in written[d.txn]

\* commit_txn publishes a transaction whole: all the deltas of one transaction,
\* on every record, carry the same commit_ts, and no two transactions share one.
CommitIsAtomic ==
    \A k, l \in Keys : \A d \in chain[k], e \in chain[l] :
        /\ d.txn = e.txn => d.cts = e.cts
        /\ d.cts = e.cts /\ d.cts # Uncommitted => d.txn = e.txn

\* A record with a version some reader may resolve, on the page or as the last
\* word of a committed transaction, is in the existence set, which gates every
\* page read and feeds the enumeration reads.
ExistenceCovers ==
    \A k \in Keys :
        \/ k \in exists
        \/ /\ page[k] = Absent
           /\ \A d \in chain[k] :
                  d.cts # Uncommitted /\ d = Newest(OfTxn(chain[k], d.txn)) => d.new = Absent

\* node_ids_in_txn finds exactly the nodes node_in_txn can read, the
\* transaction's own uncommitted inserts included.
EnumerationComplete ==
    \A t \in active : NodeIdsInTxn(t) = {n \in Nodes : ReadInTxn(t, n) # Absent}

-----------------------------------------------------------------------------
(* The inductive invariant behind the proofs.                              *)

\* A delta with a commit_ts belongs to an ended transaction, and the clock is
\* past every timestamp handed out.
CommittedAreSettled ==
    \A k \in Keys : \A d \in chain[k] :
        d.txn < nextTxn /\ (d.cts # Uncommitted => d.txn \notin active /\ d.cts < clock)

LiveAreBegun == \A t \in active : t < nextTxn /\ startTs[t] < clock

\* Ids not yet handed out have no versions and do not exist.
FreshIds ==
    \A k \in Keys :
        (k \in Nodes /\ k >= nextNode) \/ (k \in Edges /\ k >= nextEdge)
            => chain[k] = {} /\ k \notin exists

PushOrderIsTotal ==
    \A k \in Keys : \A d, e \in chain[k] : d.pos = e.pos => d = e

\* A live transaction has written only records in the existence set, which no
\* vacuum may take out under it, and records of its own, which its overlay lists.
WritesAreRooted ==
    \A k \in Keys : \A d \in chain[k] :
        d.cts = Uncommitted =>
            \/ k \in exists
            \/ Oldest(OfTxn(chain[k], d.txn)).op = "Insert" /\ k \in pending[d.txn]

IInv ==
    /\ NoOrphanDelta
    /\ CommittedAreSettled
    /\ LiveAreBegun
    /\ FreshIds
    /\ PushOrderIsTotal
    /\ CommitIsAtomic
    /\ ExistenceCovers
    /\ WritesAreRooted

-----------------------------------------------------------------------------
(* What readers see.                                                       *)

\* What an auto-commit reader sees of a record changes only when a transaction
\* that wrote it commits, and then to the version that transaction saw: no
\* begin, write, rollback or vacuum is ever visible to it.
OnlyCommitPublishes ==
    [][\A k \in Keys : ReadAutoCommit(k)' # ReadAutoCommit(k) =>
          \E t \in active \ active' :
              /\ clock' # clock
              /\ k \in written[t]
              /\ ReadAutoCommit(k)' = ReadInTxn(t, k)]_vars

\* A version a live transaction reads stays the version it reads until the
\* transaction writes the record itself, whatever other transactions commit or
\* roll back and whenever the vacuum runs.
ReadsAreRepeatable ==
    [][\A t \in active \cap active', k \in Keys :
          ReadInTxn(t, k) # Absent /\ OfTxn(chain[k], t)' = OfTxn(chain[k], t)
              => ReadInTxn(t, k)' = ReadInTxn(t, k)]_vars

\* The same for a record the transaction does not see: a node "not yet
\* materialised correctly reads as absent for a reader older than any commit"
\* (the comment in resolve_node_visible), so it stays absent.
AbsenceIsRepeatable ==
    [][\A t \in active \cap active', k \in Keys :
          ReadInTxn(t, k) = Absent /\ OfTxn(chain[k], t)' = OfTxn(chain[k], t)
              => ReadInTxn(t, k)' = Absent]_vars

\* "A Deleted end state removes the record from category B (exists-set, ...)":
\* once its chain is vacuumed, a record in the existence set has a live slot.
NoGhostRecord ==
    \A k \in exists : chain[k] = {} => page[k] # Absent

\* The periodic vacuum task runs again and again (spawn_vacuum), so once no
\* transaction is live for good every chain is eventually materialised.
FairSpec == Spec /\ WF_vars(VacuumOnce)

VacuumCatchesUp ==
    <>[](active = {}) => <>[](\A k \in Keys : chain[k] = {})

=============================================================================
