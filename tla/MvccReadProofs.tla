--------------------------- MODULE MvccReadProofs ---------------------------
(***************************************************************************)
(* What the engine's readers get, for every number of records,             *)
(* transactions and values.                                                *)
(*                                                                         *)
(* The engine implements the snapshot store, as long as no edge is         *)
(* created; and every read of a live transaction is what the snapshot      *)
(* store answers.  The counts and the label entries derived from the       *)
(* records agree with them, for every shape of graph.                      *)
(***************************************************************************)
EXTENDS MvccRefinement, MvccIndex, MvccProofs, FiniteSetTheorems

-----------------------------------------------------------------------------
(* What the refinement needs besides the engine's invariant.               *)

\* What a live transaction wrote is newer than what its snapshot holds.
OwnIsNewer ==
    \A k \in Keys : \A d, e \in chain[k] :
        d.txn \in active /\ e.cts # Uncommitted /\ e.cts < startTs[d.txn] => e.pos < d.pos

\* No commit has the timestamp of a live snapshot.
StampsDiffer ==
    \A k \in Keys : \A d \in chain[k], t \in active : d.cts # Uncommitted => d.cts # startTs[t]

RInv == OwnIsNewer /\ StampsDiffer

\* No transaction has created an edge.
NoEdgeInserts == \A k \in Edges : \A d \in chain[k] : d.op # "Insert"

\* No deltas, nothing to show.
LEMMA InitRInv == Init => RInv /\ NoEdgeInserts
BY DEF Init, RInv, OwnIsNewer, StampsDiffer, NoEdgeInserts, Keys

\* Every step keeps both: a new delta is the newest of its chain, a new snapshot
\* is taken before its transaction writes, and a commit is younger than every
\* live snapshot.
LEMMA RInvStep ==
    ASSUME TypeInv, IInv, RInv, [Next]_vars
    PROVE  RInv'
<1>0. StepShape
    BY NextShape
<1>a. \A k \in Keys : \A d \in chain[k] : d.txn \in TxnIds /\ d.cts \in Nat /\ d.pos \in Nat
    BY ChainFacts
<1>b. clock \in Nat /\ startTs \in [TxnIds -> Nat] /\ active \subseteq TxnIds
    BY DEF TypeInv, TypeOK
<1>c. \A k \in Keys : \A d \in chain[k] :
          d.txn < nextTxn /\ (d.cts # Uncommitted => d.txn \notin active /\ d.cts < clock)
    BY DEF IInv, CommittedAreSettled
<1>d. \A t \in active : t < nextTxn /\ startTs[t] < clock
    BY DEF IInv, LiveAreBegun
<1>e. ASSUME \A k \in Keys : chain'[k] \subseteq chain[k], active' \subseteq active,
             \A t \in active' : startTs'[t] = startTs[t]
      PROVE  RInv'
    BY <1>e DEF RInv, OwnIsNewer, StampsDiffer
<1>1. CASE BeginTxn
    <2>1. nextTxn \in TxnIds /\ UNCHANGED chain
        BY <1>1, BoundsAssumption DEF BeginTxn, TypeInv, TypeOK, TxnIds
    <2>2. CASE UNCHANGED <<active, startTs>>
        BY <1>e, <2>1, <2>2
    <2>3. CASE active' = active \cup {nextTxn} /\ startTs' = [startTs EXCEPT ![nextTxn] = clock]
        <3>1. \A t \in TxnIds : startTs'[t] = IF t = nextTxn THEN clock ELSE startTs[t]
            BY <1>b, <2>3
        <3>2. \A k \in Keys : \A d \in chain[k] : d.txn # nextTxn
            BY <1>a, <1>c, <2>1 DEF TxnIds
        <3>3. OwnIsNewer'
            BY <1>a, <2>1, <2>3, <3>1, <3>2 DEF RInv, OwnIsNewer
        <3>4. StampsDiffer'
            BY <1>a, <1>b, <1>c, <2>1, <2>3, <3>1 DEF RInv, StampsDiffer
        <3> QED
            BY <3>3, <3>4 DEF RInv
    <2> QED
        BY <1>1, <2>2, <2>3 DEF BeginTxn
<1>2. ASSUME NEW t \in active, CommitTxn(t) PROVE RInv'
    <2>1. active' = active \ {t} /\ \A u \in TxnIds : u # t => startTs'[u] = startTs[u]
        BY <1>2, <1>b DEF CommitTxn, EndTxn
    <2>2. \A k \in Keys : \A e \in chain'[k] : \E d \in chain[k] :
              e.pos = d.pos /\ e.txn = d.txn /\ IF d.txn = t THEN e.cts = clock ELSE e = d
        BY <1>2, CommittedChain
    <2>3. OwnIsNewer'
        <3> SUFFICES ASSUME NEW k \in Keys, NEW d \in chain'[k], NEW e \in chain'[k],
                            d.txn \in active', e.cts # Uncommitted, e.cts < startTs'[d.txn]
                     PROVE  e.pos < d.pos
            BY DEF OwnIsNewer
        <3>1. d \in chain[k] /\ d.txn \in active /\ startTs'[d.txn] = startTs[d.txn]
            BY <1>b, <2>1, <2>2
        <3>2. e \in chain[k]
            BY <1>b, <1>d, <2>2, <3>1
        <3> QED
            BY <3>1, <3>2 DEF RInv, OwnIsNewer
    <2>4. StampsDiffer'
        BY <1>b, <1>d, <2>1, <2>2 DEF RInv, StampsDiffer
    <2> QED
        BY <2>3, <2>4 DEF RInv
<1>3. ASSUME NEW t \in active, CommitTxnFails(t) PROVE RInv'
    BY <1>3, <1>e DEF CommitTxnFails, registryVars
<1>4. ASSUME NEW t \in active, UndoStep(t) PROVE RInv'
    <2>1. active' = active \ {t} /\ \A u \in TxnIds : u # t => startTs'[u] = startTs[u]
        BY <1>4, <1>b DEF UndoStep, Undo, EndTxn
    <2>2. \A k \in Keys : chain'[k] \subseteq chain[k]
        BY <1>4 DEF UndoStep, Undo, RemoveTxn
    <2> QED
        BY <1>b, <1>e, <2>1, <2>2
<1>5. ASSUME NEW t \in active, NEW l \in Keys, NEW op \in Ops, NEW prior \in Versions,
             NEW new \in Versions, PushStep(t, l, op, prior, new)
      PROVE  RInv'
    <2>1. UNCHANGED <<active, startTs>>
        BY <1>5 DEF PushStep, PushTxnDelta
    <2>2. PICK x \in Delta : /\ x.txn = t /\ x.cts = Uncommitted
                             /\ \A d \in chain[l] : d.pos < x.pos
                             /\ chain'[l] = chain[l] \cup {x}
                             /\ \A m \in Keys : m # l => chain'[m] = chain[m]
        BY <1>5, PushedChain
    <2> QED
        BY <2>1, <2>2 DEF RInv, OwnIsNewer, StampsDiffer
<1>6. CASE VacuumOnce
    <2>1. UNCHANGED <<active, startTs>> /\ \A k \in Keys : chain'[k] \subseteq chain[k]
        BY <1>6 DEF VacuumOnce, registryVars
    <2> QED
        BY <1>e, <2>1
<1>7. CASE UNCHANGED vars
    BY <1>7, <1>e DEF vars, registryVars
<1> QED
    BY <1>0, <1>1, <1>2, <1>3, <1>4, <1>5, <1>6, <1>7 DEF StepShape

\* As long as the edge counter stands still no chain of an edge has an insert.
LEMMA NoEdgeInsertsStep ==
    ASSUME TypeInv, IInv, NoEdgeInserts, [Next]_vars, nextEdge' = nextEdge
    PROVE  NoEdgeInserts'
<1>0. StepShape /\ Edges \subseteq Keys
    BY NextShape DEF Keys
<1>e. ASSUME \A k \in Edges : chain'[k] \subseteq chain[k] PROVE NoEdgeInserts'
    BY <1>e DEF NoEdgeInserts
<1>1. CASE BeginTxn
    BY <1>1, <1>e DEF BeginTxn
<1>2. ASSUME NEW t \in active, CommitTxn(t) PROVE NoEdgeInserts'
    <2>1. \A k \in Edges : \A e \in chain'[k] : \E d \in chain[k] : e = Stamped(d, t, clock)
        BY <1>0, <1>2, CommittedChain
    <2>2. \A k \in Edges : \A d \in chain[k] : Stamped(d, t, clock).op = d.op
        BY <1>0, StampedFields DEF TypeInv, TypeOK
    <2> QED
        BY <2>1, <2>2 DEF NoEdgeInserts
<1>3. ASSUME NEW t \in active, CommitTxnFails(t) PROVE NoEdgeInserts'
    BY <1>3, <1>e DEF CommitTxnFails
<1>4. ASSUME NEW t \in active, UndoStep(t) PROVE NoEdgeInserts'
    BY <1>0, <1>4, <1>e DEF UndoStep, Undo, RemoveTxn
<1>5. ASSUME NEW t \in active, NEW l \in Keys, NEW op \in Ops, NEW prior \in Versions,
             NEW new \in Versions, PushStep(t, l, op, prior, new)
      PROVE  NoEdgeInserts'
    <2>1. op = "Insert" => l \notin Edges
        BY <1>5, BoundsAssumption DEF PushStep, Edges, Nodes, TypeInv, TypeOK
    <2>2. PICK x \in Delta : /\ x.op = op
                             /\ chain'[l] = chain[l] \cup {x}
                             /\ \A m \in Keys : m # l => chain'[m] = chain[m]
        BY <1>5, PushedChain
    <2> QED
        BY <1>0, <2>1, <2>2 DEF NoEdgeInserts
<1>6. CASE VacuumOnce
    BY <1>0, <1>6, <1>e DEF VacuumOnce
<1>7. CASE UNCHANGED vars
    BY <1>7, <1>e DEF vars
<1> QED
    BY <1>0, <1>1, <1>2, <1>3, <1>4, <1>5, <1>6, <1>7 DEF StepShape

-----------------------------------------------------------------------------
(* Snapshots.                                                              *)

\* The deltas committed before a timestamp.
Past(k, ts) == {d \in chain[k] : d.cts # Uncommitted /\ d.cts < ts}

\* A reader without a transaction sees exactly those, over the page.
SnapshotView ==
    \A k \in Keys, ts \in Nat :
        ResolveVisible(k, ts, NoTxn) = IF Past(k, ts) = {} THEN CommittedBase(k) ELSE Newest(Past(k, ts)).new

\* The engine's invariant gives it.
LEMMA SnapshotSees == TypeInv /\ IInv => SnapshotView
<1> SUFFICES ASSUME TypeInv, IInv, NEW k \in Keys, NEW ts \in Nat
             PROVE  ResolveVisible(k, ts, NoTxn) =
                        IF Past(k, ts) = {} THEN CommittedBase(k) ELSE Newest(Past(k, ts)).new
    BY DEF SnapshotView
<1>1. \A d \in chain[k] : d.txn # NoTxn
    BY ChainFacts DEF TxnIds, NoTxn
<1>2. VisibleDeltas(chain[k], ts, NoTxn) = Past(k, ts)
    BY <1>1 DEF VisibleDeltas, DeltaVisibleTo, Past
<1> QED
    BY <1>2 DEF ResolveVisible, ApplyDeltasForRead

\* And after a step.
LEMMA SnapshotSeesNext == TypeInv' /\ IInv' => SnapshotView'
BY SnapshotSees, PTL

\* Without new edges a commit materialises nothing.
LEMMA NothingMaterialized ==
    ASSUME TypeInv, NoEdgeInserts, NEW t \in active, CommitTxn(t)
    PROVE  page' = page
<1>1. ASSUME NEW e \in NetInserts(t) \cap Edges PROVE FALSE
    <2>1. e \in Keys /\ OfTxn(chain[e], t) # {} /\ Oldest(OfTxn(chain[e], t)).op = "Insert"
        BY <1>1 DEF NetInserts, Keys
    <2>2. OfTxn(chain[e], t) \in SUBSET Delta
        BY <2>1 DEF OfTxn, TypeInv, TypeOK
    <2>3. Oldest(OfTxn(chain[e], t)) \in chain[e]
        BY <2>1, <2>2, OldestIsLeast DEF OfTxn
    <2> QED
        BY <1>1, <2>1, <2>3 DEF NoEdgeInserts
<1>2. UNION {Ends[e] : e \in NetInserts(t) \cap Edges} = {}
    BY <1>1
<1>3. page' = [k \in Keys |-> page[k]]
    BY <1>2 DEF CommitTxn, MaterializedAtCommit
<1> QED
    BY <1>3 DEF TypeInv, TypeOK

\* The base of a record that comes into existence was and stays absent.
LEMMA CommittedBaseStays ==
    ASSUME TypeInv, IInv, NoEdgeInserts, NEW t \in active, CommitTxn(t), NEW k \in Keys
    PROVE  CommittedBase(k)' = CommittedBase(k)
<1>1. page' = page /\ exists \subseteq exists'
    BY NothingMaterialized DEF CommitTxn
<1>2. k \notin exists => page[k] = Absent
    BY DEF IInv, ExistenceCovers
<1> QED
    BY <1>1, <1>2 DEF CommittedBase

\* A chain the vacuum drains leaves its newest version behind.
LEMMA VacuumedBase ==
    ASSUME TypeInv, IInv, VacuumOnce, NEW k \in Drainable
    PROVE  CommittedBase(k)' = Newest(chain[k]).new
<1>1. k \in Keys /\ chain[k] # {} /\ \A d \in chain[k] : d.cts # Uncommitted
    BY DEF Drainable, AllSafeToVacuum, SafeToVacuum
<1>2. page'[k] = Newest(chain[k]).new /\ exists' = exists \ VacuumedDeletes
    BY <1>1 DEF VacuumOnce
<1>3. CASE Newest(chain[k]).new = Absent
    BY <1>2, <1>3 DEF CommittedBase
<1>4. CASE Newest(chain[k]).new # Absent
    <2>1. k \in exists
        BY <1>1, <1>4, CommittedVersionExists
    <2>2. k \in exists'
        BY <1>2, <1>4, <2>1 DEF VacuumedDeletes
    <2> QED
        BY <1>2, <2>2 DEF CommittedBase
<1> QED
    BY <1>3, <1>4

\* What a snapshot taken at ts holds of a record stays.
SameSnapshot(t, k, ts) ==
    startTs'[t] = ts /\ ResolveVisible(k, ts, NoTxn)' = ResolveVisible(k, ts, NoTxn)

\* The snapshot of a transaction that stays live stays what it is.
LEMMA SnapshotStays ==
    ASSUME TypeInv, TypeInv', IInv, IInv', NoEdgeInserts, [Next]_vars,
           NEW t \in active \cap active', NEW k \in Keys, NEW ts, ts = startTs[t]
    PROVE  SameSnapshot(t, k, ts)
<1>0. StepShape
    BY NextShape
<1>a. t \in TxnIds /\ ts \in Nat /\ ts < clock /\ clock \in Nat /\ t # nextTxn
    BY DEF TypeInv, TypeOK, IInv, LiveAreBegun
<1>b. ResolveVisible(k, ts, NoTxn) = IF Past(k, ts) = {} THEN CommittedBase(k) ELSE Newest(Past(k, ts)).new
    BY <1>a, SnapshotSees DEF SnapshotView
<1>c. ResolveVisible(k, ts, NoTxn)' = IF Past(k, ts)' = {} THEN CommittedBase(k)' ELSE Newest(Past(k, ts)').new
    BY <1>a, SnapshotSeesNext DEF SnapshotView
<1>d. ASSUME startTs'[t] = ts, Past(k, ts)' = Past(k, ts),
             Past(k, ts) = {} => CommittedBase(k)' = CommittedBase(k)
      PROVE  SameSnapshot(t, k, ts)
    BY <1>b, <1>c, <1>d DEF SameSnapshot
<1>1. CASE BeginTxn
    <2>1. startTs'[t] = ts /\ UNCHANGED <<chain, page, exists>>
        BY <1>1, <1>a DEF BeginTxn, TypeInv, TypeOK
    <2>2. Past(k, ts)' = Past(k, ts) /\ CommittedBase(k)' = CommittedBase(k)
        BY <2>1 DEF Past, CommittedBase
    <2> QED
        BY <1>d, <2>1, <2>2
<1>2. ASSUME NEW u \in active, CommitTxn(u) PROVE SameSnapshot(t, k, ts)
    <2>1. u # t /\ startTs'[t] = ts
        BY <1>2, <1>a DEF CommitTxn, EndTxn, TypeInv, TypeOK
    <2>2. Past(k, ts)' = Past(k, ts)
        <3>1. /\ \A e \in chain'[k] : \E d \in chain[k] :
                     e.txn = d.txn /\ IF d.txn = u THEN e.cts = clock ELSE e = d
              /\ \A d \in chain[k] : d.txn # u => d \in chain'[k]
            BY <1>2, CommittedChain
        <3>2. \A d \in chain[k] : d.txn = u => d.cts = Uncommitted
            BY <1>2, CommitStampsAll
        <3> QED
            BY <1>a, <2>1, <3>1, <3>2 DEF Past
    <2> QED
        BY <1>2, <1>d, <2>1, <2>2, CommittedBaseStays
<1>3. ASSUME NEW u \in active, CommitTxnFails(u) PROVE SameSnapshot(t, k, ts)
    <2>1. startTs'[t] = ts /\ Past(k, ts)' = Past(k, ts) /\ CommittedBase(k)' = CommittedBase(k)
        BY <1>3 DEF CommitTxnFails, registryVars, Past, CommittedBase
    <2> QED
        BY <1>d, <2>1
<1>4. ASSUME NEW u \in active, UndoStep(u) PROVE SameSnapshot(t, k, ts)
    <2>1. startTs'[t] = ts /\ UNCHANGED <<page, exists>>
        BY <1>4, <1>a DEF UndoStep, Undo, EndTxn, TypeInv, TypeOK
    <2>2. chain'[k] \subseteq chain[k] /\ \A d \in chain[k] : d.txn # u => d \in chain'[k]
        BY <1>4 DEF UndoStep, Undo, RemoveTxn
    <2>3. \A d \in chain[k] : d.txn = u => d.cts = Uncommitted
        BY DEF IInv, CommittedAreSettled
    <2>4. Past(k, ts)' = Past(k, ts)
        BY <2>1, <2>2, <2>3 DEF Past
    <2> QED
        BY <1>d, <2>1, <2>4 DEF CommittedBase
<1>5. ASSUME NEW u \in active, NEW l \in Keys, NEW op \in Ops, NEW prior \in Versions,
             NEW new \in Versions, PushStep(u, l, op, prior, new)
      PROVE  SameSnapshot(t, k, ts)
    <2>1. UNCHANGED <<startTs, page, exists>>
        BY <1>5 DEF PushStep, PushTxnDelta
    <2>2. PICK x \in Delta : /\ x.cts = Uncommitted
                             /\ chain'[l] = chain[l] \cup {x}
                             /\ \A m \in Keys : m # l => chain'[m] = chain[m]
        BY <1>5, PushedChain
    <2>3. Past(k, ts)' = Past(k, ts)
        BY <2>1, <2>2 DEF Past
    <2> QED
        BY <1>d, <2>1, <2>3 DEF CommittedBase
<1>6. CASE VacuumOnce
    <2>1. /\ startTs' = startTs
          /\ page'[k] = IF k \in Drainable THEN Newest(chain[k]).new ELSE page[k]
          /\ chain'[k] = IF k \in Drainable THEN {} ELSE chain[k]
          /\ exists' = exists \ VacuumedDeletes
          /\ VacuumedDeletes \subseteq Drainable
        BY <1>6 DEF VacuumOnce, registryVars, VacuumedDeletes
    <2>2. CASE k \notin Drainable
        <3>1. startTs'[t] = ts /\ Past(k, ts)' = Past(k, ts) /\ CommittedBase(k)' = CommittedBase(k)
            BY <2>1, <2>2 DEF CommittedBase, Past
        <3> QED
            BY <1>d, <3>1
    <2>3. CASE k \in Drainable
        <3>1. chain[k] # {} /\ \A d \in chain[k] : d.cts # Uncommitted /\ d.cts < ts
            BY <2>3 DEF Drainable, AllSafeToVacuum, SafeToVacuum, BelowWatermark
        <3>2. Past(k, ts) = chain[k] /\ Past(k, ts)' = {}
            BY <2>1, <2>3, <3>1 DEF Past
        <3>3. ResolveVisible(k, ts, NoTxn)' = CommittedBase(k)'
            BY <1>a, <1>c, <2>1, <3>2
        <3>4. CommittedBase(k)' = Newest(chain[k]).new
            BY <1>6, <2>3, VacuumedBase
        <3> QED
            BY <1>b, <2>1, <3>1, <3>2, <3>3, <3>4 DEF SameSnapshot
    <2> QED
        BY <2>2, <2>3
<1>7. CASE UNCHANGED vars
    <2>1. startTs'[t] = ts /\ Past(k, ts)' = Past(k, ts) /\ CommittedBase(k)' = CommittedBase(k)
        BY <1>7 DEF vars, registryVars, Past, CommittedBase
    <2> QED
        BY <1>d, <2>1
<1> QED
    BY <1>0, <1>1, <1>2, <1>3, <1>4, <1>5, <1>6, <1>7 DEF StepShape

\* The same of the whole snapshot.
LEMMA SnapshotOfStays ==
    ASSUME TypeInv, TypeInv', IInv, IInv', NoEdgeInserts, [Next]_vars, NEW t \in active \cap active'
    PROVE  SnapshotOf(t)' = SnapshotOf(t)
<1>1. ASSUME NEW k \in Keys
      PROVE  /\ startTs'[t] = startTs[t]
             /\ ApplyDeltasForRead(CommittedBase(k)', chain'[k], startTs[t], NoTxn) =
                    ApplyDeltasForRead(CommittedBase(k), chain[k], startTs[t], NoTxn)
    <2> DEFINE ts == startTs[t]
    <2> HIDE DEF ts
    <2>1. SameSnapshot(t, k, ts)
        BY SnapshotStays DEF ts
    <2> QED
        BY <2>1 DEF SameSnapshot, ResolveVisible, ts
<1>2. SnapshotOf(t) = [k \in Keys |-> ApplyDeltasForRead(CommittedBase(k), chain[k], startTs[t], NoTxn)]
    BY DEF SnapshotOf, ResolveVisible
<1>3. SnapshotOf(t)' = [k \in Keys |-> ApplyDeltasForRead(CommittedBase(k)', chain'[k], startTs'[t], NoTxn)]
    BY DEF SnapshotOf, ResolveVisible
<1>4. \A k \in Keys : ApplyDeltasForRead(CommittedBase(k)', chain'[k], startTs'[t], NoTxn) =
                          ApplyDeltasForRead(CommittedBase(k), chain[k], startTs[t], NoTxn)
    BY <1>1
<1> QED
    BY <1>2, <1>3, <1>4, Zenon

\* A live transaction's own deltas are uncommitted, and what it wrote of a
\* record is the version of the newest of them.
LEMMA WrittenIs ==
    ASSUME TypeInv, IInv, NEW t \in active, NEW k \in Keys
    PROVE  /\ OfTxn(chain[k], t) = {} => WritesOf(t)[k] = NotWritten
           /\ OfTxn(chain[k], t) # {} =>
                  /\ WritesOf(t)[k] = Newest(OfTxn(chain[k], t)).new
                  /\ Newest(OfTxn(chain[k], t)) \in OfTxn(chain[k], t)
                  /\ \A d \in OfTxn(chain[k], t) : d.pos <= Newest(OfTxn(chain[k], t)).pos
                  /\ WritesOf(t)[k] # NotWritten
           /\ \A d \in OfTxn(chain[k], t) : d.cts = Uncommitted
<1> DEFINE own == OfTxn(chain[k], t)
<1>1. own \in SUBSET Delta /\ Bounded(own)
    BY ChainFacts, BoundedSubset DEF OfTxn
<1>2. WritesOf(t)[k] = IF own # {} THEN Newest(own).new ELSE NotWritten
    BY DEF WritesOf
<1>3. \A d \in own : d.cts = Uncommitted
    BY DEF OfTxn, IInv, CommittedAreSettled
<1> HIDE DEF own
<1>4. own # {} => Newest(own) \in own /\ \A d \in own : d.pos <= Newest(own).pos
    BY <1>1, NewestIsGreatest
<1>5. own # {} => Newest(own).new # NotWritten
    BY <1>1, <1>4, NotWrittenAssumption DEF Delta
<1> QED
    BY <1>2, <1>3, <1>4, <1>5 DEF own

\* The writes of a transaction are those of its deltas.
LEMMA WritesOfStays ==
    ASSUME NEW t, t \in active' <=> t \in active,
           \A k \in Keys : OfTxn(chain'[k], t) = OfTxn(chain[k], t)
    PROVE  WritesOf(t)' = WritesOf(t)
<1>1. WritesOf(t) = [k \in Keys |-> IF OfTxn(chain[k], t) # {} /\ t \in active
                                   THEN Newest(OfTxn(chain[k], t)).new ELSE NotWritten]
    BY DEF WritesOf
<1>2. WritesOf(t)' = [k \in Keys |-> IF OfTxn(chain'[k], t) # {} /\ t \in active'
                                    THEN Newest(OfTxn(chain'[k], t)).new ELSE NotWritten]
    BY DEF WritesOf
<1>3. \A k \in Keys : (IF OfTxn(chain'[k], t) # {} /\ t \in active'
                         THEN Newest(OfTxn(chain'[k], t)).new ELSE NotWritten) =
                      (IF OfTxn(chain[k], t) # {} /\ t \in active
                         THEN Newest(OfTxn(chain[k], t)).new ELSE NotWritten)
    OBVIOUS
<1> QED
    BY <1>1, <1>2, <1>3, Zenon

\* A transaction that is not live has no snapshot, no writes and no overlap.
LEMMA DeadHasNothing ==
    ASSUME NEW t, t \notin active
    PROVE  SnapshotOf(t) = NoSnapshot /\ WritesOf(t) = Store!NoWrites /\ OverlapOf(t) = {}
BY DEF SnapshotOf, WritesOf, OverlapOf, Store!NoWrites

\* And after a step.
LEMMA DeadHasNothingNext ==
    ASSUME NEW t, t \notin active'
    PROVE  SnapshotOf(t)' = NoSnapshot /\ WritesOf(t)' = Store!NoWrites /\ OverlapOf(t)' = {}
BY DEF SnapshotOf, WritesOf, OverlapOf, Store!NoWrites

\* Nothing but a commit changes what is committed.
LEMMA DbStays ==
    ASSUME TypeInv, TypeInv', IInv, IInv', [Next]_vars, active \subseteq active' \/ clock' = clock
    PROVE  StoreDb' = StoreDb
<1>1. \A k \in Keys : ReadAutoCommit(k)' = ReadAutoCommit(k)
    BY PublishStep
<1>2. StoreDb' = [k \in Keys |-> ReadAutoCommit(k)']
    BY DEF StoreDb
<1> QED
    BY <1>1, <1>2 DEF StoreDb

-----------------------------------------------------------------------------
(* Reads and commits.                                                      *)

\* A live transaction reads its last write, else its snapshot.
LEMMA ReadsOwnWrites == TypeInv /\ IInv /\ RInv => ReadYourWrites
<1> SUFFICES ASSUME TypeInv, IInv, RInv, NEW t \in active, NEW k \in Keys
             PROVE  ReadInTxn(t, k) = Store!Read(t, k)
    BY DEF ReadYourWrites
<1> DEFINE own == OfTxn(chain[k], t)
           vis == VisibleDeltas(chain[k], startTs[t], t)
           past == VisibleDeltas(chain[k], startTs[t], NoTxn)
<1>1. t \in TxnIds /\ startTs[t] \in Nat
    BY DEF TypeInv, TypeOK
<1>2. StoreSnap[t][k] = ApplyDeltasForRead(CommittedBase(k), chain[k], startTs[t], NoTxn)
    BY <1>1 DEF StoreSnap, SnapshotOf, ResolveVisible
<1>3. StoreWrites[t][k] = WritesOf(t)[k]
    BY <1>1 DEF StoreWrites
<1>4. \A d \in chain[k] : d.txn # NoTxn /\ d.pos \in Nat
    BY ChainFacts DEF TxnIds, NoTxn
<1>5. CASE own = {}
    <2>1. vis = past
        BY <1>4, <1>5 DEF VisibleDeltas, DeltaVisibleTo, OfTxn
    <2>2. WritesOf(t)[k] = NotWritten
        BY <1>5, WrittenIs
    <2>3. ReadInTxn(t, k) = StoreSnap[t][k]
        BY <1>2, <2>1 DEF ReadInTxn, ResolveVisible, ApplyDeltasForRead
    <2> QED
        BY <1>3, <2>2, <2>3 DEF Store!Read
<1>6. CASE own # {}
    <2> DEFINE d == Newest(own)
    <2>1. WritesOf(t)[k] = d.new /\ d \in own /\ (\A e \in own : e.pos <= d.pos) /\ WritesOf(t)[k] # NotWritten
        BY <1>6, WrittenIs
    <2> HIDE DEF d
    <2>2. d \in chain[k] /\ d.txn = t /\ d \in vis
        BY <2>1 DEF OfTxn, VisibleDeltas, DeltaVisibleTo
    <2>3. \A e \in vis : e.pos <= d.pos
        <3> SUFFICES ASSUME NEW e \in vis PROVE e.pos <= d.pos
            OBVIOUS
        <3>1. CASE e.txn = t
            BY <2>1, <3>1 DEF VisibleDeltas, OfTxn
        <3>2. CASE e.txn # t
            BY <1>4, <2>2, <3>2 DEF VisibleDeltas, DeltaVisibleTo, RInv, OwnIsNewer
        <3> QED
            BY <3>1, <3>2
    <2>4. vis \in SUBSET Delta /\ TotalOrder(vis)
        BY ChainFacts DEF VisibleDeltas, TotalOrder
    <2>5. d = Newest(vis)
        BY <2>2, <2>3, <2>4, NewestUnique
    <2>6. ReadInTxn(t, k) = d.new
        BY <2>2, <2>5 DEF ReadInTxn, ResolveVisible, ApplyDeltasForRead
    <2> QED
        BY <1>3, <2>1, <2>6 DEF Store!Read
<1> QED
    BY <1>5, <1>6

\* What a commit makes of a record its transaction wrote: the version it wrote
\* last, unless a transaction that overlapped it committed the record meanwhile.
LEMMA CommitDecides ==
    ASSUME TypeInv, TypeInv', IInv, IInv', RInv, NEW t \in active, CommitTxn(t), NEW k \in Keys,
           OfTxn(chain[k], t) # {}
    PROVE  \/ ReadAutoCommit(k)' = WritesOf(t)[k]
           \/ ReadAutoCommit(k)' = ReadAutoCommit(k) /\ k \in OverlapOf(t)
<1> DEFINE own == OfTxn(chain[k], t)
           w == Newest(own)
           cs == Committed(k)'
           e == Newest(cs)
<1>a. t \in TxnIds /\ startTs[t] \in Nat /\ clock # Uncommitted
    BY DEF TypeInv, TypeOK, Uncommitted
<1>b. /\ \A f \in chain'[k] : \E d \in chain[k] :
             f.pos = d.pos /\ f.txn = d.txn /\ f.new = d.new /\ IF d.txn = t THEN f.cts = clock ELSE f = d
      /\ \A d \in chain[k] : \E f \in chain'[k] :
             f.pos = d.pos /\ f.txn = d.txn /\ f.new = d.new /\ IF d.txn = t THEN f.cts = clock ELSE f = d
    BY CommittedChain
<1>c. /\ WritesOf(t)[k] = w.new /\ w \in own /\ \A d \in own : d.pos <= w.pos
      /\ \A d \in own : d.cts = Uncommitted
    BY WrittenIs
<1> HIDE DEF w
<1>d. w \in chain[k] /\ w.txn = t
    BY <1>c DEF OfTxn
<1>1. PICK f \in chain'[k] : f.pos = w.pos /\ f.cts = clock /\ f.new = w.new
    BY <1>b, <1>d
<1>2. f \in cs
    BY <1>1, <1>a DEF Committed
<1>3. cs \in SUBSET Delta /\ Bounded(cs) /\ cs \in SUBSET chain'[k]
    <2>1. cs \in SUBSET chain'[k]
        BY DEF Committed
    <2>2. chain'[k] \in SUBSET Delta /\ Bounded(chain'[k])
        BY DEF TypeInv, TypeOK, ChainsBounded
    <2> QED
        BY <2>1, <2>2, BoundedSubset
<1>4. e \in cs /\ \A g \in cs : g.pos <= e.pos
    BY <1>2, <1>3, NewestIsGreatest
<1>5. ReadAutoCommit(k)' = e.new
    BY <1>2, AutoCommitSeesNext DEF AutoCommitView
<1> HIDE DEF e
<1>6. PICK d \in chain[k] :
          e.pos = d.pos /\ e.txn = d.txn /\ e.new = d.new /\ IF d.txn = t THEN e.cts = clock ELSE e = d
    BY <1>b, <1>3, <1>4
<1>7. \A g \in chain[k] : g.pos \in Nat /\ g.cts \in Nat
    BY ChainFacts
<1>8. w.pos <= d.pos
    BY <1>1, <1>2, <1>4, <1>6
<1>9. CASE d.txn = t
    <2>1. d \in own
        BY <1>9 DEF OfTxn
    <2>2. d.pos = w.pos
        BY <1>7, <1>8, <1>c, <1>d, <2>1
    <2>3. d = w
        BY <1>d, <2>2, ChainFacts DEF TotalOrder
    <2> QED
        BY <1>5, <1>6, <1>c, <2>3
<1>10. CASE d.txn # t
    <2>1. e = d /\ d \in Committed(k) /\ d.cts # Uncommitted
        BY <1>4, <1>6, <1>10 DEF Committed
    <2>2. \A g \in Committed(k) : g \in cs
        <3>1. \A g \in Committed(k) : g.txn # t
            BY <1>c DEF Committed, OfTxn
        <3> QED
            BY <1>b, <3>1 DEF Committed
    <2>3. Committed(k) \in SUBSET Delta /\ TotalOrder(Committed(k))
        BY ChainFacts DEF Committed, TotalOrder
    <2>4. e = Newest(Committed(k))
        BY <1>4, <2>1, <2>2, <2>3, NewestUnique
    <2>5. ReadAutoCommit(k) = e.new
        BY <2>1, <2>4, AutoCommitSees DEF AutoCommitView
    <2>6. ~(d.cts < startTs[t])
        BY <1>7, <1>8, <1>d, <2>1 DEF RInv, OwnIsNewer
    <2>7. d.cts # startTs[t]
        BY <2>1 DEF RInv, StampsDiffer
    <2>8. k \in OverlapOf(t)
        BY <1>a, <1>7, <2>1, <2>6, <2>7 DEF OverlapOf
    <2> QED
        BY <1>5, <2>5, <2>8
<1> QED
    BY <1>9, <1>10

-----------------------------------------------------------------------------
(* Step by step.                                                           *)

\* What a step that neither begins nor ends a transaction leaves to it.
LEMMA SnapshotFrame ==
    ASSUME TypeInv, TypeInv', IInv, IInv', NoEdgeInserts, [Next]_vars, NEW t, t \in active' <=> t \in active
    PROVE  SnapshotOf(t)' = SnapshotOf(t)
<1>1. CASE t \in active
    BY <1>1, SnapshotOfStays
<1>2. CASE t \notin active
    BY <1>2, DeadHasNothing, DeadHasNothingNext
<1> QED
    BY <1>1, <1>2

\* The overlap of a transaction depends on the chains, the live ones and its start.
LEMMA OverlapFrame ==
    ASSUME NEW t, t \in active' <=> t \in active, t \in active => startTs'[t] = startTs[t],
           \A k \in Keys : t \in active =>
               ((\E d \in chain'[k] : d.cts # Uncommitted /\ d.cts > startTs[t]) <=>
                (\E d \in chain[k] : d.cts # Uncommitted /\ d.cts > startTs[t]))
    PROVE  OverlapOf(t)' = OverlapOf(t)
BY DEF OverlapOf

\* begin_txn takes the snapshot; a failed Begin marker changes nothing.
LEMMA BeginRefines ==
    ASSUME TypeInv, TypeInv', IInv, IInv', NoEdgeInserts, BeginTxn
    PROVE  (\E t \in TxnIds : Store!Begin(t)) \/ UNCHANGED Store!vars
<1>0. [Next]_vars
    BY DEF Next, LocalStep
<1>1. nextTxn \in TxnIds /\ nextTxn \notin active /\ UNCHANGED <<chain, page, exists>>
    BY BoundsAssumption DEF BeginTxn, TypeInv, TypeOK, TxnIds, IInv, LiveAreBegun
<1>2. \A k \in Keys : \A d \in chain[k] : d.txn # nextTxn /\ d.cts \in Nat /\ (d.cts # Uncommitted => d.cts < clock)
    <2>1. \A k \in Keys : \A d \in chain[k] : d.txn \in TxnIds /\ d.cts \in Nat
        BY ChainFacts
    <2> QED
        BY <1>1, <2>1 DEF IInv, CommittedAreSettled, TxnIds
<1>3. startTs \in [TxnIds -> Nat] /\ clock \in Nat /\ active \subseteq TxnIds
    BY DEF TypeInv, TypeOK
<1>4. StoreDb' = StoreDb
    BY <1>0, DbStays DEF BeginTxn
<1>5. CASE UNCHANGED <<active, startTs>>
    <2>1. \A t \in TxnIds : SnapshotOf(t)' = SnapshotOf(t)
        BY <1>0, <1>5, SnapshotFrame
    <2>2. \A t \in TxnIds : WritesOf(t)' = WritesOf(t)
        BY <1>1, <1>5, WritesOfStays
    <2>3. \A t \in TxnIds : OverlapOf(t)' = OverlapOf(t)
        BY <1>1, <1>5, OverlapFrame
    <2>4. StoreSnap' = StoreSnap /\ StoreWrites' = StoreWrites /\ StoreOverlap' = StoreOverlap
        BY <2>1, <2>2, <2>3 DEF StoreSnap, StoreWrites, StoreOverlap
    <2> QED
        BY <1>4, <1>5, <2>4 DEF Store!vars
<1>6. CASE active' = active \cup {nextTxn} /\ startTs' = [startTs EXCEPT ![nextTxn] = clock]
    <2>0. PICK new \in TxnIds : new = nextTxn
        BY <1>1
    <2>1. \A t \in TxnIds : t # new => (t \in active' <=> t \in active) /\ startTs'[t] = startTs[t]
        BY <1>3, <1>6, <2>0
    <2>2. startTs'[new] = clock /\ new \in active' /\ new \notin active
        BY <1>1, <1>3, <1>6, <2>0
    <2>3. \A t \in TxnIds : t # new => SnapshotOf(t)' = SnapshotOf(t)
        BY <1>0, <2>1, SnapshotFrame
    <2>4. SnapshotOf(new)' = StoreDb
        <3>1. SnapshotOf(new)' = [k \in Keys |-> ApplyDeltasForRead(CommittedBase(k)', chain'[k], startTs'[new], NoTxn)]
            BY <2>2 DEF SnapshotOf, ResolveVisible
        <3>2. StoreDb = [k \in Keys |-> ApplyDeltasForRead(CommittedBase(k), chain[k], clock, NoTxn)]
            BY DEF StoreDb, ReadAutoCommit, ResolveVisible
        <3>3. \A k \in Keys : CommittedBase(k)' = CommittedBase(k)
            BY <1>1 DEF CommittedBase
        <3> QED
            BY <1>1, <2>2, <3>1, <3>2, <3>3
    <2>5. WritesOf(new)' = WritesOf(new)
        BY <1>1, <1>2, <2>0 DEF WritesOf, OfTxn
    <2>6. \A t \in TxnIds : t # new => WritesOf(t)' = WritesOf(t)
        BY <1>1, <2>1, WritesOfStays
    <2>7. OverlapOf(new)' = OverlapOf(new)
        BY <1>1, <1>2, <1>3, <2>2 DEF OverlapOf
    <2>8. \A t \in TxnIds : t # new => OverlapOf(t)' = OverlapOf(t)
        BY <1>1, <2>1, OverlapFrame
    <2>9. StoreWrites' = StoreWrites /\ StoreOverlap' = StoreOverlap
        BY <2>5, <2>6, <2>7, <2>8 DEF StoreWrites, StoreOverlap
    <2>10. StoreSnap' = [StoreSnap EXCEPT ![new] = StoreDb]
        BY <2>3, <2>4 DEF StoreSnap
    <2>11. Store!Begin(new)
        BY <1>4, <1>6, <2>0, <2>2, <2>9, <2>10 DEF Store!Begin
    <2> QED
        BY <2>11
<1> QED
    BY <1>5, <1>6 DEF BeginTxn

\* A rollback, or a transaction aborted at its memory cap, is a rollback.
LEMMA UndoRefines ==
    ASSUME TypeInv, TypeInv', IInv, IInv', NoEdgeInserts, [Next]_vars, NEW t \in active, UndoStep(t)
    PROVE  Store!Rollback(t)
<1>1. t \in TxnIds /\ active' = active \ {t} /\ UNCHANGED <<clock, page, exists>>
    BY DEF UndoStep, Undo, EndTxn, TypeInv, TypeOK
<1>2. \A u \in TxnIds : u # t => (u \in active' <=> u \in active) /\ startTs'[u] = startTs[u]
    BY <1>1 DEF UndoStep, Undo, EndTxn, TypeInv, TypeOK
<1>3. \A k \in Keys : chain'[k] \subseteq chain[k] /\ \A d \in chain[k] : d.txn # t => d \in chain'[k]
    BY DEF UndoStep, Undo, RemoveTxn
<1>4. \A k \in Keys : \A d \in chain[k] : d.txn = t => d.cts = Uncommitted
    BY DEF IInv, CommittedAreSettled
<1>5. StoreDb' = StoreDb
    BY <1>1, DbStays
<1>6. \A u \in TxnIds : u # t => SnapshotOf(u)' = SnapshotOf(u)
    BY <1>2, SnapshotFrame
<1>7. \A u \in TxnIds : u # t => WritesOf(u)' = WritesOf(u)
    <2>1. \A u \in TxnIds, k \in Keys : u # t => OfTxn(chain'[k], u) = OfTxn(chain[k], u)
        BY <1>3 DEF OfTxn
    <2> QED
        BY <1>2, <2>1, WritesOfStays
<1>8. \A u \in TxnIds : u # t => OverlapOf(u)' = OverlapOf(u)
    BY <1>2, <1>3, <1>4, OverlapFrame
<1>9. SnapshotOf(t)' = NoSnapshot /\ WritesOf(t)' = Store!NoWrites /\ OverlapOf(t)' = {}
    BY <1>1, DeadHasNothingNext
<1>10. StoreSnap' = [StoreSnap EXCEPT ![t] = NoSnapshot]
    BY <1>6, <1>9 DEF StoreSnap
<1>11. StoreWrites' = [StoreWrites EXCEPT ![t] = Store!NoWrites]
    BY <1>7, <1>9 DEF StoreWrites
<1>12. StoreOverlap' = [StoreOverlap EXCEPT ![t] = {}]
    BY <1>8, <1>9 DEF StoreOverlap
<1> QED
    BY <1>1, <1>5, <1>10, <1>11, <1>12 DEF Store!Rollback, Store!Forget

\* A writer that pushes a delta writes the record.
LEMMA PushRefines ==
    ASSUME TypeInv, TypeInv', IInv, IInv', NoEdgeInserts, [Next]_vars, NEW t \in active, NEW k \in Keys,
           NEW op \in Ops, NEW prior \in Versions, NEW new \in Versions, PushStep(t, k, op, prior, new)
    PROVE  Store!Write(t, k, new)
<1>1. t \in TxnIds /\ UNCHANGED <<active, startTs, clock>>
    BY DEF PushStep, PushTxnDelta, TypeInv, TypeOK
<1>2. PICK x \in Delta : /\ x.txn = t /\ x.new = new /\ x.cts = Uncommitted
                         /\ \A d \in chain[k] : d.pos < x.pos
                         /\ chain'[k] = chain[k] \cup {x}
                         /\ \A l \in Keys : l # k => chain'[l] = chain[l]
    BY PushedChain
<1>3. StoreDb' = StoreDb
    BY <1>1, DbStays
<1>4. \A u \in TxnIds : SnapshotOf(u)' = SnapshotOf(u)
    BY <1>1, SnapshotFrame
<1>5. \A u \in TxnIds : OverlapOf(u)' = OverlapOf(u)
    BY <1>1, <1>2, OverlapFrame
<1>6. \A u \in TxnIds : u # t => WritesOf(u)' = WritesOf(u)
    <2>1. \A u \in TxnIds, l \in Keys : u # t => OfTxn(chain'[l], u) = OfTxn(chain[l], u)
        BY <1>2 DEF OfTxn
    <2> QED
        BY <1>1, <2>1, WritesOfStays
<1>7. \A l \in Keys : l # k => WritesOf(t)'[l] = WritesOf(t)[l]
    BY <1>1, <1>2 DEF WritesOf
<1>8. WritesOf(t)'[k] = new
    <2>1. x \in OfTxn(chain'[k], t) /\ \A d \in OfTxn(chain'[k], t) : d.pos <= x.pos
        BY <1>2 DEF OfTxn, Delta, TypeInv, TypeOK
    <2>2. OfTxn(chain'[k], t) \in SUBSET Delta /\ TotalOrder(OfTxn(chain'[k], t))
        BY DEF OfTxn, TypeInv, TypeOK, IInv, PushOrderIsTotal, TotalOrder
    <2>3. x = Newest(OfTxn(chain'[k], t))
        BY <2>1, <2>2, NewestUnique
    <2> QED
        BY <1>1, <1>2, <2>1, <2>3 DEF WritesOf
<1>9. WritesOf(t)' = [WritesOf(t) EXCEPT ![k] = new]
    <2>1. WritesOf(t) = [l \in Keys |-> WritesOf(t)[l]] /\ WritesOf(t)' = [l \in Keys |-> WritesOf(t)'[l]]
        BY DEF WritesOf
    <2> QED
        BY <1>7, <1>8, <2>1
<1>10. StoreWrites' = [StoreWrites EXCEPT ![t][k] = new]
    BY <1>1, <1>6, <1>9 DEF StoreWrites
<1>11. StoreSnap' = StoreSnap /\ StoreOverlap' = StoreOverlap
    BY <1>4, <1>5 DEF StoreSnap, StoreOverlap
<1> QED
    BY <1>1, <1>3, <1>10, <1>11 DEF Store!Write

\* commit_txn publishes the transaction's writes at once.
LEMMA CommitRefines ==
    ASSUME TypeInv, TypeInv', IInv, IInv', RInv, NoEdgeInserts, [Next]_vars, NEW t \in active, CommitTxn(t)
    PROVE  Store!Commit(t)
<1> DEFINE W == {k \in Keys : OfTxn(chain[k], t) # {}}
           kept == {k \in W : ReadAutoCommit(k)' # WritesOf(t)[k]}
<1>1. t \in TxnIds /\ active' = active \ {t} /\ clock \in Nat /\ startTs \in [TxnIds -> Nat] /\ active \subseteq TxnIds
    BY DEF CommitTxn, EndTxn, TypeInv, TypeOK
<1>2. \A u \in TxnIds : u # t => (u \in active' <=> u \in active) /\ startTs'[u] = startTs[u]
    BY <1>1 DEF CommitTxn, EndTxn
<1>3. \A k \in Keys :
          /\ \A f \in chain'[k] : \E d \in chain[k] : f.txn = d.txn /\ IF d.txn = t THEN f.cts = clock ELSE f = d
          /\ \A d \in chain[k] : \E f \in chain'[k] : f.txn = d.txn /\ IF d.txn = t THEN f.cts = clock ELSE f = d
          /\ \A u \in TxnIds : u # t => OfTxn(chain'[k], u) = OfTxn(chain[k], u)
    BY CommittedChain
<1>4. StoreWrites[t] = WritesOf(t) /\ Store!WriteSet(t) = W
    <2>1. StoreWrites[t] = WritesOf(t)
        BY <1>1 DEF StoreWrites
    <2>2. \A k \in Keys : WritesOf(t)[k] # NotWritten <=> OfTxn(chain[k], t) # {}
        BY WrittenIs
    <2> QED
        BY <2>1, <2>2 DEF Store!WriteSet
<1>5. StoreDb' = [k \in Keys |-> IF k \in W \ kept THEN WritesOf(t)[k] ELSE StoreDb[k]]
    <2>1. \A k \in Keys : ReadAutoCommit(k)' = IF k \in W \ kept THEN WritesOf(t)[k] ELSE ReadAutoCommit(k)
        BY CommitLeavesOthers, CommitDecides
    <2>2. StoreDb' = [k \in Keys |-> ReadAutoCommit(k)'] /\ \A k \in Keys : StoreDb[k] = ReadAutoCommit(k)
        BY DEF StoreDb
    <2> QED
        BY <2>1, <2>2
<1>6. kept \in SUBSET (W \cap OverlapOf(t))
    BY CommitDecides
<1>7. StoreOverlap[t] = OverlapOf(t)
    BY <1>1 DEF StoreOverlap
<1>8. \A u \in active \ {t} : OverlapOf(u)' = OverlapOf(u) \cup W
    <2> SUFFICES ASSUME NEW u \in active \ {t}, NEW k \in Keys
                 PROVE  (\E d \in chain'[k] : d.cts # Uncommitted /\ d.cts > startTs'[u]) <=>
                        (\E d \in chain[k] : d.cts # Uncommitted /\ d.cts > startTs[u]) \/ OfTxn(chain[k], t) # {}
        BY <1>1 DEF OverlapOf
    <2>1. startTs'[u] = startTs[u] /\ clock > startTs[u] /\ clock # Uncommitted
        BY <1>1, <1>2 DEF IInv, LiveAreBegun, TypeInv, TypeOK, Uncommitted
    <2>2. \A d \in chain[k] : d.txn = t => d.cts = Uncommitted
        BY CommitStampsAll
    <2> QED
        BY <1>3, <2>1, <2>2 DEF OfTxn
<1>9. \A u \in TxnIds : u \notin active \ {t} => OverlapOf(u)' = {}
    BY <1>1, DeadHasNothingNext
<1>10. \A u \in active : StoreOverlap[u] = OverlapOf(u)
    BY <1>1 DEF StoreOverlap
<1>11. StoreOverlap' = [u \in TxnIds |-> IF u \in active \ {t} THEN StoreOverlap[u] \cup W ELSE {}]
    <2>1. StoreOverlap' = [u \in TxnIds |-> OverlapOf(u)']
        BY DEF StoreOverlap
    <2> QED
        BY <1>8, <1>9, <1>10, <2>1
<1>12. SnapshotOf(t)' = NoSnapshot /\ WritesOf(t)' = Store!NoWrites
    BY <1>1, DeadHasNothingNext
<1>13. \A u \in TxnIds : u # t => SnapshotOf(u)' = SnapshotOf(u)
    BY <1>2, SnapshotFrame
<1>14. \A u \in TxnIds : u # t => WritesOf(u)' = WritesOf(u)
    BY <1>2, <1>3, WritesOfStays
<1>15. StoreSnap' = [StoreSnap EXCEPT ![t] = NoSnapshot]
    BY <1>12, <1>13 DEF StoreSnap
<1>16. StoreWrites' = [StoreWrites EXCEPT ![t] = Store!NoWrites]
    BY <1>12, <1>14 DEF StoreWrites
<1>17. Store!Forget(t)
    BY <1>1, <1>15, <1>16 DEF Store!Forget
<1> HIDE DEF W, kept
<1> QED
    BY <1>4, <1>5, <1>6, <1>7, <1>11, <1>17 DEF Store!Commit

\* A failed commit and the vacuum change nothing a client can see.
LEMMA HiddenStepsStutter ==
    ASSUME TypeInv, TypeInv', IInv, IInv', NoEdgeInserts,
           VacuumOnce \/ (\E t \in active : CommitTxnFails(t)) \/ UNCHANGED vars
    PROVE  UNCHANGED Store!vars
<1>0. [Next]_vars
    BY DEF Next, LocalStep
<1>1. UNCHANGED <<active, startTs>>
    BY DEF VacuumOnce, CommitTxnFails, vars, registryVars
<1>2. StoreDb' = StoreDb
    BY <1>0, <1>1, DbStays
<1>3. \A t \in TxnIds : SnapshotOf(t)' = SnapshotOf(t)
    BY <1>0, <1>1, SnapshotFrame
<1>4. \A k \in Keys : chain'[k] = chain[k] \/ (k \in Drainable /\ chain'[k] = {})
    <2>1. CASE VacuumOnce
        BY <2>1 DEF VacuumOnce
    <2>2. CASE (\E t \in active : CommitTxnFails(t)) \/ UNCHANGED vars
        <3>1. chain' = chain
            BY <2>2 DEF CommitTxnFails, vars
        <3> QED
            BY <3>1
    <2> QED
        BY <2>1, <2>2
<1>5. \A k \in Drainable, t \in active : \A d \in chain[k] : d.cts # Uncommitted /\ d.cts < startTs[t]
    BY DEF Drainable, AllSafeToVacuum, SafeToVacuum, BelowWatermark
<1>6. \A t \in active, k \in Drainable : OfTxn(chain[k], t) = {}
    BY <1>5 DEF OfTxn, Drainable, IInv, CommittedAreSettled
<1>7. \A t \in TxnIds : WritesOf(t)' = WritesOf(t)
    <2> SUFFICES ASSUME NEW t \in TxnIds PROVE WritesOf(t)' = WritesOf(t)
        OBVIOUS
    <2>1. CASE t \in active
        <3>1. \A k \in Keys : OfTxn(chain'[k], t) = OfTxn(chain[k], t)
            BY <1>4, <1>6, <2>1 DEF OfTxn
        <3> QED
            BY <1>1, <3>1, WritesOfStays
    <2>2. CASE t \notin active
        BY <1>1, <2>2, DeadHasNothing, DeadHasNothingNext
    <2> QED
        BY <2>1, <2>2
<1>8. \A t \in TxnIds : OverlapOf(t)' = OverlapOf(t)
    <2>1. \A k \in Keys : \A d \in chain[k] : d.cts \in Nat
        BY ChainFacts
    <2>2. \A t \in active : startTs[t] \in Nat
        BY DEF TypeInv, TypeOK
    <2>3. \A t \in active, k \in Drainable : \A d \in chain[k] : k \in Keys /\ ~(d.cts > startTs[t])
        BY <1>5, <2>1, <2>2 DEF Drainable
    <2> QED
        BY <1>1, <1>4, <2>3, OverlapFrame
<1>9. StoreSnap' = StoreSnap /\ StoreWrites' = StoreWrites /\ StoreOverlap' = StoreOverlap
    BY <1>3, <1>7, <1>8 DEF StoreSnap, StoreWrites, StoreOverlap
<1> QED
    BY <1>1, <1>2, <1>9 DEF Store!vars

\* A store just opened is the abstract store with no transaction.
LEMMA InitRefines == Init => Store!Init
<1> SUFFICES ASSUME Init PROVE Store!Init
    OBVIOUS
<1>1. TypeInv /\ IInv
    BY InitTypeInv, InitIInv
<1>2. active = {}
    BY DEF Init
<1>3. \A k \in Keys : ReadAutoCommit(k) \in Versions
    <2> SUFFICES ASSUME NEW k \in Keys PROVE ReadAutoCommit(k) \in Versions
        OBVIOUS
    <2>1. CommittedBase(k) \in Versions /\ chain[k] \in SUBSET Delta /\ Bounded(chain[k])
        BY <1>1 DEF CommittedBase, TypeInv, TypeOK, ChainsBounded, Versions
    <2> QED
        BY <2>1, ApplyDeltasType DEF ReadAutoCommit, ResolveVisible
<1>4. StoreDb \in [Keys -> Versions]
    BY <1>3 DEF StoreDb
<1>5. /\ StoreSnap = [t \in TxnIds |-> NoSnapshot]
      /\ StoreWrites = [t \in TxnIds |-> Store!NoWrites]
      /\ StoreOverlap = [t \in TxnIds |-> {}]
    BY <1>2, DeadHasNothing DEF StoreSnap, StoreWrites, StoreOverlap
<1> QED
    BY <1>2, <1>4, <1>5 DEF Store!Init

\* Every step of the engine that creates no edge is a step of the store.
LEMMA StepRefines ==
    ASSUME TypeInv, TypeInv', IInv, IInv', RInv, NoEdgeInserts, [Next]_vars
    PROVE  [Store!Next]_(Store!vars)
<1>0. StepShape /\ active \subseteq TxnIds
    BY NextShape DEF TypeInv, TypeOK
<1>1. CASE BeginTxn
    BY <1>1, BeginRefines DEF Store!Next
<1>2. ASSUME NEW t \in active, CommitTxn(t) PROVE Store!Next
    BY <1>0, <1>2, CommitRefines DEF Store!Next
<1>3. ASSUME NEW t \in active, UndoStep(t) PROVE Store!Next
    BY <1>0, <1>3, UndoRefines DEF Store!Next
<1>4. ASSUME NEW t \in active, NEW k \in Keys, NEW op \in Ops, NEW prior \in Versions, NEW new \in Versions,
             PushStep(t, k, op, prior, new)
      PROVE  Store!Next
    BY <1>0, <1>4, PushRefines DEF Store!Next
<1>5. CASE VacuumOnce \/ (\E t \in active : CommitTxnFails(t)) \/ UNCHANGED vars
    BY <1>5, HiddenStepsStutter
<1> QED
    BY <1>0, <1>1, <1>2, <1>3, <1>4, <1>5 DEF StepShape

-----------------------------------------------------------------------------

\* The invariant of the refinement holds whatever the engine does.
LEMMA RefinementInvariant == Spec => []RInv
<1>1. Init => RInv
    BY InitRInv
<1>2. TypeInv /\ IInv /\ RInv /\ [Next]_vars => RInv'
    BY RInvStep
<1> QED
    BY <1>1, <1>2, EngineInvariant, PTL DEF Spec

\* A live transaction reads its own last write of a record, else the record as
\* it was when the transaction began (resolve_node_visible, apply_deltas_for_read).
THEOREM TransactionsReadTheirWrites == Spec => []ReadYourWrites
<1>1. TypeInv /\ IInv /\ RInv => ReadYourWrites
    BY ReadsOwnWrites
<1> QED
    BY <1>1, EngineInvariant, RefinementInvariant, PTL

\* As long as no edge is created, the engine implements the snapshot store:
\* begin_txn takes a snapshot, the writers write, commit_txn publishes the
\* writes at once, rollback_txn and an abort at the memory cap publish nothing,
\* and failed commits and the vacuum are invisible.
THEOREM EngineImplementsStore == SpecFixedEdges => RefinesSnapshotStore
<1>1. [Next /\ UNCHANGED nextEdge]_vars => [Next]_vars /\ nextEdge' = nextEdge
    BY DEF vars, idVars
<1>2. Init => NoEdgeInserts /\ Store!Init
    BY InitRInv, InitRefines
<1>3. TypeInv /\ IInv /\ NoEdgeInserts /\ [Next]_vars /\ nextEdge' = nextEdge => NoEdgeInserts'
    BY NoEdgeInsertsStep
<1>4. TypeInv /\ TypeInv' /\ IInv /\ IInv' /\ RInv /\ NoEdgeInserts /\ [Next]_vars => [Store!Next]_(Store!vars)
    BY StepRefines
<1>5. SpecFixedEdges => Spec
    BY <1>1, PTL DEF SpecFixedEdges, Spec
<1> QED
    BY <1>1, <1>2, <1>3, <1>4, <1>5, EngineInvariant, RefinementInvariant, PTL
       DEF SpecFixedEdges, RefinesSnapshotStore, Store!Spec

-----------------------------------------------------------------------------
(* What the counts need besides the engine's invariant.                    *)

\* A record is inserted once: ids are never handed out again.
OneInsert ==
    \A k \in Keys : \A d, e \in chain[k] : d.op = "Insert" /\ e.op = "Insert" => d = e

\* A record whose insert is not committed is not counted yet.
InsertIsNew ==
    \A k \in Keys : \A d \in chain[k] : d.op = "Insert" /\ d.cts = Uncommitted => k \notin exists

\* A delta that replaced a version found it on the page of an existing record,
\* which no vacuum takes while the chain is there, or in its own transaction.
PriorIsRooted ==
    \A k \in Keys : \A d \in chain[k] :
        d.prior # Absent =>
            k \in exists \/ \E e \in chain[k] : e.txn = d.txn /\ e.pos < d.pos

CInv == OneInsert /\ InsertIsNew /\ PriorIsRooted

-----------------------------------------------------------------------------

\* A step of the indexes is a step of the engine.
LEMMA IndexStepIsEngineStep == [NextIndex]_allVars => [Next]_vars
BY DEF NextIndex, Next, allVars

\* So the engine's invariant holds beside the indexes.
LEMMA EngineBesideIndexes == SpecIndex => [](TypeInv /\ IInv)
<1>1. InitIndex => Init
    BY DEF InitIndex
<1>2. SpecIndex => Spec
    BY <1>1, IndexStepIsEngineStep, PTL DEF SpecIndex, Spec
<1> QED
    BY <1>2, EngineInvariant, PTL

\* An empty chain needs nothing.
LEMMA InitCInv == Init => CInv
BY DEF Init, CInv, OneInsert, InsertIsNew, PriorIsRooted

\* A commit keeps the deltas, but for their timestamps, and adds to the
\* existence set only records that its own transaction inserted.
LEMMA CommitCInv ==
    ASSUME TypeInv, IInv, CInv, NEW t \in active, CommitTxn(t)
    PROVE  CInv'
<1>1. exists' = exists \cup NetInserts(t) /\ clock \in Nat \ {0}
    BY DEF CommitTxn, TypeInv, TypeOK
<1>2. ASSUME NEW k \in Keys
      PROVE  /\ \A e \in chain'[k] : \E d \in chain[k] :
                    /\ e.pos = d.pos /\ e.txn = d.txn /\ e.op = d.op /\ e.prior = d.prior
                    /\ e = Stamped(d, t, clock)
                    /\ IF d.txn = t THEN e.cts = clock ELSE e = d
             /\ \A d \in chain[k] : \E e \in chain'[k] : e.pos = d.pos /\ e.txn = d.txn
    <2>1. chain[k] \in SUBSET Delta
        BY DEF TypeInv, TypeOK
    <2>2. \A d \in chain[k] : Stamped(d, t, clock).op = d.op /\ Stamped(d, t, clock).prior = d.prior
        BY <1>1, <2>1, StampedFields
    <2>3. \A e \in chain'[k] : \E d \in chain[k] :
              /\ e.pos = d.pos /\ e.txn = d.txn /\ e = Stamped(d, t, clock)
              /\ IF d.txn = t THEN e.cts = clock ELSE e = d
        BY CommittedChain
    <2>4. \A d \in chain[k] : \E e \in chain'[k] : e.pos = d.pos /\ e.txn = d.txn
        BY CommittedChain
    <2> QED
        BY <2>2, <2>3, <2>4
<1>3. OneInsert'
    <2> SUFFICES ASSUME NEW k \in Keys, NEW d \in chain'[k], NEW e \in chain'[k],
                        d.op = "Insert", e.op = "Insert"
                 PROVE  d = e
        BY DEF OneInsert
    <2>1. PICK d0 \in chain[k] : d.op = d0.op /\ d = Stamped(d0, t, clock)
        BY <1>2
    <2>2. PICK e0 \in chain[k] : e.op = e0.op /\ e = Stamped(e0, t, clock)
        BY <1>2
    <2> QED
        BY <2>1, <2>2 DEF CInv, OneInsert
<1>4. InsertIsNew'
    <2> SUFFICES ASSUME NEW k \in Keys, NEW e \in chain'[k], e.op = "Insert", e.cts = Uncommitted,
                        k \in exists'
                 PROVE  FALSE
        BY DEF InsertIsNew
    <2>1. PICK d \in chain[k] : /\ e.op = d.op
                                /\ IF d.txn = t THEN e.cts = clock ELSE e = d
        BY <1>2
    <2>2. d.txn # t /\ d.op = "Insert" /\ d.cts = Uncommitted
        BY <1>1, <2>1 DEF Uncommitted
    <2>3. k \in NetInserts(t)
        BY <1>1, <2>2 DEF CInv, InsertIsNew
    <2>4. OfTxn(chain[k], t) # {} /\ Oldest(OfTxn(chain[k], t)).op = "Insert"
        BY <2>3 DEF NetInserts
    <2>5. OfTxn(chain[k], t) \in SUBSET Delta
        BY DEF OfTxn, TypeInv, TypeOK
    <2>6. Oldest(OfTxn(chain[k], t)) \in OfTxn(chain[k], t)
        BY <2>4, <2>5, OldestIsLeast
    <2> QED
        BY <2>2, <2>4, <2>6 DEF CInv, OneInsert, OfTxn
<1>5. PriorIsRooted'
    <2> SUFFICES ASSUME NEW k \in Keys, NEW e \in chain'[k], e.prior # Absent, k \notin exists'
                 PROVE  \E f \in chain'[k] : f.txn = e.txn /\ f.pos < e.pos
        BY DEF PriorIsRooted
    <2>1. PICK d \in chain[k] : e.prior = d.prior /\ e.txn = d.txn /\ e.pos = d.pos
        BY <1>2
    <2>2. PICK g \in chain[k] : g.txn = d.txn /\ g.pos < d.pos
        BY <1>1, <2>1 DEF CInv, PriorIsRooted
    <2> QED
        BY <1>2, <2>1, <2>2
<1> QED
    BY <1>3, <1>4, <1>5 DEF CInv

\* A write keeps the invariant: an insert takes a fresh id, and any other write
\* chains onto the page of an existing record or onto its own transaction.
LEMMA PushCInv ==
    ASSUME TypeInv, IInv, CInv, NEW t \in active, NEW k \in Keys, NEW op \in Ops,
           NEW prior \in Versions, NEW new \in Versions, PushStep(t, k, op, prior, new)
    PROVE  CInv'
<1>1. PICK x \in Delta :
          /\ x.txn = t /\ x.op = op /\ x.cts = Uncommitted /\ x.prior = prior
          /\ \A d \in chain[k] : d.pos < x.pos
          /\ chain'[k] = chain[k] \cup {x}
          /\ \A l \in Keys : l # k => chain'[l] = chain[l]
    BY PushedChain
<1>2. exists' = exists
    BY DEF PushStep
<1>3. op = "Insert" => chain[k] = {} /\ k \notin exists
    BY DEF PushStep, IInv, FreshIds
<1>4. OneInsert'
    BY <1>1, <1>3 DEF CInv, OneInsert
<1>5. InsertIsNew'
    BY <1>1, <1>2, <1>3 DEF CInv, InsertIsNew
<1>6. PriorIsRooted'
    <2>1. ASSUME prior # Absent
          PROVE  k \in exists \/ \E e \in chain[k] : e.txn = t
        <3>1. prior = ChainBase(t, k)
            BY <2>1 DEF PushStep
        <3> QED
            BY <2>1, <3>1 DEF ChainBase, CommittedBase
    <2> SUFFICES ASSUME NEW l \in Keys, NEW d \in chain'[l], d.prior # Absent, l \notin exists
                 PROVE  \E e \in chain'[l] : e.txn = d.txn /\ e.pos < d.pos
        BY <1>2 DEF PriorIsRooted
    <2>2. CASE d \in chain[l]
        <3>1. PICK e \in chain[l] : e.txn = d.txn /\ e.pos < d.pos
            BY <2>2 DEF CInv, PriorIsRooted
        <3>2. e \in chain'[l]
            BY <1>1
        <3> QED
            BY <3>1, <3>2
    <2>3. CASE d \notin chain[l]
        <3>1. l = k /\ d = x
            BY <1>1, <2>3
        <3>2. PICK e \in chain[k] : e.txn = t
            BY <1>1, <2>1, <3>1
        <3> QED
            BY <1>1, <3>1, <3>2
    <2> QED
        BY <2>2, <2>3
<1> QED
    BY <1>4, <1>5, <1>6 DEF CInv

\* Undoing a transaction takes all its deltas and no other.
LEMMA UndoCInv ==
    ASSUME TypeInv, IInv, CInv, NEW t \in active, UndoStep(t)
    PROVE  CInv'
<1>1. exists' = exists
    BY DEF UndoStep
<1>2. ASSUME NEW k \in Keys
      PROVE  chain'[k] = {d \in chain[k] : d.txn # t}
    <2>1. \A d \in chain[k] : d.txn = t => k \in written[t]
        BY DEF IInv, NoOrphanDelta, CommittedAreSettled
    <2>2. chain'[k] = IF k \in written[t] THEN RemoveTxn(chain[k], t) ELSE chain[k]
        BY DEF UndoStep, Undo
    <2> QED
        BY <2>1, <2>2 DEF RemoveTxn
<1> QED
    BY <1>1, <1>2 DEF CInv, OneInsert, InsertIsNew, PriorIsRooted

\* The vacuum takes a record out of the existence set only with its chain.
LEMMA VacuumCInv ==
    ASSUME TypeInv, IInv, CInv, VacuumOnce
    PROVE  CInv'
<1>1. /\ \A k \in Keys : chain'[k] = IF k \in Drainable THEN {} ELSE chain[k]
      /\ exists' = exists \ VacuumedDeletes
      /\ VacuumedDeletes \subseteq Drainable
    BY DEF VacuumOnce, VacuumedDeletes
<1> QED
    BY <1>1 DEF CInv, OneInsert, InsertIsNew, PriorIsRooted

\* Every step keeps it.
LEMMA CInvStep ==
    ASSUME TypeInv, IInv, CInv, [Next]_vars
    PROVE  CInv'
<1>0. StepShape
    BY NextShape
<1>a. ASSUME UNCHANGED <<chain, exists>> PROVE CInv'
    BY <1>a DEF CInv, OneInsert, InsertIsNew, PriorIsRooted
<1>1. CASE BeginTxn
    BY <1>1, <1>a DEF BeginTxn
<1>2. ASSUME NEW t \in active, CommitTxn(t) \/ CommitTxnFails(t) \/ UndoStep(t) PROVE CInv'
    BY <1>2, <1>a, CommitCInv, UndoCInv DEF CommitTxnFails
<1>3. ASSUME NEW t \in active, NEW k \in Keys, NEW op \in Ops, NEW prior \in Versions,
             NEW new \in Versions, PushStep(t, k, op, prior, new)
      PROVE  CInv'
    BY <1>3, PushCInv
<1>4. CASE VacuumOnce
    BY <1>4, VacuumCInv
<1>5. CASE UNCHANGED vars
    BY <1>5, <1>a DEF vars
<1> QED
    BY <1>0, <1>1, <1>2, <1>3, <1>4, <1>5 DEF StepShape

-----------------------------------------------------------------------------
(* The counts.                                                             *)

\* A commit creates only records that did not exist, so none is counted twice.
LEMMA NetInsertsAreNew ==
    ASSUME TypeInv, IInv, CInv, NEW t \in active, CommitTxn(t)
    PROVE  NetInserts(t) \cap exists = {}
<1> SUFFICES ASSUME NEW k \in NetInserts(t) PROVE k \notin exists
    OBVIOUS
<1>1. k \in Keys /\ OfTxn(chain[k], t) # {} /\ Oldest(OfTxn(chain[k], t)).op = "Insert"
    BY DEF NetInserts, TypeInv, TypeOK
<1>2. OfTxn(chain[k], t) \in SUBSET Delta
    BY <1>1 DEF OfTxn, TypeInv, TypeOK
<1>3. Oldest(OfTxn(chain[k], t)) \in OfTxn(chain[k], t)
    BY <1>1, <1>2, OldestIsLeast
<1>4. Oldest(OfTxn(chain[k], t)).cts = Uncommitted
    BY <1>1, <1>3, CommitStampsAll DEF OfTxn
<1> QED
    BY <1>1, <1>3, <1>4 DEF CInv, InsertIsNew, OfTxn

\* The vacuum discounts only records that existed, whatever their chain did to
\* them, so the unsigned counters do not wrap.
LEMMA VacuumedDeletesExisted ==
    ASSUME TypeInv, IInv, CInv
    PROVE  VacuumedDeletes \subseteq exists
<1> SUFFICES ASSUME NEW k \in VacuumedDeletes PROVE k \in exists
    OBVIOUS
<1>1. k \in Keys /\ chain[k] # {} /\ Oldest(chain[k]).prior # Absent
    BY DEF VacuumedDeletes, Drainable
<1>2. chain[k] \in SUBSET Delta
    BY <1>1 DEF TypeInv, TypeOK
<1>3. Oldest(chain[k]) \in chain[k] /\ \A e \in chain[k] : Oldest(chain[k]).pos <= e.pos
    BY <1>1, <1>2, OldestIsLeast
<1>4. \A e \in chain[k] : e.pos \in Nat
    BY <1>2 DEF Delta
<1>5. ~ \E e \in chain[k] : e.pos < Oldest(chain[k]).pos
    BY <1>3, <1>4
<1> QED
    BY <1>1, <1>3, <1>5 DEF CInv, PriorIsRooted

\* Adding new elements to a finite set adds up.
LEMMA CountAfterUnion ==
    ASSUME NEW S, NEW N, IsFiniteSet(N), NEW D, D \cap S = {}
    PROVE  Cardinality((S \cup D) \cap N) = Cardinality(S \cap N) + Cardinality(D \cap N)
<1>1. IsFiniteSet(S \cap N) /\ IsFiniteSet(D \cap N)
    BY FS_Subset
<1>2. Cardinality(S \cap N) \in Nat /\ Cardinality(D \cap N) \in Nat
    BY <1>1, FS_CardinalityType
<1>3. (S \cup D) \cap N = (S \cap N) \cup (D \cap N) /\ (S \cap N) \cap (D \cap N) = {}
    OBVIOUS
<1>4. Cardinality((S \cap N) \cup (D \cap N)) =
          Cardinality(S \cap N) + Cardinality(D \cap N) - Cardinality((S \cap N) \cap (D \cap N))
    BY <1>1, FS_Union
<1>5. Cardinality((S \cap N) \cap (D \cap N)) = 0
    BY <1>3, FS_EmptySet
<1>6. Cardinality((S \cup D) \cap N) = Cardinality((S \cap N) \cup (D \cap N))
    BY <1>3
<1> QED
    BY <1>2, <1>4, <1>5, <1>6

\* Taking some of its elements away subtracts.
LEMMA CountAfterDifference ==
    ASSUME NEW S, NEW N, IsFiniteSet(N), NEW D, D \subseteq S
    PROVE  Cardinality((S \ D) \cap N) = Cardinality(S \cap N) - Cardinality(D \cap N)
<1>1. IsFiniteSet(S \cap N)
    BY FS_Subset
<1>2. (S \ D) \cap N = (S \cap N) \ (D \cap N) /\ (S \cap N) \cap (D \cap N) = D \cap N
    OBVIOUS
<1>3. Cardinality((S \cap N) \ (D \cap N)) =
          Cardinality(S \cap N) - Cardinality((S \cap N) \cap (D \cap N))
    BY <1>1, FS_Difference
<1> QED
    BY <1>2, <1>3

\* There are finitely many records.
LEMMA RecordsAreFinite == IsFiniteSet(Nodes) /\ IsFiniteSet(Edges)
BY BoundsAssumption, FS_Interval DEF Nodes, Edges

\* Every step of the indexes keeps the counts exact.
LEMMA CountsStep ==
    ASSUME TypeInv, IInv, CInv, CountsAreExact, [NextIndex]_allVars
    PROVE  CountsAreExact'
<1>a. ASSUME UNCHANGED <<nodeCount, edgeCount, exists>> PROVE CountsAreExact'
    BY <1>a DEF CountsAreExact
<1>1. CASE LocalStep /\ UNCHANGED indexVars
    <2>1. exists' = exists
        BY <1>1 DEF LocalStep, BeginTxn, CommitTxnFails, RollbackTxn, WriteInTxn, AddNodeInTxn, AddEdgeInTxn,
                    UpdateNodeInTxn, UpdateEdgeInTxn, RemoveNodeInTxn, RemoveEdgeInTxn
    <2> QED
        BY <1>1, <1>a, <2>1 DEF indexVars
<1>2. ASSUME NEW t \in active, CommitTxn(t), ReconcileCommitted(t) PROVE CountsAreExact'
    <2>1. NetInserts(t) \cap exists = {}
        BY <1>2, NetInsertsAreNew
    <2>2. exists' = exists \cup NetInserts(t)
        BY <1>2 DEF CommitTxn
    <2>3. /\ nodeCount' = nodeCount + Cardinality(NetInserts(t) \cap Nodes)
          /\ edgeCount' = edgeCount + Cardinality(NetInserts(t) \cap Edges)
        BY <1>2 DEF ReconcileCommitted
    <2>4. Cardinality((exists \cup NetInserts(t)) \cap Nodes)
              = Cardinality(exists \cap Nodes) + Cardinality(NetInserts(t) \cap Nodes)
        BY <2>1, CountAfterUnion, RecordsAreFinite, Zenon
    <2>5. Cardinality((exists \cup NetInserts(t)) \cap Edges)
              = Cardinality(exists \cap Edges) + Cardinality(NetInserts(t) \cap Edges)
        BY <2>1, CountAfterUnion, RecordsAreFinite, Zenon
    <2>6. /\ nodeCount = Cardinality(exists \cap Nodes)
          /\ edgeCount = Cardinality(exists \cap Edges)
        BY DEF CountsAreExact
    <2>7. nodeCount' = Cardinality(exists' \cap Nodes) /\ edgeCount' = Cardinality(exists' \cap Edges)
        BY <2>2, <2>3, <2>4, <2>5, <2>6
    <2> QED
        BY <2>7 DEF CountsAreExact
<1>3. CASE VacuumOnce /\ ReconcileVacuumed
    <2>1. VacuumedDeletes \subseteq exists
        BY VacuumedDeletesExisted
    <2>2. exists' = exists \ VacuumedDeletes
        BY <1>3 DEF VacuumOnce
    <2>3. /\ nodeCount' = nodeCount - Cardinality(VacuumedDeletes \cap Nodes)
          /\ edgeCount' = edgeCount - Cardinality(VacuumedDeletes \cap Edges)
        BY <1>3 DEF ReconcileVacuumed
    <2>4. Cardinality((exists \ VacuumedDeletes) \cap Nodes)
              = Cardinality(exists \cap Nodes) - Cardinality(VacuumedDeletes \cap Nodes)
        BY <2>1, CountAfterDifference, RecordsAreFinite, Zenon
    <2>5. Cardinality((exists \ VacuumedDeletes) \cap Edges)
              = Cardinality(exists \cap Edges) - Cardinality(VacuumedDeletes \cap Edges)
        BY <2>1, CountAfterDifference, RecordsAreFinite, Zenon
    <2>6. /\ nodeCount = Cardinality(exists \cap Nodes)
          /\ edgeCount = Cardinality(exists \cap Edges)
        BY DEF CountsAreExact
    <2>7. nodeCount' = Cardinality(exists' \cap Nodes) /\ edgeCount' = Cardinality(exists' \cap Edges)
        BY <2>2, <2>3, <2>4, <2>5, <2>6
    <2> QED
        BY <2>7 DEF CountsAreExact
<1>4. CASE UNCHANGED allVars
    BY <1>4, <1>a DEF allVars, vars, indexVars
<1> QED
    BY <1>1, <1>2, <1>3, <1>4 DEF NextIndex

\* node_count and edge_count are the sizes of the existence sets in every
\* reachable state: commits never count a record twice, and the vacuum never
\* lowers a counter for a record that was not counted.
THEOREM CountsHold == SpecIndex => []CountsAreExact
<1>1. InitIndex => CInv /\ CountsAreExact
    BY InitCInv DEF InitIndex, CountsAreExact
<1>2. TypeInv /\ IInv /\ CInv /\ CountsAreExact /\ [NextIndex]_allVars => CInv' /\ CountsAreExact'
    BY IndexStepIsEngineStep, CInvStep, CountsStep
<1> QED
    BY <1>1, <1>2, EngineBesideIndexes, PTL DEF SpecIndex

-----------------------------------------------------------------------------
(* The label entries.                                                      *)

\* After the vacuum every reader, live or new, resolves a drained record to the
\* version its chain ended with.
LEMMA DrainedReads ==
    ASSUME TypeInv, VacuumOnce, NEW k \in Drainable
    PROVE  /\ ReadVersions(k)' \subseteq {NewState(k), Absent}
           /\ k \in Keys
<1>1. k \in Keys
    BY DEF Drainable
<1>2. chain'[k] = {} /\ page'[k] = NewState(k)
    BY <1>1 DEF VacuumOnce, NewState
<1>3. CommittedBase(k)' \in {NewState(k), Absent}
    BY <1>2 DEF CommittedBase
<1>4. ASSUME NEW ts, NEW reader
      PROVE  ApplyDeltasForRead(CommittedBase(k)', chain'[k], ts, reader) \in {NewState(k), Absent}
    BY <1>2, <1>3 DEF ApplyDeltasForRead, VisibleDeltas
<1>5. ReadAutoCommit(k)' \in {NewState(k), Absent}
    BY <1>4 DEF ReadAutoCommit, ResolveVisible
<1>6. ASSUME NEW t \in active' PROVE ReadInTxn(t, k)' \in {NewState(k), Absent}
    BY <1>4 DEF ReadInTxn, ResolveVisible
<1> QED
    BY <1>1, <1>5, <1>6 DEF ReadVersions

\* The vacuum removes a label entry only when no reader, live or new, resolves a
\* version with that label any more: commits, which add entries, and vacuums,
\* which remove them, never cut a snapshot's label scan short.
THEOREM LabelScansAreKept == SpecIndex => LabelEntriesKept
<1> DEFINE Kept == \A entry \in labelIdx \ labelIdx' : entry[1] \notin NeededLabels(entry[2])'
<1>1. TypeInv /\ [NextIndex]_allVars => [Kept]_allVars
    <2> SUFFICES ASSUME TypeInv, NextIndex, NEW entry \in labelIdx \ labelIdx'
                 PROVE  entry[1] \notin NeededLabels(entry[2])'
        OBVIOUS
    <2>1. VacuumOnce /\ ReconcileVacuumed
        BY DEF NextIndex, indexVars, ReconcileCommitted
    <2>2. PICK k \in StaleLabels : entry = <<LabelOf[OldBase(k)], k>>
        BY <2>1 DEF ReconcileVacuumed, LabelEntry
    <2>3. entry[1] = LabelOf[OldBase(k)] /\ entry[2] = k
        BY <2>2
    <2>4. k \in Drainable
        BY <2>2 DEF StaleLabels, VacuumedDeletes, VacuumedUpdates
    <2>5. ReadVersions(k)' \subseteq {NewState(k), Absent}
        BY <2>1, <2>4, DrainedReads
    <2>6. NewState(k) = Absent \/ LabelOf[OldBase(k)] # LabelOf[NewState(k)]
        BY <2>2 DEF StaleLabels, VacuumedDeletes, NewState
    <2>7. NeededLabels(k)' = {LabelOf[v] : v \in ReadVersions(k)' \ {Absent}}
        BY DEF NeededLabels
    <2>8. LabelOf[OldBase(k)] \notin NeededLabels(k)'
        BY <2>5, <2>6, <2>7
    <2> QED
        BY <2>3, <2>8
<1> QED
    BY <1>1, EngineBesideIndexes, PTL DEF SpecIndex, LabelEntriesKept

=============================================================================
