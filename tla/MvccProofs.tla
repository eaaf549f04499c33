---------------------------- MODULE MvccProofs ----------------------------
(***************************************************************************)
(* Proofs about the transaction engine, for every number of records,       *)
(* transactions and values and every shape of graph.                       *)
(***************************************************************************)
EXTENDS Mvcc, WellFoundedInduction, TLAPS

-----------------------------------------------------------------------------
(* Least and greatest elements.                                            *)

\* A non-empty set of naturals has a least element.
LEMMA LeastNat ==
    ASSUME NEW T \in SUBSET Nat, T # {}
    PROVE  \E x \in T : \A y \in T : x <= y
<1>1. PICK x \in T : \A y \in T : ~ (<<y, x>> \in OpToRel(<, Nat))
    <2>1. IsWellFoundedOn(OpToRel(<, Nat), Nat)
        BY NatLessThanWellFounded
    <2>2. T \subseteq Nat
        OBVIOUS
    <2> QED
        BY <2>1, <2>2, WFMin, Zenon
<1>2. \A y \in T : x <= y
    <2>1. SUFFICES ASSUME NEW y \in T, y < x PROVE FALSE
        OBVIOUS
    <2>2. <<y, x>> \in OpToRel(<, Nat)
        BY <2>1 DEF OpToRel
    <2> QED
        BY <1>1, <2>2
<1> QED
    BY <1>2

\* The oldest delta of a non-empty chain is one of its deltas and no delta of
\* the chain is older.
LEMMA OldestIsLeast ==
    ASSUME NEW ds \in SUBSET Delta, ds # {}
    PROVE  Oldest(ds) \in ds /\ \A e \in ds : Oldest(ds).pos <= e.pos
<1> DEFINE T == {d.pos : d \in ds}
<1>1. T \in SUBSET Nat /\ T # {}
    BY DEF Delta
<1>2. PICK x \in T : \A y \in T : x <= y
    BY <1>1, LeastNat
<1>3. \E d \in ds : \A e \in ds : d.pos <= e.pos
    BY <1>2
<1> QED
    BY <1>3 DEF Oldest

\* A bound on the positions of a chain.
Bounded(ds) == \E b \in Nat : \A d \in ds : d.pos <= b

\* The newest delta of a non-empty chain is one of its deltas and no delta of
\* the chain is newer.
LEMMA NewestIsGreatest ==
    ASSUME NEW ds \in SUBSET Delta, ds # {}, Bounded(ds)
    PROVE  Newest(ds) \in ds /\ \A e \in ds : e.pos <= Newest(ds).pos
<1>1. PICK b \in Nat : \A d \in ds : d.pos <= b
    BY DEF Bounded
<1> DEFINE T == {b - d.pos : d \in ds}
<1>2. T \in SUBSET Nat /\ T # {}
    BY <1>1 DEF Delta
<1>3. PICK x \in T : \A y \in T : x <= y
    BY <1>2, LeastNat
<1>4. \E d \in ds : \A e \in ds : e.pos <= d.pos
    <2>1. PICK d \in ds : x = b - d.pos
        BY <1>3
    <2>2. ASSUME NEW e \in ds PROVE e.pos <= d.pos
        <3>1. b - d.pos <= b - e.pos
            BY <1>3, <2>1
        <3> QED
            BY <3>1 DEF Delta
    <2> QED
        BY <2>2
<1> QED
    BY <1>4 DEF Newest

-----------------------------------------------------------------------------
(* Stamping and visibility.                                                *)

\* Stamping changes nothing of a delta but its commit_ts.
LEMMA StampedFields ==
    ASSUME NEW d \in Delta, NEW t, NEW ts \in Nat
    PROVE  /\ Stamped(d, t, ts) \in Delta
           /\ Stamped(d, t, ts).pos = d.pos
           /\ Stamped(d, t, ts).txn = d.txn
           /\ Stamped(d, t, ts).op = d.op
           /\ Stamped(d, t, ts).prior = d.prior
           /\ Stamped(d, t, ts).new = d.new
           /\ d.txn = t /\ d.cts = Uncommitted => Stamped(d, t, ts).cts = ts
           /\ d.txn # t \/ d.cts # Uncommitted => Stamped(d, t, ts) = d
BY DEF Stamped, Delta

\* A stamped chain is a chain.
LEMMA StampTxnType ==
    ASSUME NEW ds \in SUBSET Delta, NEW t, NEW ts \in Nat
    PROVE  /\ StampTxn(ds, t, ts) \in SUBSET Delta
           /\ Bounded(ds) => Bounded(StampTxn(ds, t, ts))
<1>1. \A d \in ds : Stamped(d, t, ts) \in Delta /\ Stamped(d, t, ts).pos = d.pos
    BY StampedFields
<1>2. StampTxn(ds, t, ts) \in SUBSET Delta
    BY <1>1 DEF StampTxn
<1>3. ASSUME Bounded(ds) PROVE Bounded(StampTxn(ds, t, ts))
    BY <1>1, <1>3 DEF StampTxn, Bounded
<1> QED
    BY <1>2, <1>3

\* A part of a bounded chain is bounded.
LEMMA BoundedSubset ==
    ASSUME NEW ds, Bounded(ds), NEW es \in SUBSET ds
    PROVE  Bounded(es)
BY DEF Bounded

\* A read of a chain over a base version returns a version.
LEMMA ApplyDeltasType ==
    ASSUME NEW base \in Versions, NEW ds \in SUBSET Delta, Bounded(ds), NEW ts, NEW reader
    PROVE  ApplyDeltasForRead(base, ds, ts, reader) \in Versions
<1> DEFINE vis == VisibleDeltas(ds, ts, reader)
<1>1. vis \in SUBSET ds
    BY DEF VisibleDeltas
<1>2. vis \in SUBSET Delta /\ Bounded(vis)
    BY <1>1, BoundedSubset
<1>3. ASSUME vis # {} PROVE Newest(vis).new \in Versions
    <2>1. Newest(vis) \in Delta
        BY <1>2, <1>3, NewestIsGreatest
    <2> QED
        BY <2>1 DEF Delta
<1> QED
    BY <1>3 DEF ApplyDeltasForRead

-----------------------------------------------------------------------------
(* The shapes of a step.                                                   *)

Ops == {"Insert", "Update", "Delete"}

ChainsBounded == \A k \in Keys : Bounded(chain[k])

TypeInv == TypeOK /\ ChainsBounded

\* The id counters only grow.
IdsGrow ==
    /\ nextNode' \in 1 .. (MaxNode + 1) /\ nextNode <= nextNode'
    /\ nextEdge' \in (MaxNode + 1) .. (MaxNode + MaxEdge + 1) /\ nextEdge <= nextEdge'

UndoStep(t) ==
    /\ t \in active
    /\ Undo(t)
    /\ UNCHANGED <<clock, nextTxn, page, exists>>
    /\ IdsGrow

PushStep(t, k, op, prior, new) ==
    /\ t \in active
    /\ \/ /\ op = "Insert" /\ prior = Absent
          /\ \/ k \in Nodes /\ k >= nextNode /\ nextNode' = k + 1
             \/ k \in Edges /\ k >= nextEdge /\ nextEdge' = k + 1
       \/ op # "Insert" /\ prior = ChainBase(t, k) /\ ReadInTxn(t, k) # Absent
    /\ PushTxnDelta(t, k, op, prior, new)
    /\ UNCHANGED <<clock, nextTxn, page, exists>>
    /\ IdsGrow

\* The version a write chains onto is a version.
LEMMA ChainBaseType ==
    ASSUME TypeInv, NEW t, NEW k \in Keys
    PROVE  ChainBase(t, k) \in Versions
<1> DEFINE own == {d \in chain[k] : d.txn = t /\ d.cts = Uncommitted}
<1>1. CommittedBase(k) \in Versions
    BY DEF TypeInv, TypeOK, CommittedBase, Versions
<1>2. chain[k] \in SUBSET Delta /\ Bounded(chain[k])
    BY DEF TypeInv, TypeOK, ChainsBounded
<1>3. own \in SUBSET Delta /\ Bounded(own)
    BY <1>2, BoundedSubset
<1>4. ASSUME own # {} PROVE Newest(own).new \in Versions
    <2>1. Newest(own) \in Delta
        BY <1>3, <1>4, NewestIsGreatest
    <2> QED
        BY <2>1 DEF Delta
<1> QED
    BY <1>1, <1>4 DEF ChainBase

\* Every writer either pushes one delta or, over the memory cap, undoes the
\* whole transaction.
LEMMA WriterShape ==
    ASSUME TypeInv, NEW t \in active,
           \/ \E v \in Values : AddNodeInTxn(t, v) \/ AddEdgeInTxn(t, v)
           \/ \E n \in Nodes : RemoveNodeInTxn(t, n) \/ \E v \in Values : UpdateNodeInTxn(t, n, v)
           \/ \E e \in Edges : RemoveEdgeInTxn(t, e) \/ \E v \in Values : UpdateEdgeInTxn(t, e, v)
    PROVE  \/ UndoStep(t)
           \/ \E k \in Keys, op \in Ops, prior \in Versions, new \in Versions :
                  PushStep(t, k, op, prior, new)
<1> USE DEF Ops
<1>0. Absent \in Versions /\ Values \subseteq Versions /\ Nodes \subseteq Keys /\ Edges \subseteq Keys
    BY DEF Versions, Keys
<1>t. /\ nextNode \in 1 .. (MaxNode + 1)
      /\ nextEdge \in (MaxNode + 1) .. (MaxNode + MaxEdge + 1)
      /\ MaxNode \in Nat /\ MaxEdge \in Nat
    BY BoundsAssumption DEF TypeInv, TypeOK
<1>1. CASE \E v \in Values : AddNodeInTxn(t, v)
    <2>1. PICK v \in Values : AddNodeInTxn(t, v)
        BY <1>1
    <2>2. IdsGrow /\ nextNode \in Nodes /\ nextNode' = nextNode + 1 /\ nextNode >= nextNode
        BY <2>1, <1>t DEF AddNodeInTxn, IdsGrow, Nodes
    <2>3. UndoStep(t) \/ PushStep(t, nextNode, "Insert", Absent, v)
        BY <2>1, <2>2 DEF AddNodeInTxn, ChargeThenPush, UndoStep, PushStep
    <2> QED
        BY <2>2, <2>3, <1>0
<1>2. CASE \E v \in Values : AddEdgeInTxn(t, v)
    <2>1. PICK v \in Values : AddEdgeInTxn(t, v)
        BY <1>2
    <2>2. IdsGrow /\ nextEdge \in Edges /\ nextEdge' = nextEdge + 1 /\ nextEdge >= nextEdge
        BY <2>1, <1>t DEF AddEdgeInTxn, IdsGrow, Edges
    <2>3. UndoStep(t) \/ PushStep(t, nextEdge, "Insert", Absent, v)
        BY <2>1, <2>2 DEF AddEdgeInTxn, ChargeThenPush, UndoStep, PushStep
    <2> QED
        BY <2>2, <2>3, <1>0
<1>3. ASSUME UNCHANGED idVars PROVE IdsGrow
    BY <1>3, <1>t DEF IdsGrow, idVars
<1>4. CASE \E n \in Nodes : RemoveNodeInTxn(t, n) \/ \E v \in Values : UpdateNodeInTxn(t, n, v)
    <2>1. PICK n \in Nodes : RemoveNodeInTxn(t, n) \/ \E v \in Values : UpdateNodeInTxn(t, n, v)
        BY <1>4
    <2>2. ChainBase(t, n) \in Versions
        BY ChainBaseType, <1>0
    <2>3. CASE RemoveNodeInTxn(t, n)
        <3>1. UndoStep(t) \/ PushStep(t, n, "Delete", ChainBase(t, n), Absent)
            BY <2>3, <1>3 DEF RemoveNodeInTxn, ChargeThenPush, UndoStep, PushStep
        <3> QED
            BY <3>1, <2>2, <1>0
    <2>4. CASE \E v \in Values : UpdateNodeInTxn(t, n, v)
        <3>1. PICK v \in Values : UpdateNodeInTxn(t, n, v)
            BY <2>4
        <3>2. UndoStep(t) \/ PushStep(t, n, "Update", ChainBase(t, n), v)
            BY <3>1, <1>3 DEF UpdateNodeInTxn, ChargeThenPush, UndoStep, PushStep
        <3> QED
            BY <3>2, <2>2, <1>0
    <2> QED
        BY <2>1, <2>3, <2>4
<1>5. CASE \E e \in Edges : RemoveEdgeInTxn(t, e) \/ \E v \in Values : UpdateEdgeInTxn(t, e, v)
    <2>1. PICK e \in Edges : RemoveEdgeInTxn(t, e) \/ \E v \in Values : UpdateEdgeInTxn(t, e, v)
        BY <1>5
    <2>2. ChainBase(t, e) \in Versions
        BY ChainBaseType, <1>0
    <2>3. CASE RemoveEdgeInTxn(t, e)
        <3>1. UndoStep(t) \/ PushStep(t, e, "Delete", ChainBase(t, e), Absent)
            BY <2>3, <1>3 DEF RemoveEdgeInTxn, ChargeThenPush, UndoStep, PushStep
        <3> QED
            BY <3>1, <2>2, <1>0
    <2>4. CASE \E v \in Values : UpdateEdgeInTxn(t, e, v)
        <3>1. PICK v \in Values : UpdateEdgeInTxn(t, e, v)
            BY <2>4
        <3>2. UndoStep(t) \/ PushStep(t, e, "Update", ChainBase(t, e), v)
            BY <3>1, <1>3 DEF UpdateEdgeInTxn, ChargeThenPush, UndoStep, PushStep
        <3> QED
            BY <3>2, <2>2, <1>0
    <2> QED
        BY <2>1, <2>3, <2>4
<1> QED
    BY <1>1, <1>2, <1>4, <1>5

\* A step of the engine is one of seven kinds.
StepShape ==
    \/ BeginTxn
    \/ \E t \in active : CommitTxn(t) \/ CommitTxnFails(t) \/ UndoStep(t)
    \/ \E t \in active, k \in Keys, op \in Ops, prior \in Versions, new \in Versions :
           PushStep(t, k, op, prior, new)
    \/ VacuumOnce
    \/ UNCHANGED vars

\* Next, with the six writers reduced to a push or an undo.
LEMMA NextShape == TypeInv /\ [Next]_vars => StepShape
<1> SUFFICES ASSUME TypeInv, [Next]_vars PROVE StepShape
    OBVIOUS
<1>1. CASE BeginTxn
    BY <1>1 DEF StepShape
<1>2. CASE \E t \in active : CommitTxn(t) \/ CommitTxnFails(t) \/ RollbackTxn(t)
    <2>1. PICK t \in active : CommitTxn(t) \/ CommitTxnFails(t) \/ RollbackTxn(t)
        BY <1>2
    <2>2. CASE RollbackTxn(t)
        <3>1. IdsGrow
            BY <2>2, BoundsAssumption DEF RollbackTxn, IdsGrow, idVars, TypeInv, TypeOK
        <3>2. UndoStep(t)
            BY <2>2, <3>1 DEF RollbackTxn, UndoStep
        <3> QED
            BY <3>2 DEF StepShape
    <2> QED
        BY <2>1, <2>2 DEF StepShape
<1>3. CASE \E t \in active, v \in Values : AddNodeInTxn(t, v) \/ AddEdgeInTxn(t, v)
    <2>1. PICK t \in active : \E v \in Values : AddNodeInTxn(t, v) \/ AddEdgeInTxn(t, v)
        BY <1>3
    <2> QED
        BY <2>1, WriterShape DEF StepShape
<1>4. CASE \E t \in active, n \in Nodes : RemoveNodeInTxn(t, n) \/ \E v \in Values : UpdateNodeInTxn(t, n, v)
    <2>1. PICK t \in active : \E n \in Nodes : RemoveNodeInTxn(t, n) \/ \E v \in Values : UpdateNodeInTxn(t, n, v)
        BY <1>4
    <2> QED
        BY <2>1, WriterShape DEF StepShape
<1>5. CASE \E t \in active, e \in Edges : RemoveEdgeInTxn(t, e) \/ \E v \in Values : UpdateEdgeInTxn(t, e, v)
    <2>1. PICK t \in active : \E e \in Edges : RemoveEdgeInTxn(t, e) \/ \E v \in Values : UpdateEdgeInTxn(t, e, v)
        BY <1>5
    <2> QED
        BY <2>1, WriterShape DEF StepShape
<1>6. CASE VacuumOnce
    BY <1>6 DEF StepShape
<1>7. CASE UNCHANGED vars
    BY <1>7 DEF StepShape
<1> QED
    BY <1>1, <1>2, <1>3, <1>4, <1>5, <1>6, <1>7 DEF Next, LocalStep, WriteInTxn

-----------------------------------------------------------------------------
(* Type correctness.                                                       *)

\* The initial states are well typed.
LEMMA InitTypeInv == Init => TypeInv
<1> SUFFICES ASSUME Init PROVE TypeInv
    OBVIOUS
<1>1. TypeOK
    BY BoundsAssumption DEF Init, TypeOK, TxnIds, Keys, Nodes, Edges
<1>2. ChainsBounded
    BY DEF Init, ChainsBounded, Bounded
<1> QED
    BY <1>1, <1>2 DEF TypeInv

\* Ending a transaction keeps the registry well typed.
LEMMA EndTxnType ==
    ASSUME TypeOK, NEW t, EndTxn(t)
    PROVE  /\ active' \in SUBSET TxnIds
           /\ startTs' \in [TxnIds -> Nat]
           /\ used' \in [TxnIds -> Nat]
           /\ written' \in [TxnIds -> SUBSET Keys]
           /\ pending' \in [TxnIds -> SUBSET Keys]
BY DEF TypeOK, EndTxn

\* The delta a push adds is newer than every delta of its chain.
LEMMA PushPosition ==
    ASSUME TypeInv, NEW k \in Keys
    PROVE  LET pos == IF chain[k] = {} THEN 1 ELSE Newest(chain[k]).pos + 1
           IN  pos \in Nat /\ \A d \in chain[k] : d.pos < pos
<1>1. chain[k] \in SUBSET Delta /\ Bounded(chain[k])
    BY DEF TypeInv, TypeOK, ChainsBounded
<1>2. CASE chain[k] = {}
    BY <1>2
<1>3. CASE chain[k] # {}
    <2>1. Newest(chain[k]) \in chain[k] /\ \A e \in chain[k] : e.pos <= Newest(chain[k]).pos
        BY <1>1, <1>3, NewestIsGreatest
    <2>2. Newest(chain[k]).pos \in Nat /\ \A e \in chain[k] : e.pos \in Nat
        BY <1>1, <2>1 DEF Delta
    <2> QED
        BY <1>3, <2>1, <2>2
<1> QED
    BY <1>2, <1>3

\* The versions a commit materialises are versions.
LEMMA MaterializedType ==
    ASSUME TypeInv, NEW t \in TxnIds
    PROVE  MaterializedAtCommit(t) \in [Keys -> Versions]
<1>1. ASSUME NEW k \in Keys
      PROVE  ApplyDeltasForRead(Absent, StampedChain(t, k), clock + 1, NoTxn) \in Versions
    <2>1. chain[k] \in SUBSET Delta /\ Bounded(chain[k]) /\ clock \in Nat /\ Absent \in Versions
        BY DEF TypeInv, TypeOK, ChainsBounded, Versions
    <2>2. StampedChain(t, k) \in SUBSET Delta /\ Bounded(StampedChain(t, k))
        BY <2>1, StampTxnType DEF StampedChain
    <2> QED
        BY <2>1, <2>2, ApplyDeltasType
<1>2. page \in [Keys -> Versions]
    BY DEF TypeInv, TypeOK
<1> QED
    BY <1>1, <1>2 DEF MaterializedAtCommit

\* Every step keeps the state well typed and the chains bounded.
LEMMA TypeStep == TypeInv /\ [Next]_vars => TypeInv'
<1> SUFFICES ASSUME TypeInv, [Next]_vars PROVE TypeInv'
    OBVIOUS
<1>0. StepShape
    BY NextShape
<1>ty. TypeOK
    BY DEF TypeInv
<1>b. ChainsBounded
    BY DEF TypeInv
<1>1. CASE BeginTxn
    <2>1. nextTxn \in TxnIds
        BY <1>1, <1>ty, BoundsAssumption DEF BeginTxn, TypeOK, TxnIds
    <2>a. nextTxn' \in 1 .. (MaxTxn + 1) /\ clock' \in Nat \ {0}
        BY <1>1, <1>ty, BoundsAssumption DEF BeginTxn, TypeOK
    <2>b. active' \in SUBSET TxnIds
        BY <1>1, <1>ty, <2>1 DEF BeginTxn, TypeOK
    <2>c. startTs' \in [TxnIds -> Nat]
        BY <1>1, <1>ty, <2>1 DEF BeginTxn, TypeOK
    <2>2. TypeOK'
        BY <1>1, <1>ty, <2>a, <2>b, <2>c DEF BeginTxn, TypeOK, idVars
    <2>3. ChainsBounded'
        BY <1>1, <1>b DEF BeginTxn, ChainsBounded
    <2> QED
        BY <2>2, <2>3 DEF TypeInv
<1>2. ASSUME NEW t \in active, CommitTxn(t) PROVE TypeInv'
    <2>1. t \in TxnIds /\ clock \in Nat
        BY <1>ty DEF TypeOK
    <2>2. page' \in [Keys -> Versions]
        BY <1>2, <2>1, MaterializedType DEF CommitTxn
    <2>3. \A k \in Keys : StampedChain(t, k) \in SUBSET Delta /\ Bounded(StampedChain(t, k))
        BY <2>1, <1>ty, <1>b, StampTxnType DEF StampedChain, TypeOK, ChainsBounded
    <2>4. chain' \in [Keys -> SUBSET Delta] /\ ChainsBounded'
        BY <2>3, <1>2 DEF CommitTxn, ChainsBounded
    <2>5. NetInserts(t) \subseteq Keys
        BY <2>1, <1>ty DEF NetInserts, TypeOK
    <2>6. EndTxn(t)
        BY <1>2 DEF CommitTxn
    <2>7. clock' \in Nat \ {0} /\ exists' \in SUBSET Keys /\ UNCHANGED <<nextTxn, nextNode, nextEdge>>
        BY <1>2, <1>ty, <2>5 DEF CommitTxn, TypeOK, idVars
    <2>8. TypeOK'
        BY <2>2, <2>4, <2>6, <2>7, EndTxnType, <1>ty DEF TypeOK
    <2> QED
        BY <2>4, <2>8 DEF TypeInv
<1>3. ASSUME NEW t \in active, CommitTxnFails(t) PROVE TypeInv'
    <2>1. TypeOK'
        BY <1>3, <1>ty DEF CommitTxnFails, TypeOK, registryVars, idVars
    <2>2. ChainsBounded'
        BY <1>3, <1>b DEF CommitTxnFails, ChainsBounded
    <2> QED
        BY <2>1, <2>2 DEF TypeInv
<1>4. ASSUME NEW t \in active, UndoStep(t) PROVE TypeInv'
    <2>1. \A k \in Keys : chain'[k] \in SUBSET chain[k]
        BY <1>4 DEF UndoStep, Undo, RemoveTxn
    <2>2. chain' \in [Keys -> SUBSET Delta]
        BY <1>4, <1>ty DEF UndoStep, Undo, RemoveTxn, TypeOK
    <2>3. ChainsBounded'
        BY <2>1, <1>b, BoundedSubset DEF ChainsBounded
    <2>4. EndTxn(t) /\ IdsGrow /\ UNCHANGED <<clock, nextTxn, page, exists>>
        BY <1>4 DEF UndoStep, Undo
    <2>5. TypeOK'
        BY <2>2, <2>4, EndTxnType, <1>ty DEF TypeOK, IdsGrow
    <2> QED
        BY <2>3, <2>5 DEF TypeInv
<1>5. ASSUME NEW t \in active, NEW k \in Keys, NEW op \in Ops, NEW prior \in Versions,
             NEW new \in Versions, PushStep(t, k, op, prior, new)
      PROVE  TypeInv'
    <2> DEFINE pos == IF chain[k] = {} THEN 1 ELSE Newest(chain[k]).pos + 1
               delta == [pos |-> pos, txn |-> t, op |-> op, prior |-> prior,
                         new |-> new, cts |-> Uncommitted]
    <2>1. t \in TxnIds
        BY <1>ty DEF TypeOK
    <2>2. pos \in Nat /\ \A d \in chain[k] : d.pos < pos
        BY PushPosition
    <2> HIDE DEF pos
    <2>3. delta \in Delta /\ delta.pos = pos
        BY <2>1, <2>2 DEF Delta, Ops, Uncommitted
    <2>4. /\ chain' = [chain EXCEPT ![k] = @ \cup {delta}]
          /\ written' = [written EXCEPT ![t] = @ \cup {k}]
          /\ pending' = [pending EXCEPT ![t] = IF op = "Insert" THEN @ \cup {k} ELSE @]
          /\ used' = [used EXCEPT ![t] = @ + 1]
          /\ UNCHANGED <<active, startTs, clock, nextTxn, page, exists>>
          /\ IdsGrow
        BY <1>5 DEF PushStep, PushTxnDelta, pos
    <2> HIDE DEF delta
    <2>5. TypeOK'
        BY <2>1, <2>3, <2>4, <1>ty DEF TypeOK, IdsGrow
    <2>6. Bounded(chain[k] \cup {delta})
        <3>1. PICK b \in Nat : \A d \in chain[k] : d.pos <= b
            BY <1>b DEF ChainsBounded, Bounded
        <3>2. \A d \in chain[k] : d.pos <= pos
            BY <2>2, <1>ty DEF TypeOK, Delta
        <3> QED
            BY <3>2, <2>2, <2>3 DEF Bounded
    <2>7. ChainsBounded'
        BY <2>4, <2>6, <1>b, <1>ty DEF ChainsBounded, TypeOK
    <2> QED
        BY <2>5, <2>7 DEF TypeInv
<1>6. CASE VacuumOnce
    <2>1. \A k \in Drainable : Newest(chain[k]).new \in Versions
        <3> SUFFICES ASSUME NEW k \in Drainable PROVE Newest(chain[k]).new \in Versions
            OBVIOUS
        <3>1. chain[k] \in SUBSET Delta /\ chain[k] # {} /\ Bounded(chain[k])
            BY <1>ty, <1>b DEF Drainable, TypeOK, ChainsBounded
        <3>2. Newest(chain[k]) \in Delta
            BY <3>1, NewestIsGreatest
        <3> QED
            BY <3>2 DEF Delta
    <2>2. page' \in [Keys -> Versions]
        BY <1>6, <1>ty, <2>1 DEF VacuumOnce, TypeOK
    <2>3. TypeOK'
        BY <1>6, <1>ty, <2>2 DEF VacuumOnce, TypeOK, registryVars, idVars
    <2>4. ChainsBounded'
        BY <1>6, <1>b DEF VacuumOnce, ChainsBounded, Bounded
    <2> QED
        BY <2>3, <2>4 DEF TypeInv
<1>7. CASE UNCHANGED vars
    <2>1. TypeOK'
        BY <1>7, <1>ty DEF TypeOK, vars, registryVars, idVars
    <2>2. ChainsBounded'
        BY <1>7, <1>b DEF ChainsBounded, vars
    <2> QED
        BY <2>1, <2>2 DEF TypeInv
<1> QED
    BY <1>0, <1>1, <1>2, <1>3, <1>4, <1>5, <1>6, <1>7 DEF StepShape

\* Typing and bounded chains hold of every reachable state.
LEMMA TypeInvariant == Spec => []TypeInv
<1> QED
    BY InitTypeInv, TypeStep, PTL DEF Spec

\* Every reachable state of the engine is well typed.
THEOREM TypeCorrectness == Spec => []TypeOK
<1>1. TypeInv => TypeOK
    BY DEF TypeInv
<1> QED
    BY <1>1, TypeInvariant, PTL

-----------------------------------------------------------------------------
(* The inductive invariant.                                                *)

\* Push order tells deltas apart.
TotalOrder(ds) == \A d, e \in ds : d.pos = e.pos => d = e

\* A delta no other is newer than is the newest.
LEMMA NewestUnique ==
    ASSUME NEW ds \in SUBSET Delta, TotalOrder(ds), NEW d \in ds, \A e \in ds : e.pos <= d.pos
    PROVE  d = Newest(ds)
<1>1. Newest(ds) \in ds /\ \A e \in ds : e.pos <= Newest(ds).pos
    BY DEF Newest
<1>2. d.pos \in Nat /\ Newest(ds).pos \in Nat
    BY <1>1 DEF Delta
<1>3. d.pos = Newest(ds).pos
    BY <1>1, <1>2
<1> QED
    BY <1>1, <1>3 DEF TotalOrder

\* A delta no other is older than is the oldest.
LEMMA OldestUnique ==
    ASSUME NEW ds \in SUBSET Delta, TotalOrder(ds), NEW d \in ds, \A e \in ds : d.pos <= e.pos
    PROVE  d = Oldest(ds)
<1>1. Oldest(ds) \in ds /\ \A e \in ds : Oldest(ds).pos <= e.pos
    BY DEF Oldest
<1>2. d.pos \in Nat /\ Oldest(ds).pos \in Nat
    BY <1>1 DEF Delta
<1>3. d.pos = Oldest(ds).pos
    BY <1>1, <1>2
<1> QED
    BY <1>1, <1>3 DEF TotalOrder

\* What the type invariant and the push order say of one chain.
LEMMA ChainFacts ==
    ASSUME TypeInv, IInv, NEW k \in Keys
    PROVE  /\ chain[k] \in SUBSET Delta
           /\ Bounded(chain[k])
           /\ TotalOrder(chain[k])
           /\ \A d \in chain[k] : d.pos \in Nat /\ d.txn \in TxnIds /\ d.cts \in Nat
BY DEF TypeInv, TypeOK, ChainsBounded, IInv, PushOrderIsTotal, TotalOrder, Delta

\* A version that a set of whole, committed transactions leaves behind belongs
\* to an existing record.
LEMMA CommittedVersionExists ==
    ASSUME TypeInv, IInv, NEW k \in Keys, NEW es \in SUBSET chain[k], es # {},
           \A d \in es : d.cts # Uncommitted,
           \A d \in es, e \in chain[k] : d.txn = e.txn => e \in es,
           Newest(es).new # Absent
    PROVE  k \in exists
<1> DEFINE d == Newest(es)
           own == OfTxn(chain[k], d.txn)
<1>1. es \in SUBSET Delta /\ Bounded(es) /\ TotalOrder(chain[k])
    BY ChainFacts, BoundedSubset
<1>2. d \in es /\ \A e \in es : e.pos <= d.pos
    BY <1>1, NewestIsGreatest
<1> HIDE DEF d
<1>3. own \in SUBSET es /\ d \in own /\ own \in SUBSET Delta /\ TotalOrder(own)
    BY <1>1, <1>2 DEF OfTxn, TotalOrder
<1>4. d = Newest(own)
    BY <1>2, <1>3, NewestUnique
<1>5. d \in chain[k] /\ d.cts # Uncommitted /\ d.new # Absent
    BY <1>2 DEF d
<1>6. ExistenceCovers
    BY DEF IInv
<1> QED
    BY <1>4, <1>5, <1>6 DEF ExistenceCovers

\* The deltas a snapshot sees, its own apart, are those of whole, committed
\* transactions.
LEMMA VisibleIsWhole ==
    ASSUME TypeInv, IInv, NEW k \in Keys, NEW t, NEW ts, OfTxn(chain[k], t) = {}
    PROVE  LET vis == VisibleDeltas(chain[k], ts, t)
           IN  /\ \A d \in vis : d.cts # Uncommitted
               /\ \A d \in vis, e \in chain[k] : d.txn = e.txn => e \in vis
<1>1. CommitIsAtomic
    BY DEF IInv
<1>2. \A d, e \in chain[k] : d.txn = e.txn => d.cts = e.cts
    BY <1>1 DEF CommitIsAtomic
<1> QED
    BY <1>2 DEF VisibleDeltas, DeltaVisibleTo, OfTxn

\* A record a live transaction reads exists, or the transaction wrote it.
LEMMA VisibleExists ==
    ASSUME TypeInv, IInv, NEW t \in active, NEW k \in Keys, ReadInTxn(t, k) # Absent
    PROVE  k \in exists \/ OfTxn(chain[k], t) # {}
<1> SUFFICES ASSUME OfTxn(chain[k], t) = {} PROVE k \in exists
    OBVIOUS
<1> DEFINE vis == VisibleDeltas(chain[k], startTs[t], t)
<1>1. CASE vis = {}
    BY <1>1 DEF ReadInTxn, ResolveVisible, ApplyDeltasForRead, CommittedBase
<1>2. CASE vis # {}
    <2>1. Newest(vis).new # Absent
        BY <1>2 DEF ReadInTxn, ResolveVisible, ApplyDeltasForRead
    <2>2. vis \in SUBSET chain[k]
        BY DEF VisibleDeltas
    <2>3. /\ \A d \in vis : d.cts # Uncommitted
          /\ \A d \in vis, e \in chain[k] : d.txn = e.txn => e \in vis
        BY VisibleIsWhole
    <2> HIDE DEF vis
    <2> QED
        BY <1>2, <2>1, <2>2, <2>3, CommittedVersionExists
<1> QED
    BY <1>1, <1>2

\* The initial states satisfy the invariant: there are no deltas.
LEMMA InitIInv == Init => IInv
<1> SUFFICES ASSUME Init PROVE IInv
    OBVIOUS
<1>1. /\ \A k \in Keys : chain[k] = {}
      /\ active = {}
      /\ exists = {k \in Keys : page[k] # Absent}
      /\ \A n \in Nodes : page[n] # Absent => n < nextNode
      /\ \A e \in Edges : page[e] # Absent => e < nextEdge
      /\ nextNode \in Nat /\ nextEdge \in Nat /\ Nodes \subseteq Nat /\ Edges \subseteq Nat
    BY BoundsAssumption DEF Init, Nodes, Edges
<1>2. FreshIds
    <2>1. ASSUME NEW k \in Nodes, k >= nextNode PROVE page[k] = Absent
        BY <1>1, <2>1
    <2>2. ASSUME NEW k \in Edges, k >= nextEdge PROVE page[k] = Absent
        BY <1>1, <2>2
    <2> QED
        BY <1>1, <2>1, <2>2 DEF FreshIds
<1>3. ExistenceCovers
    BY <1>1 DEF ExistenceCovers
<1>4. NoOrphanDelta /\ CommittedAreSettled /\ LiveAreBegun /\ PushOrderIsTotal
    BY <1>1 DEF NoOrphanDelta, CommittedAreSettled, LiveAreBegun, PushOrderIsTotal
<1>5. CommitIsAtomic /\ WritesAreRooted
    BY <1>1 DEF CommitIsAtomic, WritesAreRooted
<1> QED
    BY <1>2, <1>3, <1>4, <1>5 DEF IInv

\* begin_txn keeps the invariant: the new id and the new timestamp are fresh.
LEMMA BeginIInv ==
    ASSUME TypeInv, IInv, BeginTxn
    PROVE  IInv'
<1>1. /\ nextTxn' = nextTxn + 1
      /\ clock' = clock + 1
      /\ active' \subseteq active \cup {nextTxn}
      /\ active \subseteq active'
      /\ \A t \in active' : t # nextTxn => startTs'[t] = startTs[t]
      /\ nextTxn \in active' => startTs'[nextTxn] = clock \/ nextTxn \in active
      /\ UNCHANGED <<used, written, pending, chain, page, exists, nextNode, nextEdge>>
      /\ clock \in Nat /\ nextTxn \in Nat
      /\ active \subseteq TxnIds /\ TxnIds \subseteq Nat
    <2>1. nextTxn \in TxnIds /\ nextTxn \in Nat /\ clock \in Nat
        BY BoundsAssumption DEF BeginTxn, TypeInv, TypeOK, TxnIds
    <2>2. active \subseteq TxnIds /\ TxnIds \subseteq Nat /\ startTs \in [TxnIds -> Nat]
        BY BoundsAssumption DEF TypeInv, TypeOK, TxnIds
    <2> QED
        BY <2>1, <2>2 DEF BeginTxn, idVars
<1>2. NoOrphanDelta' /\ PushOrderIsTotal' /\ CommitIsAtomic'
    <2>1. NoOrphanDelta'
        BY <1>1 DEF IInv, NoOrphanDelta
    <2>2. PushOrderIsTotal'
        BY <1>1 DEF IInv, PushOrderIsTotal
    <2>3. CommitIsAtomic'
        BY <1>1 DEF IInv, CommitIsAtomic
    <2> QED
        BY <2>1, <2>2, <2>3
<1>e. ExistenceCovers' /\ WritesAreRooted' /\ FreshIds'
    <2>1. ExistenceCovers'
        BY <1>1 DEF IInv, ExistenceCovers
    <2>2. WritesAreRooted'
        BY <1>1 DEF IInv, WritesAreRooted
    <2>3. FreshIds'
        BY <1>1 DEF IInv, FreshIds
    <2> QED
        BY <2>1, <2>2, <2>3
<1>3. CommittedAreSettled'
    <2>1. \A k \in Keys : \A d \in chain[k] : d.txn \in Nat /\ d.cts \in Nat
        BY ChainFacts, <1>1
    <2> QED
        BY <1>1, <2>1 DEF IInv, CommittedAreSettled
<1>4. LiveAreBegun'
    <2>1. \A t \in active : t \in Nat /\ startTs[t] \in Nat /\ t < nextTxn /\ startTs[t] < clock
        BY <1>1 DEF IInv, LiveAreBegun, TypeInv, TypeOK
    <2> QED
        BY <1>1, <2>1 DEF LiveAreBegun
<1> QED
    BY <1>2, <1>e, <1>3, <1>4 DEF IInv

\* A failed commit keeps the invariant: only the clock moves.
LEMMA CommitFailsIInv ==
    ASSUME TypeInv, IInv, NEW t \in active, CommitTxnFails(t)
    PROVE  IInv'
<1>1. /\ clock' = clock + 1 /\ clock \in Nat
      /\ UNCHANGED <<nextTxn, active, startTs, used, written, pending, chain, page, exists, nextNode, nextEdge>>
    BY DEF CommitTxnFails, registryVars, idVars, TypeInv, TypeOK
<1>2. NoOrphanDelta' /\ PushOrderIsTotal' /\ CommitIsAtomic' /\ ExistenceCovers' /\ WritesAreRooted' /\ FreshIds'
    BY <1>1 DEF IInv, NoOrphanDelta, PushOrderIsTotal, CommitIsAtomic, ExistenceCovers,
                WritesAreRooted, FreshIds
<1>3. CommittedAreSettled'
    <2>1. \A k \in Keys : \A d \in chain[k] : d.cts \in Nat
        BY ChainFacts
    <2> QED
        BY <1>1, <2>1 DEF IInv, CommittedAreSettled
<1>4. LiveAreBegun'
    <2>1. \A u \in active : startTs[u] \in Nat
        BY DEF TypeInv, TypeOK
    <2> QED
        BY <1>1, <2>1 DEF IInv, LiveAreBegun
<1> QED
    BY <1>2, <1>3, <1>4 DEF IInv

\* An id not yet handed out.
Fresh(k) == (k \in Nodes /\ k >= nextNode) \/ (k \in Edges /\ k >= nextEdge)

\* No id becomes fresh again.
LEMMA FreshShrinks ==
    ASSUME TypeInv, IdsGrow, NEW k \in Keys
    PROVE  Fresh(k)' => Fresh(k)
<1>1. /\ nextNode \in Nat /\ nextNode' \in Nat /\ nextNode <= nextNode'
      /\ nextEdge \in Nat /\ nextEdge' \in Nat /\ nextEdge <= nextEdge'
      /\ Nodes \subseteq Nat /\ Edges \subseteq Nat
    BY BoundsAssumption DEF IdsGrow, TypeInv, TypeOK, Nodes, Edges
<1>2. ASSUME k \in Nodes, k >= nextNode' PROVE k >= nextNode
    BY <1>1, <1>2
<1>3. ASSUME k \in Edges, k >= nextEdge' PROVE k >= nextEdge
    BY <1>1, <1>3
<1> QED
    BY <1>2, <1>3 DEF Fresh

\* Undoing a transaction, on rollback or over the memory cap, keeps the
\* invariant: its deltas, all uncommitted, are gone and no other is touched.
LEMMA UndoIInv ==
    ASSUME TypeInv, IInv, NEW t \in active, UndoStep(t)
    PROVE  IInv'
<1>1. /\ active' = active \ {t}
      /\ \A u \in active' : startTs'[u] = startTs[u] /\ written'[u] = written[u] /\ pending'[u] = pending[u]
      /\ UNCHANGED <<clock, nextTxn, page, exists>>
      /\ IdsGrow
    BY DEF UndoStep, Undo, EndTxn, TypeInv, TypeOK
<1>2. ASSUME NEW k \in Keys
      PROVE  chain'[k] = {d \in chain[k] : d.txn # t}
    <2>1. \A d \in chain[k] : d.txn = t => k \in written[t]
        BY DEF IInv, NoOrphanDelta, CommittedAreSettled
    <2>2. chain'[k] = IF k \in written[t] THEN RemoveTxn(chain[k], t) ELSE chain[k]
        BY DEF UndoStep, Undo
    <2> QED
        BY <2>1, <2>2 DEF RemoveTxn
<1>3. \A k \in Keys : chain'[k] \subseteq chain[k]
    BY <1>2
<1>4. \A k \in Keys, u \in TxnIds : u # t => OfTxn(chain'[k], u) = OfTxn(chain[k], u)
    BY <1>2 DEF OfTxn
<1>5. NoOrphanDelta'
    BY <1>1, <1>2 DEF IInv, NoOrphanDelta
<1>6. CommittedAreSettled'
    BY <1>1, <1>2 DEF IInv, CommittedAreSettled
<1>7. LiveAreBegun'
    BY <1>1 DEF IInv, LiveAreBegun
<1>8. FreshIds'
    <2>1. \A k \in Keys : Fresh(k)' => Fresh(k)
        BY <1>1, FreshShrinks
    <2> QED
        BY <1>1, <1>3, <2>1 DEF IInv, FreshIds, Fresh
<1>9. PushOrderIsTotal'
    BY <1>3 DEF IInv, PushOrderIsTotal
<1>10. CommitIsAtomic'
    BY <1>3 DEF IInv, CommitIsAtomic
<1>11. ExistenceCovers'
    <2> SUFFICES ASSUME NEW k \in Keys, k \notin exists
                 PROVE  /\ page[k] = Absent
                        /\ \A d \in chain'[k] :
                               d.cts # Uncommitted /\ d = Newest(OfTxn(chain'[k], d.txn)) => d.new = Absent
        BY <1>1 DEF ExistenceCovers
    <2>1. \A d \in chain'[k] : d \in chain[k] /\ d.txn \in TxnIds /\ d.txn # t
        BY <1>2, ChainFacts
    <2> QED
        BY <2>1, <1>4 DEF IInv, ExistenceCovers
<1>12. WritesAreRooted'
    <2> SUFFICES ASSUME NEW k \in Keys, NEW d \in chain'[k], d.cts = Uncommitted, k \notin exists
                 PROVE  Oldest(OfTxn(chain'[k], d.txn)).op = "Insert" /\ k \in pending'[d.txn]
        BY <1>1 DEF WritesAreRooted
    <2>1. d \in chain[k] /\ d.txn \in TxnIds /\ d.txn # t /\ d.txn \in active
        BY <1>2, ChainFacts DEF IInv, NoOrphanDelta
    <2> QED
        BY <2>1, <1>1, <1>4 DEF IInv, WritesAreRooted
<1> QED
    BY <1>5, <1>6, <1>7, <1>8, <1>9, <1>10, <1>11, <1>12 DEF IInv

\* A commit stamps every delta of its transaction, on every chain, and no other.
LEMMA CommitStampsAll ==
    ASSUME TypeInv, IInv, NEW t \in active, CommitTxn(t), NEW k \in Keys
    PROVE  /\ \A d \in chain[k] : d.txn = t => d.cts = Uncommitted
           /\ chain'[k] = StampTxn(chain[k], t, clock)
           /\ StampedChain(t, k) = StampTxn(chain[k], t, clock)
<1>1. \A d \in chain[k] : d.txn = t => d.cts = Uncommitted /\ k \in written[t]
    BY DEF IInv, NoOrphanDelta, CommittedAreSettled
<1>2. clock \in Nat /\ chain[k] \in SUBSET Delta
    BY DEF TypeInv, TypeOK
<1>3. ASSUME k \notin written[t] PROVE StampTxn(chain[k], t, clock) = chain[k]
    <2>1. \A d \in chain[k] : Stamped(d, t, clock) = d
        BY <1>1, <1>2, <1>3, StampedFields
    <2> QED
        BY <2>1 DEF StampTxn
<1>4. chain'[k] = StampedChain(t, k)
    BY DEF CommitTxn
<1> QED
    BY <1>1, <1>3, <1>4 DEF StampedChain

\* The deltas of a stamped chain: those of the transaction now carry the
\* commit_ts, the others are the same.
LEMMA CommittedChain ==
    ASSUME TypeInv, IInv, NEW t \in active, CommitTxn(t), NEW k \in Keys
    PROVE  /\ \A e \in chain'[k] : \E d \in chain[k] :
                  /\ e.pos = d.pos /\ e.txn = d.txn /\ e.new = d.new
                  /\ e = Stamped(d, t, clock)
                  /\ IF d.txn = t THEN e.cts = clock ELSE e = d
           /\ \A d \in chain[k] : \E e \in chain'[k] :
                  /\ e.pos = d.pos /\ e.txn = d.txn /\ e.new = d.new
                  /\ IF d.txn = t THEN e.cts = clock ELSE e = d
           /\ \A u \in TxnIds : u # t => OfTxn(chain'[k], u) = OfTxn(chain[k], u)
<1>1. chain'[k] = {Stamped(d, t, clock) : d \in chain[k]}
    BY CommitStampsAll DEF StampTxn
<1>2. \A d \in chain[k] : /\ Stamped(d, t, clock).pos = d.pos
                          /\ Stamped(d, t, clock).txn = d.txn
                          /\ Stamped(d, t, clock).new = d.new
                          /\ d.txn = t => Stamped(d, t, clock).cts = clock
                          /\ d.txn # t => Stamped(d, t, clock) = d
    <2>1. clock \in Nat /\ chain[k] \in SUBSET Delta
        BY DEF TypeInv, TypeOK
    <2>2. \A d \in chain[k] : d.txn = t => d.cts = Uncommitted
        BY CommitStampsAll
    <2> QED
        BY <2>1, <2>2, StampedFields
<1>3. \A e \in chain'[k] : \E d \in chain[k] : e = Stamped(d, t, clock)
    BY <1>1
<1>4. \A d \in chain[k] : Stamped(d, t, clock) \in chain'[k]
    BY <1>1
<1>5. ASSUME NEW u \in TxnIds, u # t PROVE OfTxn(chain'[k], u) = OfTxn(chain[k], u)
    BY <1>2, <1>3, <1>4, <1>5 DEF OfTxn
<1> QED
    BY <1>2, <1>3, <1>4, <1>5

\* commit_txn keeps the invariant.
LEMMA CommitIInv ==
    ASSUME TypeInv, TypeInv', IInv, NEW t \in active, CommitTxn(t)
    PROVE  IInv'
<1>1. /\ active' = active \ {t}
      /\ \A u \in active' : startTs'[u] = startTs[u] /\ written'[u] = written[u] /\ pending'[u] = pending[u]
      /\ clock' = clock + 1 /\ clock \in Nat \ {0}
      /\ exists' = exists \cup NetInserts(t)
      /\ page' = MaterializedAtCommit(t)
      /\ UNCHANGED <<nextTxn, nextNode, nextEdge>>
      /\ t \in TxnIds
    BY DEF CommitTxn, EndTxn, TypeInv, TypeOK, idVars
<1>2. \A k \in Keys : \A e \in chain'[k] : \E d \in chain[k] :
          /\ e.pos = d.pos /\ e.txn = d.txn /\ e.new = d.new
          /\ e = Stamped(d, t, clock)
          /\ IF d.txn = t THEN e.cts = clock ELSE e = d
    BY CommittedChain
<1>3. \A k \in Keys, u \in TxnIds : u # t => OfTxn(chain'[k], u) = OfTxn(chain[k], u)
    BY CommittedChain
<1>4. \A k \in Keys : \A d \in chain[k] : d.cts \in Nat /\ d.txn \in TxnIds /\ d.pos \in Nat
    BY ChainFacts
<1>5. NoOrphanDelta'
    BY <1>1, <1>2 DEF IInv, NoOrphanDelta, Uncommitted
<1>6. CommittedAreSettled'
    BY <1>1, <1>2, <1>4 DEF IInv, CommittedAreSettled, Uncommitted
<1>7. LiveAreBegun'
    <2>1. \A u \in active : startTs[u] \in Nat
        BY DEF TypeInv, TypeOK
    <2> QED
        BY <1>1, <2>1 DEF IInv, LiveAreBegun
<1>8. FreshIds'
    <2>1. \A k \in NetInserts(t) : chain[k] # {}
        BY DEF NetInserts, OfTxn
    <2> QED
        BY <1>1, <1>2, <2>1 DEF IInv, FreshIds
<1>9. PushOrderIsTotal'
    BY <1>2 DEF IInv, PushOrderIsTotal
<1>10. CommitIsAtomic'
    <2>1. \A k \in Keys : \A d \in chain[k] : d.cts # clock
        BY <1>1, <1>4 DEF IInv, CommittedAreSettled, Uncommitted
    <2> QED
        BY <1>2, <2>1 DEF IInv, CommitIsAtomic
<1>11. ExistenceCovers'
    <2> SUFFICES ASSUME NEW k \in Keys, k \notin exists'
                 PROVE  /\ page'[k] = Absent
                        /\ \A e \in chain'[k] :
                               e.cts # Uncommitted /\ e = Newest(OfTxn(chain'[k], e.txn)) => e.new = Absent
        BY DEF ExistenceCovers
    <2>1. k \notin exists /\ k \notin NetInserts(t)
        BY <1>1
    <2>2. ASSUME NEW e \in chain'[k], e.cts # Uncommitted, e = Newest(OfTxn(chain'[k], e.txn))
          PROVE  e.new = Absent
        <3>1. PICK d \in chain[k] : /\ e.pos = d.pos /\ e.txn = d.txn /\ e.new = d.new
                                    /\ IF d.txn = t THEN e.cts = clock ELSE e = d
            BY <1>2
        <3>2. CASE d.txn # t
            <4>1. e = d /\ OfTxn(chain'[k], d.txn) = OfTxn(chain[k], d.txn)
                BY <3>1, <3>2, <1>3, <1>4
            <4> QED
                BY <4>1, <2>1, <2>2 DEF IInv, ExistenceCovers
        <3>3. CASE d.txn = t
            <4> DEFINE own == OfTxn(chain[k], t)
            <4>1. OfTxn(chain'[k], t) \in SUBSET Delta /\ Bounded(OfTxn(chain'[k], t)) /\ e \in OfTxn(chain'[k], t)
                <5>1. OfTxn(chain'[k], t) \in SUBSET chain'[k] /\ e \in OfTxn(chain'[k], t)
                    BY <3>1, <3>3 DEF OfTxn
                <5>2. chain'[k] \in SUBSET Delta /\ Bounded(chain'[k])
                    BY DEF TypeInv, TypeOK, ChainsBounded
                <5> QED
                    BY <5>1, <5>2, BoundedSubset
            <4>2. \A f \in OfTxn(chain'[k], t) : f.pos <= e.pos
                BY <4>1, <2>2, <3>1, <3>3, NewestIsGreatest
            <4>3. \A f \in own : f.pos <= d.pos
                BY <4>2, <3>1, CommittedChain DEF OfTxn
            <4>4. own \in SUBSET Delta /\ TotalOrder(own) /\ d \in own
                BY <3>3, ChainFacts DEF OfTxn, TotalOrder
            <4>5. d = Newest(own)
                BY <4>3, <4>4, NewestUnique
            <4>6. d.cts = Uncommitted /\ k \in written[t]
                BY <3>3 DEF IInv, NoOrphanDelta, CommittedAreSettled
            <4>7. Oldest(own).op = "Insert"
                BY <4>6, <3>3, <2>1 DEF IInv, WritesAreRooted
            <4>8. Newest(own).new = Absent
                BY <4>4, <4>6, <4>7, <2>1 DEF NetInserts
            <4> QED
                BY <4>5, <4>8, <3>1
        <3> QED
            BY <3>2, <3>3
    <2>3. page'[k] = Absent
        <3> DEFINE ds == chain'[k]
                   vis == VisibleDeltas(ds, clock + 1, NoTxn)
        <3>1. page[k] = Absent
            BY <2>1 DEF IInv, ExistenceCovers
        <3>2. page'[k] = Absent \/ page'[k] = ApplyDeltasForRead(Absent, ds, clock + 1, NoTxn)
            BY <1>1, <3>1, CommitStampsAll DEF MaterializedAtCommit
        <3>3. ASSUME vis # {} PROVE Newest(vis).new = Absent
            <4>1. vis \in SUBSET ds
                BY DEF VisibleDeltas
            <4>2. ds \in SUBSET Delta /\ Bounded(ds) /\ TotalOrder(ds)
                BY <1>9 DEF TypeInv, TypeOK, ChainsBounded, PushOrderIsTotal, TotalOrder
            <4> DEFINE e == Newest(vis)
                       own == OfTxn(ds, e.txn)
            <4>3. vis \in SUBSET Delta /\ Bounded(vis)
                BY <4>1, <4>2, BoundedSubset
            <4>4. e \in vis /\ \A f \in vis : f.pos <= e.pos
                BY <3>3, <4>3, NewestIsGreatest
            <4> HIDE DEF e
            <4>5. \A d \in vis : d.cts # Uncommitted
                BY <4>2 DEF VisibleDeltas, DeltaVisibleTo, NoTxn, TxnIds, Delta
            <4>6. \A f \in ds : f.txn = e.txn => f.cts = e.cts
                BY <4>1, <4>4, <1>10 DEF CommitIsAtomic
            <4>7. own \in SUBSET vis /\ e \in own
                BY <4>1, <4>4, <4>5, <4>6 DEF OfTxn, VisibleDeltas, DeltaVisibleTo
            <4>8. own \in SUBSET Delta /\ TotalOrder(own) /\ \A f \in own : f.pos <= e.pos
                BY <4>2, <4>3, <4>4, <4>7 DEF OfTxn, TotalOrder
            <4>9. e = Newest(own)
                BY <4>7, <4>8, NewestUnique
            <4> QED
                BY <4>1, <4>4, <4>5, <4>9, <2>2 DEF e
        <3> QED
            BY <3>2, <3>3 DEF ApplyDeltasForRead
    <2> QED
        BY <2>2, <2>3
<1>12. WritesAreRooted'
    <2> SUFFICES ASSUME NEW k \in Keys, NEW e \in chain'[k], e.cts = Uncommitted, k \notin exists'
                 PROVE  Oldest(OfTxn(chain'[k], e.txn)).op = "Insert" /\ k \in pending'[e.txn]
        BY DEF WritesAreRooted
    <2>1. e \in chain[k] /\ e.txn # t /\ e.txn \in TxnIds /\ e.txn \in active /\ k \notin exists
        BY <1>1, <1>2, <1>4 DEF IInv, NoOrphanDelta, Uncommitted
    <2> QED
        BY <2>1, <1>1, <1>3 DEF IInv, WritesAreRooted
<1> QED
    BY <1>5, <1>6, <1>7, <1>8, <1>9, <1>10, <1>11, <1>12 DEF IInv

\* What a push does to the chains: the new delta is the newest of its chain.
LEMMA PushedChain ==
    ASSUME TypeInv, NEW t \in active, NEW k \in Keys, NEW op \in Ops, NEW prior \in Versions,
           NEW new \in Versions, PushStep(t, k, op, prior, new)
    PROVE  \E x \in Delta :
               /\ x.txn = t /\ x.op = op /\ x.new = new /\ x.cts = Uncommitted
               /\ x.prior = prior
               /\ \A d \in chain[k] : d.pos < x.pos
               /\ chain'[k] = chain[k] \cup {x}
               /\ \A l \in Keys : l # k => chain'[l] = chain[l]
<1> DEFINE pos == IF chain[k] = {} THEN 1 ELSE Newest(chain[k]).pos + 1
           x == [pos |-> pos, txn |-> t, op |-> op, prior |-> prior,
                 new |-> new, cts |-> Uncommitted]
<1>1. pos \in Nat /\ \A d \in chain[k] : d.pos < pos
    BY PushPosition
<1>2. chain' = [chain EXCEPT ![k] = @ \cup {x}]
    BY DEF PushStep, PushTxnDelta
<1> HIDE DEF pos
<1>3. t \in TxnIds /\ chain \in [Keys -> SUBSET Delta]
    BY DEF TypeInv, TypeOK
<1>4. x \in Delta /\ x.pos = pos /\ x.txn = t /\ x.op = op /\ x.new = new /\ x.cts = Uncommitted /\ x.prior = prior
    BY <1>1, <1>3 DEF Delta, Ops, Uncommitted
<1> HIDE DEF x
<1>5. chain'[k] = chain[k] \cup {x} /\ \A l \in Keys : l # k => chain'[l] = chain[l]
    BY <1>2, <1>3
<1> QED
    BY <1>1, <1>4, <1>5

\* A write keeps the invariant: its transaction is live, the record is its own
\* or exists, and the new delta is the newest of its chain.
LEMMA PushIInv ==
    ASSUME TypeInv, TypeInv', IInv, NEW t \in active, NEW k \in Keys, NEW op \in Ops,
           NEW prior \in Versions, NEW new \in Versions, PushStep(t, k, op, prior, new)
    PROVE  IInv'
<1>1. PICK x \in Delta :
          /\ x.txn = t /\ x.op = op /\ x.new = new /\ x.cts = Uncommitted
          /\ \A d \in chain[k] : d.pos < x.pos
          /\ chain'[k] = chain[k] \cup {x}
          /\ \A l \in Keys : l # k => chain'[l] = chain[l]
    BY PushedChain
<1>2. /\ \A u \in TxnIds : written[u] \subseteq written'[u] /\ pending[u] \subseteq pending'[u]
      /\ k \in written'[t]
      /\ op = "Insert" => k \in pending'[t]
      /\ UNCHANGED <<active, startTs, clock, nextTxn, page, exists>>
      /\ IdsGrow
      /\ active \subseteq TxnIds
    BY DEF PushStep, PushTxnDelta, TypeInv, TypeOK
<1>3. \A l \in Keys : chain[l] \subseteq chain'[l] /\ \A d \in chain'[l] : d \in chain[l] \/ (l = k /\ d = x)
    BY <1>1
<1>4. \A l \in Keys : \A d \in chain[l] : d.txn = t => d.cts = Uncommitted
    BY DEF IInv, CommittedAreSettled
<1>5. \A l \in Keys : \A d \in chain[l] : d.pos \in Nat /\ d.txn \in TxnIds
    BY ChainFacts
<1>5x. x.pos \in Nat
    BY DEF Delta
<1>6. op = "Insert" => Fresh(k) /\ ~Fresh(k)'
    <2>1. nextNode \in Nat /\ nextEdge \in Nat /\ Nodes \subseteq Nat /\ Edges \subseteq Nat
        BY BoundsAssumption DEF TypeInv, TypeOK, Nodes, Edges
    <2>2. Nodes \cap Edges = {}
        BY BoundsAssumption DEF Nodes, Edges
    <2>3. CASE op = "Insert" /\ k \in Nodes /\ k >= nextNode /\ nextNode' = k + 1
        <3>1. ~(k >= nextNode')
            BY <2>1, <2>3
        <3> QED
            BY <3>1, <2>2, <2>3 DEF Fresh
    <2>4. CASE op = "Insert" /\ k \in Edges /\ k >= nextEdge /\ nextEdge' = k + 1
        <3>1. ~(k >= nextEdge')
            BY <2>1, <2>4
        <3> QED
            BY <3>1, <2>2, <2>4 DEF Fresh
    <2> QED
        BY <2>3, <2>4 DEF PushStep
<1>7. op # "Insert" => k \in exists \/ OfTxn(chain[k], t) # {}
    BY VisibleExists DEF PushStep
<1>8. NoOrphanDelta'
    BY <1>1, <1>2, <1>3, <1>5 DEF IInv, NoOrphanDelta
<1>9. CommittedAreSettled'
    <2>1. x.txn < nextTxn
        BY <1>1 DEF IInv, LiveAreBegun
    <2> QED
        BY <1>1, <1>2, <1>3, <2>1 DEF IInv, CommittedAreSettled
<1>10. LiveAreBegun'
    BY <1>2 DEF IInv, LiveAreBegun
<1>11. FreshIds'
    <2>1. \A l \in Keys : Fresh(l)' => Fresh(l)
        BY <1>2, FreshShrinks
    <2>2. Fresh(k) => chain[k] = {} /\ k \notin exists
        BY DEF IInv, FreshIds, Fresh
    <2>3. ~Fresh(k)'
        BY <1>6, <1>7, <2>1, <2>2 DEF OfTxn
    <2> QED
        BY <1>1, <1>2, <2>1, <2>3 DEF IInv, FreshIds, Fresh
<1>12. PushOrderIsTotal'
    <2> SUFFICES ASSUME NEW l \in Keys, NEW d \in chain'[l], NEW e \in chain'[l], d.pos = e.pos
                 PROVE  d = e
        BY DEF PushOrderIsTotal
    <2>1. CASE d \in chain[l] /\ e \in chain[l]
        BY <2>1 DEF IInv, PushOrderIsTotal
    <2>2. CASE ~(d \in chain[l] /\ e \in chain[l])
        BY <1>1, <1>3, <1>5, <1>5x, <2>2
    <2> QED
        BY <2>1, <2>2
<1>13. CommitIsAtomic'
    BY <1>1, <1>3, <1>4 DEF IInv, CommitIsAtomic
<1>14. ExistenceCovers'
    <2> SUFFICES ASSUME NEW l \in Keys, l \notin exists
                 PROVE  /\ page[l] = Absent
                        /\ \A d \in chain'[l] :
                               d.cts # Uncommitted /\ d = Newest(OfTxn(chain'[l], d.txn)) => d.new = Absent
        BY <1>2 DEF ExistenceCovers
    <2>1. ASSUME NEW d \in chain'[l], d.cts # Uncommitted
          PROVE  d \in chain[l] /\ OfTxn(chain'[l], d.txn) = OfTxn(chain[l], d.txn)
        <3>1. d \in chain[l]
            BY <1>1, <1>3, <2>1
        <3>2. d.txn # t
            BY <3>1, <1>4, <2>1
        <3> QED
            BY <3>1, <3>2, <1>1, <1>3 DEF OfTxn
    <2> QED
        BY <2>1 DEF IInv, ExistenceCovers
<1>15. WritesAreRooted'
    <2> SUFFICES ASSUME NEW l \in Keys, NEW d \in chain'[l], d.cts = Uncommitted, l \notin exists
                 PROVE  Oldest(OfTxn(chain'[l], d.txn)).op = "Insert" /\ l \in pending'[d.txn]
        BY <1>2 DEF WritesAreRooted
    <2> DEFINE own == OfTxn(chain[l], d.txn)
    <2>1. CASE d \in chain[l]
        <3>1. Oldest(own).op = "Insert" /\ l \in pending[d.txn]
            BY <2>1 DEF IInv, WritesAreRooted
        <3>2. d.txn \in TxnIds /\ l \in pending'[d.txn]
            BY <2>1, <3>1, <1>2, <1>5
        <3>3. Oldest(OfTxn(chain'[l], d.txn)) = Oldest(own)
            <4>1. CASE OfTxn(chain'[l], d.txn) = own
                BY <4>1
            <4>2. CASE OfTxn(chain'[l], d.txn) # own
                <5>1. l = k /\ OfTxn(chain'[l], d.txn) = own \cup {x}
                    BY <4>2, <1>1, <1>3 DEF OfTxn
                <5>2. own \in SUBSET chain[k] /\ own # {} /\ own \in SUBSET Delta
                    BY <2>1, <5>1, ChainFacts DEF OfTxn
                <5>3. Oldest(own) \in own /\ \A e \in own : Oldest(own).pos <= e.pos
                    BY <5>2, OldestIsLeast
                <5>4. Oldest(own).pos <= x.pos
                    BY <5>2, <5>3, <1>1, <1>5, <1>5x
                <5>5. own \cup {x} \in SUBSET Delta /\ TotalOrder(own \cup {x})
                    BY <5>1, <5>2, <1>1, <1>12 DEF TotalOrder, PushOrderIsTotal
                <5> QED
                    BY <5>1, <5>3, <5>4, <5>5, OldestUnique
            <4> QED
                BY <4>1, <4>2
        <3> QED
            BY <3>1, <3>2, <3>3
    <2>2. CASE d \notin chain[l]
        <3>1. l = k /\ d = x /\ d.txn = t
            BY <2>2, <1>1, <1>3
        <3>2. CASE own # {}
            <4>1. PICK e \in own : TRUE
                BY <3>2
            <4>2. e \in chain[l] /\ e.txn = t /\ e.cts = Uncommitted
                BY <4>1, <3>1, <1>4 DEF OfTxn
            <4>3. Oldest(own).op = "Insert" /\ l \in pending[t]
                BY <4>2, <3>1 DEF IInv, WritesAreRooted
            <4>4. own \in SUBSET chain[k] /\ own \in SUBSET Delta /\ OfTxn(chain'[l], t) = own \cup {x}
                BY <3>1, <1>1, ChainFacts DEF OfTxn
            <4>5. Oldest(own) \in own /\ \A f \in own : Oldest(own).pos <= f.pos
                BY <4>4, <3>2, OldestIsLeast
            <4>6. Oldest(own).pos <= x.pos
                BY <4>4, <4>5, <1>1, <1>5, <1>5x
            <4>7. own \cup {x} \in SUBSET Delta /\ TotalOrder(own \cup {x})
                BY <4>4, <1>1, <1>12 DEF TotalOrder, PushOrderIsTotal
            <4>8. Oldest(own \cup {x}) = Oldest(own)
                BY <4>5, <4>6, <4>7, OldestUnique
            <4> QED
                BY <4>3, <4>4, <4>8, <3>1, <1>2
        <3>3. CASE own = {}
            <4>1. op = "Insert"
                BY <1>7, <3>1, <3>3
            <4>2. OfTxn(chain'[l], t) = {x}
                BY <3>1, <3>3, <1>1 DEF OfTxn
            <4>3. Oldest({x}) = x
                BY <1>5x DEF Oldest
            <4> QED
                BY <4>1, <4>2, <4>3, <3>1, <1>1, <1>2
        <3> QED
            BY <3>2, <3>3
    <2> QED
        BY <2>1, <2>2
<1> QED
    BY <1>8, <1>9, <1>10, <1>11, <1>12, <1>13, <1>14, <1>15 DEF IInv

\* vacuum_once keeps the invariant: a drained chain has no uncommitted delta,
\* and a version it leaves on the page belongs to an existing record.
LEMMA VacuumIInv ==
    ASSUME TypeInv, IInv, VacuumOnce
    PROVE  IInv'
<1>1. /\ \A k \in Keys : /\ page'[k] = IF k \in Drainable THEN Newest(chain[k]).new ELSE page[k]
                         /\ chain'[k] = IF k \in Drainable THEN {} ELSE chain[k]
      /\ exists' = exists \ VacuumedDeletes
      /\ VacuumedDeletes \subseteq Drainable
      /\ Drainable \subseteq Keys
      /\ UNCHANGED <<clock, nextTxn, active, startTs, used, written, pending, nextNode, nextEdge>>
    BY DEF VacuumOnce, registryVars, idVars, VacuumedDeletes, Drainable
<1>2. \A k \in Drainable : chain[k] # {} /\ \A d \in chain[k] : d.cts # Uncommitted
    BY DEF Drainable, AllSafeToVacuum, SafeToVacuum
<1>3. NoOrphanDelta' /\ PushOrderIsTotal'
    BY <1>1 DEF IInv, NoOrphanDelta, PushOrderIsTotal
<1>4. CommittedAreSettled'
    BY <1>1 DEF IInv, CommittedAreSettled
<1>5. LiveAreBegun'
    BY <1>1 DEF IInv, LiveAreBegun
<1>6. FreshIds'
    BY <1>1 DEF IInv, FreshIds
<1>7. CommitIsAtomic'
    <2>1. \A k \in Keys : chain'[k] \subseteq chain[k]
        BY <1>1
    <2> QED
        BY <2>1 DEF IInv, CommitIsAtomic
<1>8. ExistenceCovers'
    <2> SUFFICES ASSUME NEW k \in Keys, k \notin exists'
                 PROVE  /\ page'[k] = Absent
                        /\ \A d \in chain'[k] :
                               d.cts # Uncommitted /\ d = Newest(OfTxn(chain'[k], d.txn)) => d.new = Absent
        BY DEF ExistenceCovers
    <2>1. CASE k \in Drainable
        <3>1. chain'[k] = {} /\ page'[k] = Newest(chain[k]).new
            BY <1>1, <2>1
        <3>2. ASSUME Newest(chain[k]).new # Absent PROVE FALSE
            <4>1. k \notin VacuumedDeletes
                BY <3>2 DEF VacuumedDeletes
            <4>2. k \in exists
                BY <1>2, <2>1, <3>2, CommittedVersionExists
            <4> QED
                BY <4>1, <4>2, <1>1
        <3> QED
            BY <3>1, <3>2
    <2>2. CASE k \notin Drainable
        <3>1. k \notin exists /\ chain'[k] = chain[k] /\ page'[k] = page[k]
            BY <1>1, <2>2
        <3> QED
            BY <3>1 DEF IInv, ExistenceCovers
    <2> QED
        BY <2>1, <2>2
<1>9. WritesAreRooted'
    <2> SUFFICES ASSUME NEW k \in Keys, NEW d \in chain'[k], d.cts = Uncommitted, k \notin exists'
                 PROVE  Oldest(OfTxn(chain'[k], d.txn)).op = "Insert" /\ k \in pending'[d.txn]
        BY DEF WritesAreRooted
    <2>1. k \notin Drainable /\ chain'[k] = chain[k] /\ k \notin exists
        BY <1>1, <1>2
    <2> QED
        BY <2>1, <1>1 DEF IInv, WritesAreRooted
<1> QED
    BY <1>3, <1>4, <1>5, <1>6, <1>7, <1>8, <1>9 DEF IInv

\* Every step keeps the invariant.
LEMMA IInvStep == TypeInv /\ TypeInv' /\ IInv /\ [Next]_vars => IInv'
<1> SUFFICES ASSUME TypeInv, TypeInv', IInv, [Next]_vars PROVE IInv'
    OBVIOUS
<1>0. StepShape
    BY NextShape
<1>1. CASE BeginTxn
    BY <1>1, BeginIInv
<1>2. ASSUME NEW t \in active, CommitTxn(t) \/ CommitTxnFails(t) \/ UndoStep(t) PROVE IInv'
    BY <1>2, CommitIInv, CommitFailsIInv, UndoIInv
<1>3. ASSUME NEW t \in active, NEW k \in Keys, NEW op \in Ops, NEW prior \in Versions,
             NEW new \in Versions, PushStep(t, k, op, prior, new)
      PROVE  IInv'
    BY <1>3, PushIInv
<1>4. CASE VacuumOnce
    BY <1>4, VacuumIInv
<1>5. CASE UNCHANGED vars
    BY <1>5 DEF vars, registryVars, idVars, IInv, NoOrphanDelta, CommittedAreSettled, LiveAreBegun,
                FreshIds, PushOrderIsTotal, CommitIsAtomic, ExistenceCovers, WritesAreRooted
<1> QED
    BY <1>0, <1>1, <1>2, <1>3, <1>4, <1>5 DEF StepShape

\* The invariant holds of every reachable state.
THEOREM EngineInvariant == Spec => [](TypeInv /\ IInv)
<1> QED
    BY InitTypeInv, TypeStep, InitIInv, IInvStep, PTL DEF Spec

\* No delta outlives its transaction unresolved, however begins, writes, failed
\* commits, memory-cap aborts, rollbacks and vacuums interleave.
THEOREM NoOrphans == Spec => []NoOrphanDelta
<1>1. IInv => NoOrphanDelta
    BY DEF IInv
<1> QED
    BY <1>1, EngineInvariant, PTL

\* commit_txn publishes a transaction whole, under a timestamp of its own.
THEOREM AtomicCommit == Spec => []CommitIsAtomic
<1>1. IInv => CommitIsAtomic
    BY DEF IInv
<1> QED
    BY <1>1, EngineInvariant, PTL

\* No version a reader may resolve is cut off from it by the existence set.
THEOREM ExistenceIsCovered == Spec => []ExistenceCovers
<1>1. IInv => ExistenceCovers
    BY DEF IInv
<1> QED
    BY <1>1, EngineInvariant, PTL

-----------------------------------------------------------------------------
(* What readers see.                                                       *)

\* node_ids_in_txn lists exactly the nodes node_in_txn can read.
THEOREM EnumerationIsComplete == Spec => []EnumerationComplete
<1>1. TypeInv /\ IInv => EnumerationComplete
    <2> SUFFICES ASSUME TypeInv, IInv, NEW t \in active, NEW n \in Nodes, ReadInTxn(t, n) # Absent
                 PROVE  n \in exists \cup pending[t]
        BY DEF EnumerationComplete, NodeIdsInTxn
    <2>1. n \in Keys
        BY DEF Keys
    <2>2. n \in exists \/ OfTxn(chain[n], t) # {}
        BY <2>1, VisibleExists
    <2>3. ASSUME NEW d \in chain[n], d.txn = t PROVE n \in exists \cup pending[t]
        BY <2>1, <2>3 DEF IInv, CommittedAreSettled, WritesAreRooted
    <2> QED
        BY <2>2, <2>3 DEF OfTxn
<1> QED
    BY <1>1, EngineInvariant, PTL

\* A snapshot that sees the same deltas of a record, and the same base where it
\* sees none, reads the same version.
LEMMA ReadFrame ==
    ASSUME NEW t, NEW k, startTs'[t] = startTs[t],
           VisibleDeltas(chain'[k], startTs[t], t) = VisibleDeltas(chain[k], startTs[t], t),
           VisibleDeltas(chain[k], startTs[t], t) = {} => CommittedBase(k)' = CommittedBase(k)
    PROVE  ReadInTxn(t, k)' = ReadInTxn(t, k)
<1>1. ReadInTxn(t, k) = ApplyDeltasForRead(CommittedBase(k), chain[k], startTs[t], t)
    BY DEF ReadInTxn, ResolveVisible
<1>2. ReadInTxn(t, k)' = ApplyDeltasForRead(CommittedBase(k)', chain'[k], startTs[t], t)
    BY DEF ReadInTxn, ResolveVisible
<1> QED
    BY <1>1, <1>2 DEF ApplyDeltasForRead

\* The version a live transaction reads does not change under it.
LEMMA RepeatableStep ==
    ASSUME TypeInv, IInv, [Next]_vars, NEW t \in active \cap active', NEW k \in Keys,
           ReadInTxn(t, k) # Absent, OfTxn(chain'[k], t) = OfTxn(chain[k], t)
    PROVE  ReadInTxn(t, k)' = ReadInTxn(t, k)
<1> DEFINE vis == VisibleDeltas(chain[k], startTs[t], t)
<1>0. StepShape
    BY NextShape
<1>a. t \in TxnIds /\ startTs[t] \in Nat /\ startTs[t] < clock /\ clock \in Nat /\ t < nextTxn
    BY DEF TypeInv, TypeOK, IInv, LiveAreBegun
<1>b. \A d \in chain[k] : d.txn \in TxnIds /\ d.cts \in Nat
    BY ChainFacts
<1>c. vis = {} => k \in exists /\ page[k] # Absent
    BY DEF ReadInTxn, ResolveVisible, ApplyDeltasForRead, CommittedBase
<1>1. CASE BeginTxn
    <2>1. startTs'[t] = startTs[t] /\ UNCHANGED <<chain, page, exists>>
        BY <1>1, <1>a DEF BeginTxn, TypeInv, TypeOK
    <2> QED
        BY <2>1, ReadFrame DEF CommittedBase
<1>2. ASSUME NEW u \in active, CommitTxn(u) PROVE ReadInTxn(t, k)' = ReadInTxn(t, k)
    <2>1. u # t /\ startTs'[t] = startTs[t] /\ exists \subseteq exists' /\ page' = MaterializedAtCommit(u)
        BY <1>2, <1>a DEF CommitTxn, EndTxn, TypeInv, TypeOK
    <2>2. VisibleDeltas(chain'[k], startTs[t], t) = vis
        <3>1. ASSUME NEW e \in chain'[k], DeltaVisibleTo(e, startTs[t], t) PROVE e \in chain[k]
            <4>1. PICK d \in chain[k] : e.txn = d.txn /\ IF d.txn = u THEN e.cts = clock ELSE e = d
                BY <1>2, CommittedChain
            <4>2. d.txn # u
                BY <3>1, <4>1, <1>a, <2>1 DEF DeltaVisibleTo
            <4> QED
                BY <4>1, <4>2
        <3>2. ASSUME NEW d \in chain[k], DeltaVisibleTo(d, startTs[t], t) PROVE d \in chain'[k]
            <4>1. d.txn # u
                BY <3>2, <2>1 DEF DeltaVisibleTo, IInv, CommittedAreSettled
            <4> QED
                BY <1>2, <4>1, CommittedChain
        <3> QED
            BY <3>1, <3>2 DEF VisibleDeltas
    <2>3. ASSUME vis = {} PROVE CommittedBase(k)' = CommittedBase(k)
        <3>1. k \in exists /\ page[k] # Absent
            BY <2>3, <1>c
        <3>2. page'[k] = page[k] /\ k \in exists'
            BY <2>1, <3>1 DEF MaterializedAtCommit
        <3> QED
            BY <3>1, <3>2 DEF CommittedBase
    <2> HIDE DEF vis
    <2> QED
        BY <2>1, <2>2, <2>3, ReadFrame DEF vis
<1>3. ASSUME NEW u \in active, CommitTxnFails(u) PROVE ReadInTxn(t, k)' = ReadInTxn(t, k)
    <2>1. UNCHANGED <<startTs, chain, page, exists>>
        BY <1>3 DEF CommitTxnFails, registryVars
    <2> QED
        BY <2>1, ReadFrame DEF CommittedBase
<1>4. ASSUME NEW u \in active, UndoStep(u) PROVE ReadInTxn(t, k)' = ReadInTxn(t, k)
    <2>1. u # t /\ startTs'[t] = startTs[t] /\ UNCHANGED <<page, exists>>
        BY <1>4, <1>a DEF UndoStep, Undo, EndTxn, TypeInv, TypeOK
    <2>2. chain'[k] \subseteq chain[k] /\ \A d \in chain[k] : d.txn # u => d \in chain'[k]
        BY <1>4 DEF UndoStep, Undo, RemoveTxn
    <2>3. \A d \in chain[k] : d.txn = u => ~DeltaVisibleTo(d, startTs[t], t)
        BY <2>1 DEF DeltaVisibleTo, IInv, CommittedAreSettled
    <2>4. VisibleDeltas(chain'[k], startTs[t], t) = vis
        BY <2>2, <2>3 DEF VisibleDeltas
    <2> QED
        BY <2>1, <2>4, ReadFrame DEF CommittedBase
<1>5. ASSUME NEW u \in active, NEW l \in Keys, NEW op \in Ops, NEW prior \in Versions,
             NEW new \in Versions, PushStep(u, l, op, prior, new)
      PROVE  ReadInTxn(t, k)' = ReadInTxn(t, k)
    <2>1. UNCHANGED <<startTs, page, exists>>
        BY <1>5 DEF PushStep, PushTxnDelta
    <2>2. PICK x \in Delta :
              /\ x.txn = u /\ x.cts = Uncommitted
              /\ \A d \in chain[l] : d.pos < x.pos
              /\ chain'[l] = chain[l] \cup {x}
              /\ \A m \in Keys : m # l => chain'[m] = chain[m]
        BY <1>5, PushedChain
    <2>3. CASE l # k
        BY <2>1, <2>2, <2>3, ReadFrame DEF CommittedBase
    <2>4. CASE l = k
        <3>1. x \notin chain[k]
            BY <2>2, <2>4 DEF Delta
        <3>2. u # t
            BY <2>2, <2>4, <3>1 DEF OfTxn
        <3>3. VisibleDeltas(chain'[k], startTs[t], t) = vis
            BY <2>2, <2>4, <3>2 DEF VisibleDeltas, DeltaVisibleTo
        <3> QED
            BY <2>1, <3>3, ReadFrame DEF CommittedBase
    <2> QED
        BY <2>3, <2>4
<1>6. CASE VacuumOnce
    <2>1. /\ UNCHANGED <<active, startTs>>
          /\ page'[k] = IF k \in Drainable THEN Newest(chain[k]).new ELSE page[k]
          /\ chain'[k] = IF k \in Drainable THEN {} ELSE chain[k]
          /\ exists' = exists \ VacuumedDeletes
          /\ VacuumedDeletes \subseteq Drainable
        BY <1>6 DEF VacuumOnce, registryVars, VacuumedDeletes
    <2>2. CASE k \notin Drainable
        <3>1. chain'[k] = chain[k] /\ CommittedBase(k)' = CommittedBase(k)
            BY <2>1, <2>2 DEF CommittedBase
        <3> QED
            BY <2>1, <3>1, ReadFrame
    <2>3. CASE k \in Drainable
        <3>1. chain[k] # {} /\ \A d \in chain[k] : d.cts # Uncommitted /\ d.cts < startTs[t]
            BY <2>3 DEF Drainable, AllSafeToVacuum, SafeToVacuum, BelowWatermark
        <3>2. VisibleDeltas(chain[k], startTs[t], t) = chain[k]
            BY <3>1 DEF VisibleDeltas, DeltaVisibleTo
        <3>3. ReadInTxn(t, k) = Newest(chain[k]).new
            BY <3>1, <3>2 DEF ReadInTxn, ResolveVisible, ApplyDeltasForRead
        <3>4. k \in exists'
            <4>1. k \in exists
                BY <3>1, <3>3, CommittedVersionExists
            <4>2. k \notin VacuumedDeletes
                BY <3>3 DEF VacuumedDeletes
            <4> QED
                BY <2>1, <4>1, <4>2
        <3>5. ReadInTxn(t, k)' = CommittedBase(k)'
            BY <2>1, <2>3 DEF ReadInTxn, ResolveVisible, ApplyDeltasForRead, VisibleDeltas
        <3> QED
            BY <2>1, <2>3, <3>3, <3>4, <3>5 DEF CommittedBase
    <2> QED
        BY <2>2, <2>3
<1>7. CASE UNCHANGED vars
    <2>1. UNCHANGED <<startTs, chain, page, exists>>
        BY <1>7 DEF vars, registryVars
    <2> QED
        BY <2>1, ReadFrame DEF CommittedBase
<1> QED
    BY <1>0, <1>1, <1>2, <1>3, <1>4, <1>5, <1>6, <1>7 DEF StepShape

\* Snapshot reads are repeatable: no commit, rollback, abort or vacuum of others
\* changes or hides a version a live transaction has read.
THEOREM SnapshotReadsAreRepeatable == Spec => ReadsAreRepeatable
<1>1. TypeInv /\ IInv /\ [Next]_vars =>
          [\A t \in active \cap active', k \in Keys :
              ReadInTxn(t, k) # Absent /\ OfTxn(chain[k], t)' = OfTxn(chain[k], t)
                  => ReadInTxn(t, k)' = ReadInTxn(t, k)]_vars
    BY RepeatableStep
<1> QED
    BY <1>1, EngineInvariant, PTL DEF Spec, ReadsAreRepeatable

\* The committed deltas of a record.
Committed(k) == {d \in chain[k] : d.cts # Uncommitted}

\* An auto-commit reader sees exactly the committed deltas, over the page.
AutoCommitView ==
    \A k \in Keys :
        /\ VisibleDeltas(chain[k], clock, NoTxn) = Committed(k)
        /\ ReadAutoCommit(k) = IF Committed(k) = {} THEN CommittedBase(k) ELSE Newest(Committed(k)).new

\* That is so in every state of the invariant.
LEMMA AutoCommitSees == TypeInv /\ IInv => AutoCommitView
<1> SUFFICES ASSUME TypeInv, IInv, NEW k \in Keys
             PROVE  /\ VisibleDeltas(chain[k], clock, NoTxn) = Committed(k)
                    /\ ReadAutoCommit(k) = IF Committed(k) = {} THEN CommittedBase(k) ELSE Newest(Committed(k)).new
    BY DEF AutoCommitView
<1>1. \A d \in chain[k] : d.txn # NoTxn /\ (d.cts # Uncommitted => d.cts < clock)
    <2>1. \A d \in chain[k] : d.txn \in TxnIds
        BY ChainFacts
    <2> QED
        BY <2>1 DEF IInv, CommittedAreSettled, TxnIds, NoTxn
<1>2. VisibleDeltas(chain[k], clock, NoTxn) = Committed(k)
    BY <1>1 DEF VisibleDeltas, DeltaVisibleTo, Committed
<1> QED
    BY <1>2 DEF ReadAutoCommit, ResolveVisible, ApplyDeltasForRead

\* The same of the state after a step.
LEMMA AutoCommitSeesNext == TypeInv' /\ IInv' => AutoCommitView'
BY AutoCommitSees, PTL

\* A commit leaves a record its transaction did not write as it was, even where
\* it materialises the record's page.
LEMMA CommitLeavesOthers ==
    ASSUME TypeInv, TypeInv', IInv, IInv', NEW t \in active, CommitTxn(t), NEW k \in Keys,
           OfTxn(chain[k], t) = {}
    PROVE  ReadAutoCommit(k)' = ReadAutoCommit(k)
<1>1. chain'[k] = chain[k]
    <2>1. \A d \in chain[k] : d.txn # t
        BY DEF OfTxn
    <2>2. \A e \in chain'[k] : e \in chain[k]
        BY <2>1, CommittedChain
    <2>3. \A d \in chain[k] : d \in chain'[k]
        BY <2>1, CommittedChain
    <2> QED
        BY <2>2, <2>3, Zenon
<1>2. k \in exists' <=> k \in exists
    BY DEF CommitTxn, NetInserts
<1>3. Committed(k)' = Committed(k)
    BY <1>1 DEF Committed
<1>4. ASSUME Committed(k) = {} PROVE page'[k] = page[k]
    <2> DEFINE ds == chain'[k]
    <2>1. VisibleDeltas(ds, clock', NoTxn) = {}
        BY <1>3, <1>4, AutoCommitSeesNext DEF AutoCommitView
    <2>2. clock' = clock + 1 /\ StampedChain(t, k) = ds /\ page' = MaterializedAtCommit(t)
        BY CommitStampsAll DEF CommitTxn
    <2>3. ApplyDeltasForRead(Absent, StampedChain(t, k), clock + 1, NoTxn) = Absent
        BY <2>1, <2>2 DEF ApplyDeltasForRead
    <2> QED
        BY <2>2, <2>3 DEF MaterializedAtCommit
<1>5. Committed(k) = {} => CommittedBase(k)' = CommittedBase(k)
    BY <1>2, <1>4 DEF CommittedBase
<1>6. ReadAutoCommit(k) = IF Committed(k) = {} THEN CommittedBase(k) ELSE Newest(Committed(k)).new
    BY AutoCommitSees DEF AutoCommitView
<1>7. ReadAutoCommit(k)' = IF Committed(k)' = {} THEN CommittedBase(k)' ELSE Newest(Committed(k)').new
    BY AutoCommitSeesNext DEF AutoCommitView
<1> QED
    BY <1>3, <1>5, <1>6, <1>7

\* A commit that changes what is read of a record changes it to the version its
\* transaction saw.
LEMMA CommitPublishesOwn ==
    ASSUME TypeInv, TypeInv', IInv, IInv', NEW t \in active, CommitTxn(t), NEW k \in Keys,
           OfTxn(chain[k], t) # {}, ReadAutoCommit(k)' # ReadAutoCommit(k)
    PROVE  k \in written[t] /\ ReadAutoCommit(k)' = ReadInTxn(t, k)
<1> DEFINE own == OfTxn(chain[k], t)
           ds == chain'[k]
           cs == Committed(k)'
           e == Newest(cs)
           vis == VisibleDeltas(chain[k], startTs[t], t)
<1>1. k \in written[t] /\ \A d \in own : d.cts = Uncommitted
    BY DEF OfTxn, IInv, NoOrphanDelta, CommittedAreSettled
<1>2. /\ \A f \in ds : \E d \in chain[k] :
             f.pos = d.pos /\ f.txn = d.txn /\ f.new = d.new /\ IF d.txn = t THEN f.cts = clock ELSE f = d
      /\ \A d \in chain[k] : \E f \in ds :
             f.pos = d.pos /\ f.txn = d.txn /\ f.new = d.new /\ IF d.txn = t THEN f.cts = clock ELSE f = d
    BY CommittedChain
<1>3. clock # Uncommitted
    BY DEF TypeInv, TypeOK, Uncommitted
<1>4. cs \in SUBSET ds /\ cs \in SUBSET Delta /\ Bounded(cs) /\ cs # {}
    <2>1. cs \in SUBSET ds
        BY DEF Committed
    <2>2. ds \in SUBSET Delta /\ Bounded(ds)
        BY DEF TypeInv, TypeOK, ChainsBounded
    <2>3. PICK d \in chain[k] : d.txn = t
        BY DEF OfTxn
    <2>4. cs # {}
        BY <2>3, <1>2, <1>3 DEF Committed
    <2> QED
        BY <2>1, <2>2, <2>4, BoundedSubset
<1>5. e \in cs /\ \A f \in cs : f.pos <= e.pos
    BY <1>4, NewestIsGreatest
<1>6. ReadAutoCommit(k)' = e.new
    BY <1>4, AutoCommitSeesNext DEF AutoCommitView
<1> HIDE DEF e
<1>7. PICK d \in chain[k] :
          e.pos = d.pos /\ e.txn = d.txn /\ e.new = d.new /\ IF d.txn = t THEN e.cts = clock ELSE e = d
    BY <1>2, <1>4, <1>5
<1>8. \A f \in Committed(k) : f \in cs /\ f.pos <= e.pos
    <2>1. \A f \in Committed(k) : f.txn # t
        BY <1>1 DEF Committed, OfTxn
    <2> QED
        BY <2>1, <1>2, <1>5 DEF Committed
<1>9. chain[k] \in SUBSET Delta /\ TotalOrder(chain[k])
    BY ChainFacts
<1>10. CASE d.txn # t
    <2>1. e = d /\ d \in Committed(k)
        BY <1>5, <1>7, <1>10 DEF Committed
    <2>2. Committed(k) \in SUBSET Delta /\ TotalOrder(Committed(k))
        BY <1>9 DEF Committed, TotalOrder
    <2>3. e = Newest(Committed(k))
        BY <2>1, <2>2, <1>8, NewestUnique
    <2>4. ReadAutoCommit(k) = e.new
        BY <2>1, <2>3, AutoCommitSees DEF AutoCommitView
    <2> QED
        BY <2>4, <1>6
<1>11. CASE d.txn = t
    <2>1. d \in vis
        BY <1>11 DEF VisibleDeltas, DeltaVisibleTo
    <2>2. \A f \in vis : f.pos <= d.pos
        <3> SUFFICES ASSUME NEW f \in vis PROVE f.pos <= d.pos
            OBVIOUS
        <3>1. CASE f.txn = t
            <4>1. f \in chain[k]
                BY DEF VisibleDeltas
            <4>2. PICK g \in ds : g.pos = f.pos /\ g.cts = clock
                BY <4>1, <3>1, <1>2
            <4>3. g \in cs
                BY <4>2, <1>3 DEF Committed
            <4> QED
                BY <4>2, <4>3, <1>5, <1>7
        <3>2. CASE f.txn # t
            BY <3>2, <1>7, <1>8 DEF VisibleDeltas, DeltaVisibleTo, Committed
        <3> QED
            BY <3>1, <3>2
    <2>3. vis \in SUBSET Delta /\ TotalOrder(vis)
        BY <1>9 DEF VisibleDeltas, TotalOrder
    <2>4. d = Newest(vis)
        BY <2>1, <2>2, <2>3, NewestUnique
    <2>5. ReadInTxn(t, k) = d.new
        BY <2>1, <2>4 DEF ReadInTxn, ResolveVisible, ApplyDeltasForRead
    <2> QED
        BY <2>5, <1>1, <1>6, <1>7
<1> QED
    BY <1>10, <1>11

\* What an auto-commit reader sees changes only at a commit, to what the
\* committing transaction saw.
LEMMA PublishStep ==
    ASSUME TypeInv, TypeInv', IInv, IInv', [Next]_vars, NEW k \in Keys,
           ReadAutoCommit(k)' # ReadAutoCommit(k)
    PROVE  \E t \in active \ active' :
               clock' # clock /\ k \in written[t] /\ ReadAutoCommit(k)' = ReadInTxn(t, k)
<1>0. StepShape
    BY NextShape
<1>r. ReadAutoCommit(k) = IF Committed(k) = {} THEN CommittedBase(k) ELSE Newest(Committed(k)).new
    BY AutoCommitSees DEF AutoCommitView
<1>s. ReadAutoCommit(k)' = IF Committed(k)' = {} THEN CommittedBase(k)' ELSE Newest(Committed(k)').new
    BY AutoCommitSeesNext DEF AutoCommitView
<1>f. ASSUME Committed(k)' = Committed(k), UNCHANGED <<page, exists>> PROVE FALSE
    BY <1>f, <1>r, <1>s DEF CommittedBase
<1>1. CASE BeginTxn
    BY <1>1, <1>f DEF BeginTxn, Committed
<1>2. ASSUME NEW t \in active, CommitTxn(t)
      PROVE  \E u \in active \ active' :
                 clock' # clock /\ k \in written[u] /\ ReadAutoCommit(k)' = ReadInTxn(u, k)
    <2>1. t \in active \ active' /\ clock' # clock
        BY <1>2 DEF CommitTxn, EndTxn, TypeInv, TypeOK
    <2>2. OfTxn(chain[k], t) # {}
        BY <1>2, CommitLeavesOthers
    <2>3. k \in written[t] /\ ReadAutoCommit(k)' = ReadInTxn(t, k)
        BY <1>2, <2>2, CommitPublishesOwn
    <2> QED
        BY <2>1, <2>3
<1>3. ASSUME NEW t \in active, CommitTxnFails(t) PROVE FALSE
    BY <1>3, <1>f DEF CommitTxnFails, Committed
<1>4. ASSUME NEW t \in active, UndoStep(t) PROVE FALSE
    <2>1. chain'[k] \subseteq chain[k] /\ \A d \in chain[k] : d.txn # t => d \in chain'[k]
        BY <1>4 DEF UndoStep, Undo, RemoveTxn
    <2>2. \A d \in chain[k] : d.txn = t => d.cts = Uncommitted
        BY DEF IInv, CommittedAreSettled
    <2>3. Committed(k)' = Committed(k)
        BY <2>1, <2>2 DEF Committed
    <2> QED
        BY <1>4, <2>3, <1>f DEF UndoStep
<1>5. ASSUME NEW t \in active, NEW l \in Keys, NEW op \in Ops, NEW prior \in Versions,
             NEW new \in Versions, PushStep(t, l, op, prior, new)
      PROVE  FALSE
    <2>1. PICK x \in Delta : /\ x.cts = Uncommitted
                             /\ chain'[l] = chain[l] \cup {x}
                             /\ \A m \in Keys : m # l => chain'[m] = chain[m]
        BY <1>5, PushedChain
    <2>2. Committed(k)' = Committed(k)
        BY <2>1 DEF Committed
    <2> QED
        BY <1>5, <2>2, <1>f DEF PushStep
<1>6. CASE VacuumOnce
    <2>1. /\ page'[k] = IF k \in Drainable THEN Newest(chain[k]).new ELSE page[k]
          /\ chain'[k] = IF k \in Drainable THEN {} ELSE chain[k]
          /\ exists' = exists \ VacuumedDeletes
          /\ VacuumedDeletes \subseteq Drainable
        BY <1>6 DEF VacuumOnce, VacuumedDeletes
    <2>2. CASE k \notin Drainable
        <3>1. Committed(k)' = Committed(k) /\ CommittedBase(k)' = CommittedBase(k)
            BY <2>1, <2>2 DEF Committed, CommittedBase
        <3> QED
            BY <3>1, <1>r, <1>s
    <2>3. CASE k \in Drainable
        <3>1. chain[k] # {} /\ \A d \in chain[k] : d.cts # Uncommitted
            BY <2>3 DEF Drainable, AllSafeToVacuum, SafeToVacuum
        <3>2. Committed(k) = chain[k] /\ Committed(k)' = {}
            BY <2>1, <2>3, <3>1 DEF Committed
        <3>3. ReadAutoCommit(k) = Newest(chain[k]).new
            BY <3>1, <3>2, <1>r
        <3>4. CASE Newest(chain[k]).new = Absent
            BY <2>1, <2>3, <3>2, <3>3, <3>4, <1>s DEF CommittedBase
        <3>5. CASE Newest(chain[k]).new # Absent
            <4>1. k \in exists
                BY <3>1, <3>5, CommittedVersionExists
            <4>2. k \in exists'
                BY <2>1, <3>5, <4>1 DEF VacuumedDeletes
            <4> QED
                BY <2>1, <2>3, <3>2, <3>3, <4>2, <1>s DEF CommittedBase
        <3> QED
            BY <3>4, <3>5
    <2> QED
        BY <2>2, <2>3
<1>7. CASE UNCHANGED vars
    BY <1>7, <1>f DEF vars, Committed
<1> QED
    BY <1>0, <1>1, <1>2, <1>3, <1>4, <1>5, <1>6, <1>7 DEF StepShape

\* Nothing but a commit is ever visible to an auto-commit reader, and a commit
\* shows it what the committing transaction saw.
THEOREM CommitsPublish == Spec => OnlyCommitPublishes
<1>1. TypeInv /\ TypeInv' /\ IInv /\ IInv' /\ [Next]_vars =>
          [\A k \in Keys : ReadAutoCommit(k)' # ReadAutoCommit(k) =>
              \E t \in active \ active' :
                  /\ clock' # clock
                  /\ k \in written[t]
                  /\ ReadAutoCommit(k)' = ReadInTxn(t, k)]_vars
    BY PublishStep
<1> QED
    BY <1>1, EngineInvariant, PTL DEF Spec, OnlyCommitPublishes
===========================================================================
