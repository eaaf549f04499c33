------------------------- MODULE BoltSessionProofs -------------------------
(***************************************************************************)
(* What the Bolt sessions keep true for any number of connections, any     *)
(* flush threshold and any bounds: the batch bookkeeping they share loses  *)
(* no acknowledged write, and the two assumptions finish_txn makes about   *)
(* the transaction it is about to finish hold.                             *)
(***************************************************************************)
EXTENDS BoltSession, TLAPS

-----------------------------------------------------------------------------
(* The inductive invariant.                                                *)

\* Transaction ids are handed out once: what a session holds was handed out,
\* to it alone.
TxnIsOwn ==
    /\ \A c \in Conns : openTxn[c] < nextTxn
    /\ \A c, d \in Conns : openTxn[c] # NoTxn /\ openTxn[c] = openTxn[d] => c = d

SessionInv ==
    /\ TypeOK
    /\ UnsyncedIsHeld
    /\ TxnIsOwn
    /\ OpenTxnImpliesBound
    /\ OpenTxnIsLive

\* The shared part of the state, as the record the batch operators pass on.
GraphType == [depth : Nat, unsynced : SUBSET Conns, lost : SUBSET Conns]

Held(g) == g.unsynced \subseteq g.lost \/ g.depth > 0

GraphOK(g) == g \in GraphType /\ Held(g)

-----------------------------------------------------------------------------
(* The batch operators keep GraphOK.                                       *)

\* begin_batch only opens one more level.
LEMMA BeginBatchOK ==
    ASSUME NEW g, GraphOK(g)
    PROVE  GraphOK(BeginBatch(g))
BY DEF GraphOK, GraphType, Held, BeginBatch

\* end_batch leaves the outermost batch with everything synced, or with what
\* the failed sync should have covered accounted as lost.
LEMMA EndBatchOK ==
    ASSUME NEW g, GraphOK(g), NEW r \in EndBatch(g)
    PROVE  GraphOK(r.g) /\ r.ok \in BOOLEAN
<1>1. GraphOK(Synced) /\ GraphOK(Unsynced(g))
  BY DEF GraphOK, GraphType, Held, Synced, Unsynced
<1>2. CASE g.depth = 0
  <2>1. EndBatch(g) = {[ok |-> TRUE, g |-> g]}
    BY <1>2, g.depth # 1 DEF EndBatch
  <2>2. r = [ok |-> TRUE, g |-> g]
    BY <2>1
  <2>3. r.g = g /\ r.ok = TRUE
    BY <2>2
  <2>. QED  BY <2>3, Zenon
<1>3. CASE g.depth = 1
  <2>1. EndBatch(g) = {[ok |-> TRUE, g |-> Synced], [ok |-> FALSE, g |-> Unsynced(g)]}
    BY <1>3, g.depth # 0 DEF EndBatch
  <2>2. CASE r = [ok |-> TRUE, g |-> Synced]
    <3>1. r.g = Synced /\ r.ok = TRUE
      BY <2>2
    <3>. QED  BY <1>1, <3>1, Zenon
  <2>3. CASE r = [ok |-> FALSE, g |-> Unsynced(g)]
    <3>1. r.g = Unsynced(g) /\ r.ok = FALSE
      BY <2>3
    <3>. QED  BY <1>1, <3>1, Zenon
  <2>. QED  BY <2>1, <2>2, <2>3
<1>4. CASE g.depth # 0 /\ g.depth # 1
  <2>. DEFINE h == [g EXCEPT !.depth = @ - 1]
  <2>1. EndBatch(g) = {[ok |-> TRUE, g |-> h]}
    BY <1>4, Zenon DEF EndBatch
  <2>2. GraphOK(h)
    BY <1>4 DEF GraphOK, GraphType, Held
  <2>. HIDE DEF h
  <2>3. r = [ok |-> TRUE, g |-> h]
    BY <2>1
  <2>4. r.g = h /\ r.ok = TRUE
    BY <2>3
  <2>. QED  BY <2>2, <2>4, Zenon
<1>. QED  BY <1>2, <1>3, <1>4

\* A write is synced at once outside a batch, and held by the batch inside one.
LEMMA WroteOK ==
    ASSUME NEW g, GraphOK(g), NEW c \in Conns
    PROVE  GraphOK(Wrote(g, c))
BY DEF GraphOK, GraphType, Held, Wrote, Synced

\* The invariant says that the shared state is a GraphOK record.
LEMMA GraphIsOK ==
    ASSUME SessionInv
    PROVE  GraphOK(Graph)
BY DEF SessionInv, TypeOK, UnsyncedIsHeld, GraphOK, GraphType, Held, Graph

\* Setting the shared state to a GraphOK record is all the invariant asks of it.
LEMMA SetGraphOK ==
    ASSUME NEW g, GraphOK(g), SetGraph(g)
    PROVE  /\ depth' \in Nat
           /\ unsynced' \in SUBSET Conns
           /\ lost' \in SUBSET Conns
           /\ UnsyncedIsHeld'
BY DEF GraphOK, GraphType, Held, SetGraph, UnsyncedIsHeld

\* The flush before a read, at RESET and at the end of a connection.
LEMMA FlushedOK ==
    ASSUME SessionInv, NEW c \in Conns, NEW g \in Flushed(c)
    PROVE  GraphOK(g)
BY GraphIsOK, EndBatchOK DEF Flushed

\* The auto-flush after a mutation, from whatever shared state it left.
LEMMA AutoFlushOK ==
    ASSUME SessionInv, NEW c \in Conns, NEW g, GraphOK(g),
           NEW count \in 0 .. FlushOps, AutoFlush(c, g, count)
    PROVE  /\ dirty' \in [Conns -> 0 .. FlushOps]
           /\ depth' \in Nat
           /\ unsynced' \in SUBSET Conns
           /\ lost' \in SUBSET Conns
           /\ UnsyncedIsHeld'
<1>1. dirty \in [Conns -> 0 .. FlushOps] /\ FlushOps \in Nat \ {0}
  BY SessionAssumption DEF SessionInv, TypeOK
<1>2. CASE /\ dirty' = [dirty EXCEPT ![c] = count]
           /\ SetGraph(g)
  BY <1>1, <1>2, SetGraphOK
<1>3. CASE \E r \in EndBatch(g) :
             /\ dirty' = [dirty EXCEPT ![c] = IF r.ok THEN 0 ELSE count]
             /\ SetGraph(BeginBatch(r.g))
  <2>1. PICK r \in EndBatch(g) :
             /\ dirty' = [dirty EXCEPT ![c] = IF r.ok THEN 0 ELSE count]
             /\ SetGraph(BeginBatch(r.g))
    BY <1>3
  <2>2. GraphOK(BeginBatch(r.g))
    BY EndBatchOK, BeginBatchOK
  <2>3. dirty' \in [Conns -> 0 .. FlushOps]
    BY <1>1, <2>1
  <2>. QED  BY <2>1, <2>2, <2>3, SetGraphOK
<1>. QED  BY <1>2, <1>3 DEF AutoFlush

-----------------------------------------------------------------------------
(* The parts of the invariant that only the session's own fields concern.  *)

\* The transaction-related parts, kept by every step that leaves the
\* transactions alone and does not bring a failed or unbound session back.
TxnPart == TxnIsOwn /\ OpenTxnImpliesBound /\ OpenTxnIsLive

\* A step that leaves bindings and transactions alone keeps them ...
LEMMA TxnPartStable ==
    ASSUME SessionInv, UNCHANGED <<bound, openTxn, live, nextTxn>>,
           failed \subseteq failed', open' \subseteq open
    PROVE  TxnPart'
BY DEF SessionInv, TxnPart, TxnIsOwn, OpenTxnImpliesBound, OpenTxnIsLive, Ready

\* ... and by a refused write, which may have aborted the transaction but
\* leaves the session in the FAILED state.
LEMMA TxnPartAborted ==
    ASSUME SessionInv, NEW c \in Conns, UNCHANGED <<open, bound, openTxn, nextTxn>>,
           failed' = failed \cup {c}, live' \in {live, live \ {openTxn[c]}}
    PROVE  TxnPart'
BY DEF SessionInv, TxnPart, TxnIsOwn, OpenTxnImpliesBound, OpenTxnIsLive, Ready

-----------------------------------------------------------------------------

\* Every step of every session keeps the invariant.
THEOREM SessionInvariant == Spec => []SessionInv
<1>1. Init => SessionInv
  BY SessionAssumption DEF Init, SessionInv, TypeOK, UnsyncedIsHeld, TxnIsOwn,
     OpenTxnImpliesBound, OpenTxnIsLive, NoTxn, TxnIds, Ready
<1>2. SessionInv /\ [Next]_vars => SessionInv'
  <2>. SUFFICES ASSUME SessionInv, [Next]_vars
                PROVE  SessionInv'
    OBVIOUS
  <2>0. TypeOK /\ FlushOps \in Nat \ {0} /\ MaxTxn \in Nat
    BY SessionAssumption DEF SessionInv
  <2>1. CASE UNCHANGED vars
    BY <2>1 DEF vars, sessionVars, graphVars, SessionInv, TypeOK, UnsyncedIsHeld,
       TxnIsOwn, OpenTxnImpliesBound, OpenTxnIsLive, Ready
  <2>2. ASSUME NEW c \in Conns, Bind(c)
        PROVE  SessionInv'
    <3>. USE <2>2 DEF Bind
    <3>1. TypeOK' /\ UnsyncedIsHeld' /\ TxnIsOwn'
      BY DEF SessionInv, TypeOK, UnsyncedIsHeld, TxnIsOwn, Reply, graphVars
    <3>2. PICK ok \in BOOLEAN :
             /\ bound' = IF ok THEN bound \cup {c} ELSE bound \ {c}
             /\ failed' = IF ok THEN failed ELSE failed \cup {c}
      BY DEF Reply
    <3>3. OpenTxnImpliesBound' /\ OpenTxnIsLive'
      BY <3>2 DEF SessionInv, OpenTxnImpliesBound, OpenTxnIsLive, Ready
    <3>. QED  BY <3>1, <3>3 DEF SessionInv
  <2>3. ASSUME NEW c \in Conns, RefuseMessage(c)
        PROVE  SessionInv'
    <3>. USE <2>3 DEF RefuseMessage
    <3>1. TypeOK' /\ UnsyncedIsHeld'
      BY DEF SessionInv, TypeOK, UnsyncedIsHeld, Reply, graphVars
    <3>2. TxnPart'
      BY TxnPartStable DEF Reply
    <3>. QED  BY <3>1, <3>2 DEF SessionInv, TxnPart
  <2>4. ASSUME NEW c \in Conns, RunMutation(c)
        PROVE  SessionInv'
    <3>. DEFINE count == IF dirty[c] = FlushOps THEN FlushOps ELSE dirty[c] + 1
    <3>1. count \in 0 .. FlushOps /\ dirty[c] \in 0 .. FlushOps
      BY <2>0 DEF TypeOK
    <3>2. GraphOK(Graph) /\ GraphOK(MutationBatch(c)) /\ GraphOK(Wrote(MutationBatch(c), c))
      BY GraphIsOK, BeginBatchOK, WroteOK DEF MutationBatch
    <3>3. UNCHANGED <<open, bound, openTxn, panicked, nextTxn>>
      BY <2>4 DEF RunMutation
    <3>4. \/ /\ \/ AutoFlush(c, Wrote(MutationBatch(c), c), count)
                \/ AutoFlush(c, Graph, count)
             /\ failed' = failed
             /\ UNCHANGED live
          \/ /\ AutoFlush(c, MutationBatch(c), dirty[c])
             /\ failed' = failed \cup {c}
             /\ live' \in {live, live \ {openTxn[c]}}
      BY <2>4 DEF RunMutation, Reply
    <3>5. /\ dirty' \in [Conns -> 0 .. FlushOps]
          /\ depth' \in Nat
          /\ unsynced' \in SUBSET Conns
          /\ lost' \in SUBSET Conns
          /\ UnsyncedIsHeld'
      <4>1. CASE AutoFlush(c, Wrote(MutationBatch(c), c), count)
        BY <3>1, <3>2, <4>1, AutoFlushOK
      <4>2. CASE AutoFlush(c, Graph, count)
        BY <3>1, <3>2, <4>2, AutoFlushOK
      <4>3. CASE AutoFlush(c, MutationBatch(c), dirty[c])
        BY <3>1, <3>2, <4>3, AutoFlushOK
      <4>. HIDE DEF count
      <4>. QED  BY <3>4, <4>1, <4>2, <4>3
    <3>. HIDE DEF count
    <3>6. TypeOK'
      BY <2>0, <3>3, <3>4, <3>5 DEF TypeOK
    <3>7. TxnPart'
      <4>1. CASE failed' = failed /\ UNCHANGED live
        BY <3>3, <4>1, TxnPartStable
      <4>2. CASE failed' = failed \cup {c} /\ live' \in {live, live \ {openTxn[c]}}
        BY <3>3, <4>2, TxnPartAborted
      <4>. QED  BY <3>4, <4>1, <4>2
    <3>. QED  BY <3>5, <3>6, <3>7 DEF SessionInv, TxnPart
  <2>5. ASSUME NEW c \in Conns, RunRead(c)
        PROVE  SessionInv'
    <3>1. PICK g \in Flushed(c) : SetGraph(g)
      BY <2>5 DEF RunRead
    <3>2. GraphOK(g)
      BY FlushedOK
    <3>3. /\ depth' \in Nat
          /\ unsynced' \in SUBSET Conns
          /\ lost' \in SUBSET Conns
          /\ UnsyncedIsHeld'
      BY <3>1, <3>2, SetGraphOK
    <3>4. TypeOK'
      BY <2>0, <2>5, <3>3 DEF RunRead, TypeOK, Reply
    <3>5. TxnPart'
      BY <2>5, TxnPartStable DEF RunRead, Reply
    <3>. QED  BY <3>3, <3>4, <3>5 DEF SessionInv, TxnPart
  <2>11. ASSUME NEW c \in Conns, RunPipeline(c)
         PROVE  SessionInv'
    <3>1. UNCHANGED <<open, bound, openTxn, panicked, nextTxn>> /\ dirty' = [dirty EXCEPT ![c] = 0]
      BY <2>11 DEF RunPipeline
    <3>2. PICK g \in Flushed(c) :
             /\ SetGraph(g) \/ SetGraph(Wrote(g, c))
             /\ \/ failed' = failed /\ UNCHANGED live
                \/ failed' = failed \cup {c} /\ live' \in {live, live \ {openTxn[c]}}
      BY <2>11 DEF RunPipeline, Reply
    <3>3. GraphOK(g) /\ GraphOK(Wrote(g, c))
      BY FlushedOK, WroteOK
    <3>4. /\ depth' \in Nat
          /\ unsynced' \in SUBSET Conns
          /\ lost' \in SUBSET Conns
          /\ UnsyncedIsHeld'
      BY <3>2, <3>3, SetGraphOK
    <3>5. TypeOK'
      BY <2>0, <3>1, <3>2, <3>4 DEF TypeOK
    <3>6. TxnPart'
      BY <3>1, <3>2, TxnPartStable, TxnPartAborted
    <3>. QED  BY <3>4, <3>5, <3>6 DEF SessionInv, TxnPart
  <2>6. ASSUME NEW c \in Conns, HandleBegin(c)
        PROVE  SessionInv'
    <3>. USE <2>6 DEF HandleBegin
    <3>1. CASE /\ failed' \in {failed, failed \cup {c}}
               /\ nextTxn' \in {nextTxn, nextTxn + 1}
               /\ nextTxn' # nextTxn => nextTxn \in TxnIds
               /\ UNCHANGED <<openTxn, live>>
      BY <2>0, <3>1 DEF SessionInv, TypeOK, UnsyncedIsHeld, TxnIsOwn, OpenTxnImpliesBound,
         OpenTxnIsLive, Ready, graphVars, TxnIds, NoTxn
    <3>2. CASE /\ c \in bound
               /\ nextTxn \in TxnIds
               /\ nextTxn' = nextTxn + 1
               /\ openTxn' = [openTxn EXCEPT ![c] = nextTxn]
               /\ live' = live \cup {nextTxn}
               /\ failed' = failed
      BY <2>0, <3>2 DEF SessionInv, TypeOK, UnsyncedIsHeld, TxnIsOwn, OpenTxnImpliesBound,
         OpenTxnIsLive, Ready, graphVars, TxnIds, NoTxn
    <3>. QED  BY <3>1, <3>2 DEF Reply
  <2>7. ASSUME NEW c \in Conns, HandleCommit(c)
        PROVE  SessionInv'
    <3>1. GraphOK(Wrote(Graph, c))
      BY GraphIsOK, WroteOK
    <3>2. /\ depth' \in Nat
          /\ unsynced' \in SUBSET Conns
          /\ lost' \in SUBSET Conns
          /\ UnsyncedIsHeld'
      BY <2>7, <3>1, SetGraphOK DEF HandleCommit, graphVars, SessionInv, TypeOK, UnsyncedIsHeld
    <3>3. TypeOK'
      BY <2>0, <2>7, <3>2 DEF HandleCommit, TypeOK, Reply, graphVars, NoTxn
    <3>4. /\ openTxn' = [openTxn EXCEPT ![c] = NoTxn]
          /\ failed \subseteq failed'
          /\ live' \in {live, live \ {openTxn[c]}}
          /\ UNCHANGED <<open, bound, nextTxn>>
      BY <2>7 DEF HandleCommit, Reply
    <3>5. TxnPart'
      BY <2>0, <3>4 DEF SessionInv, TypeOK, TxnPart, TxnIsOwn, OpenTxnImpliesBound,
         OpenTxnIsLive, Ready, NoTxn
    <3>. QED  BY <3>2, <3>3, <3>5 DEF SessionInv, TxnPart
  <2>8. ASSUME NEW c \in Conns, HandleRollback(c)
        PROVE  SessionInv'
    <3>1. TypeOK' /\ UnsyncedIsHeld'
      BY <2>0, <2>8 DEF SessionInv, HandleRollback, TypeOK, UnsyncedIsHeld, Reply, graphVars, NoTxn
    <3>2. /\ openTxn' = [openTxn EXCEPT ![c] = NoTxn]
          /\ failed \subseteq failed'
          /\ live' = live \ {openTxn[c]}
          /\ UNCHANGED <<open, bound, nextTxn>>
      BY <2>8 DEF HandleRollback, Reply
    <3>3. TxnPart'
      BY <2>0, <3>2 DEF SessionInv, TypeOK, TxnPart, TxnIsOwn, OpenTxnImpliesBound,
         OpenTxnIsLive, Ready, NoTxn
    <3>. QED  BY <3>1, <3>3 DEF SessionInv, TxnPart
  <2>9. ASSUME NEW c \in Conns, HandleReset(c)
        PROVE  SessionInv'
    <3>1. /\ depth' \in Nat
          /\ unsynced' \in SUBSET Conns
          /\ lost' \in SUBSET Conns
          /\ UnsyncedIsHeld'
      BY <2>9, FlushedOK, SetGraphOK
         DEF HandleReset, graphVars, SessionInv, TypeOK, UnsyncedIsHeld
    <3>2. TypeOK'
      BY <2>0, <2>9, <3>1 DEF HandleReset, TypeOK, NoTxn
    <3>3. /\ openTxn' = [openTxn EXCEPT ![c] = NoTxn]
          /\ failed' = failed \ {c}
          /\ live' \in {live, live \ {openTxn[c]}}
          /\ open' \subseteq open
          /\ UNCHANGED <<bound, nextTxn>>
      BY <2>9 DEF HandleReset
    <3>4. TxnPart'
      BY <2>0, <3>3 DEF SessionInv, TypeOK, TxnPart, TxnIsOwn, OpenTxnImpliesBound,
         OpenTxnIsLive, Ready, NoTxn
    <3>. QED  BY <3>1, <3>2, <3>4 DEF SessionInv, TxnPart
  <2>10. ASSUME NEW c \in Conns, Close(c)
         PROVE  SessionInv'
    <3>1. /\ depth' \in Nat
          /\ unsynced' \in SUBSET Conns
          /\ lost' \in SUBSET Conns
          /\ UnsyncedIsHeld'
      BY <2>10, FlushedOK, SetGraphOK
         DEF Close, graphVars, SessionInv, TypeOK, UnsyncedIsHeld
    <3>2. TypeOK'
      BY <2>0, <2>10, <3>1 DEF Close, TypeOK
    <3>3. TxnPart'
      BY <2>10, TxnPartStable DEF Close
    <3>. QED  BY <3>1, <3>2, <3>3 DEF SessionInv, TxnPart
  <2>. QED  BY <2>1, <2>2, <2>3, <2>4, <2>5, <2>6, <2>7, <2>8, <2>9, <2>10, <2>11 DEF Next
<1>. QED  BY <1>1, <1>2, PTL DEF Spec

\* However sessions nest, steal and leak batches on the graph they share, an
\* acknowledged write is synced or is covered by a batch still open, except
\* after a sync that failed (begin_batch, end_batch, wal_sync).
THEOREM WritesAreHeld == Spec => []UnsyncedIsHeld
<1>1. SessionInv => UnsyncedIsHeld
  BY DEF SessionInv
<1>. QED  BY <1>1, SessionInvariant, PTL

\* The expect() in finish_txn never fires: a session that answers COMMIT or
\* ROLLBACK with a transaction open holds a graph accessor.
THEOREM FinishHasAccessor == Spec => []OpenTxnImpliesBound
<1>1. SessionInv => OpenTxnImpliesBound
  BY DEF SessionInv
<1>. QED  BY <1>1, SessionInvariant, PTL

\* COMMIT is never sent for a transaction the engine has already ended.
THEOREM FinishHasTxn == Spec => []OpenTxnIsLive
<1>1. SessionInv => OpenTxnIsLive
  BY DEF SessionInv
<1>. QED  BY <1>1, SessionInvariant, PTL

=============================================================================
