---------------------------- MODULE BoltSession ----------------------------
(***************************************************************************)
(* The Bolt sessions of the server: the per-connection state machine of    *)
(* BoltHandler (failed, bound, open_txn, the implicit batch) over the one  *)
(* Graph all sessions share, reduced to what they fight over: batch_depth, *)
(* which writes a WAL sync has covered, and the live transactions.         *)
(*                                                                         *)
(* One action per message; a session handles one message at a time and     *)
(* takes the graph lock for each engine call.  Authentication, DDL, CALL   *)
(* and administrative statements touch none of this state.                 *)
(***************************************************************************)
EXTENDS Integers, FiniteSets

CONSTANTS
    Conns,      \* the connections
    FlushOps,   \* AUTO_FLUSH_OPS
    MaxTxn,     \* bound: transactions begun
    MaxDepth    \* bound: batches open at once on the graph

ASSUME SessionAssumption == FlushOps \in Nat \ {0} /\ MaxTxn \in Nat /\ MaxDepth \in Nat

NoTxn == 0
TxnIds == 1 .. MaxTxn

VARIABLES
    open,       \* the connections whose run loop is running
    failed,     \* ... in the FAILED state
    bound,      \* ... holding a session_accessor
    openTxn,    \* open_txn of each connection
    dirty,      \* batch_state.dirty_count, counted up to FlushOps
    panicked,   \* connections whose task died on an expect()
    depth,      \* Graph.batch_depth
    unsynced,   \* connections with acknowledged writes no WAL sync has covered
    lost,       \* history: ... since a sync that was to cover them failed
    live,       \* the transactions the engine holds active
    nextTxn

sessionVars == <<open, failed, bound, openTxn, dirty, panicked>>
graphVars == <<depth, unsynced, lost>>
vars == <<sessionVars, graphVars, live, nextTxn>>

-----------------------------------------------------------------------------
(* Graph::begin_batch and end_batch, on a graph state g.                   *)

Graph == [depth |-> depth, unsynced |-> unsynced, lost |-> lost]

SetGraph(g) == depth' = g.depth /\ unsynced' = g.unsynced /\ lost' = g.lost

BeginBatch(g) == [g EXCEPT !.depth = @ + 1]

\* Outside any batch, after a sync that covered everything, or one that failed.
Synced == [depth |-> 0, unsynced |-> {}, lost |-> {}]
Unsynced(g) == [depth |-> 0, unsynced |-> g.unsynced, lost |-> g.unsynced]

\* Mutant: the outermost close does not sync.
EndBatch_NoSync(g) ==
    {[ok |-> TRUE, g |-> [g EXCEPT !.depth = IF @ = 0 THEN 0 ELSE @ - 1]]}

\* What end_batch may do: nothing without a batch, one level down inside one,
\* and the sync, which may fail, at the outermost.
EndBatch(g) ==
    CASE g.depth = 0 -> {[ok |-> TRUE, g |-> g]}
      [] g.depth = 1 -> {[ok |-> TRUE, g |-> Synced],
                         [ok |-> FALSE, g |-> Unsynced(g)]}
      [] OTHER -> {[ok |-> TRUE, g |-> [g EXCEPT !.depth = @ - 1]]}

\* An auto-commit write or a commit syncs itself unless a batch is open.
Wrote(g, c) == IF g.depth = 0 THEN Synced
               ELSE [g EXCEPT !.unsynced = @ \cup {c}]

-----------------------------------------------------------------------------

Init ==
    /\ open = Conns
    /\ failed = {}
    /\ bound = {}
    /\ openTxn = [c \in Conns |-> NoTxn]
    /\ dirty = [c \in Conns |-> 0]
    /\ panicked = {}
    /\ depth = 0
    /\ unsynced = {}
    /\ lost = {}
    /\ live = {}
    /\ nextTxn = 1

Ready(c) == c \in open /\ c \notin failed

\* The reply is a FAILURE: the session ignores everything until RESET.
Reply(c, ok) == failed' = IF ok THEN failed ELSE failed \cup {c}

\* flush_pending_batch, and the flush before a read: the counter is reset
\* whether or not end_batch succeeded.
Flushed(c) == IF dirty[c] > 0 THEN {r.g : r \in EndBatch(Graph)} ELSE {Graph}

-----------------------------------------------------------------------------
(* RUN.                                                                    *)

\* Mutant: a failed acquire is answered without entering the FAILED state.
Bind_NotFailed(c) ==
    /\ Ready(c)
    /\ \E ok \in BOOLEAN : bound' = IF ok THEN bound \cup {c} ELSE bound \ {c}
    /\ UNCHANGED <<open, failed, openTxn, dirty, panicked, graphVars, live, nextTxn>>

\* A RUN that names another database drops the accessor first; acquiring the
\* new one may fail.
Bind(c) ==
    /\ Ready(c)
    /\ \E ok \in BOOLEAN :
          /\ bound' = IF ok THEN bound \cup {c} ELSE bound \ {c}
          /\ Reply(c, ok)
    /\ UNCHANGED <<open, openTxn, dirty, panicked, graphVars, live, nextTxn>>

\* Rate limit, parameter, parse or access error, of a RUN, PULL or DISCARD.
RefuseMessage(c) ==
    /\ Ready(c)
    /\ Reply(c, FALSE)
    /\ UNCHANGED <<open, bound, openTxn, dirty, panicked, graphVars, live, nextTxn>>

\* The implicit batch is opened by the first auto-commit mutation.
MutationBatch(c) ==
    IF openTxn[c] = NoTxn /\ dirty[c] = 0 THEN BeginBatch(Graph) ELSE Graph

\* After the mutation: flush at the threshold, or when the first un-synced
\* mutation is old enough, and open the next batch.
AutoFlush(c, g, count) ==
    \/ /\ count < FlushOps
       /\ dirty' = [dirty EXCEPT ![c] = count]
       /\ SetGraph(g)
    \/ /\ count > 0
       /\ \E r \in EndBatch(g) :
             /\ dirty' = [dirty EXCEPT ![c] = IF r.ok THEN 0 ELSE count]
             /\ SetGraph(BeginBatch(r.g))

\* Inside a transaction the write goes to the delta chain; over the memory cap
\* the engine aborts the transaction and the session is not told which.
RunMutation(c) ==
    /\ Ready(c)
    /\ c \in bound
    /\ depth < MaxDepth
    /\ \/ /\ openTxn[c] = NoTxn
          /\ AutoFlush(c, Wrote(MutationBatch(c), c),
                       IF dirty[c] = FlushOps THEN FlushOps ELSE dirty[c] + 1)
          /\ Reply(c, TRUE)
          /\ UNCHANGED live
       \/ /\ openTxn[c] \in live
          /\ AutoFlush(c, Graph, IF dirty[c] = FlushOps THEN FlushOps ELSE dirty[c] + 1)
          /\ Reply(c, TRUE)
          /\ UNCHANGED live
       \/ /\ AutoFlush(c, MutationBatch(c), dirty[c])
          /\ Reply(c, FALSE)
          /\ live' \in {live, live \ {openTxn[c]}}
    /\ UNCHANGED <<open, bound, openTxn, panicked, nextTxn>>

\* Query, RETURN and a pipeline that returns rows flush first, then only read.
RunRead(c) ==
    /\ Ready(c)
    /\ c \in bound
    /\ dirty' = [dirty EXCEPT ![c] = 0]
    /\ \E g \in Flushed(c) : SetGraph(g)
    /\ \E ok \in BOOLEAN : Reply(c, ok)
    /\ UNCHANGED <<open, bound, openTxn, panicked, live, nextTxn>>

\* A pipeline that ends in SET or DELETE flushes too, opens no batch of its own
\* and is not counted as dirty; inside a transaction it may meet the memory cap.
RunPipeline(c) ==
    /\ Ready(c)
    /\ c \in bound
    /\ dirty' = [dirty EXCEPT ![c] = 0]
    /\ \E g \in Flushed(c) :
          \/ /\ openTxn[c] = NoTxn
             /\ SetGraph(Wrote(g, c))
             /\ Reply(c, TRUE)
             /\ UNCHANGED live
          \/ /\ openTxn[c] \in live
             /\ SetGraph(g)
             /\ Reply(c, TRUE)
             /\ UNCHANGED live
          \/ /\ SetGraph(g)
             /\ Reply(c, FALSE)
             /\ live' \in {live, live \ {openTxn[c]}}
    /\ UNCHANGED <<open, bound, openTxn, panicked, nextTxn>>

-----------------------------------------------------------------------------
(* BEGIN, COMMIT, ROLLBACK, RESET and the end of the connection.           *)

HandleBegin(c) ==
    /\ Ready(c)
    /\ IF openTxn[c] # NoTxn \/ c \notin bound
       THEN Reply(c, FALSE) /\ UNCHANGED <<openTxn, live, nextTxn>>
       ELSE /\ nextTxn \in TxnIds
            /\ nextTxn' = nextTxn + 1
            /\ \/ /\ openTxn' = [openTxn EXCEPT ![c] = nextTxn]
                  /\ live' = live \cup {nextTxn}
                  /\ Reply(c, TRUE)
               \/ Reply(c, FALSE) /\ UNCHANGED <<openTxn, live>>
    /\ UNCHANGED <<open, bound, dirty, panicked, graphVars>>

\* finish_txn: the session forgets the transaction before the engine answers.
HandleCommit(c) ==
    /\ Ready(c)
    /\ openTxn' = [openTxn EXCEPT ![c] = NoTxn]
    /\ \/ /\ openTxn[c] \in live
          /\ live' = live \ {openTxn[c]}
          /\ SetGraph(Wrote(Graph, c))
          /\ Reply(c, TRUE)
       \/ Reply(c, FALSE) /\ UNCHANGED <<graphVars, live>>
    /\ UNCHANGED <<open, bound, dirty, panicked, nextTxn>>

\* The in-memory undo happens whether or not the log takes the marker.
HandleRollback(c) ==
    /\ Ready(c)
    /\ openTxn' = [openTxn EXCEPT ![c] = NoTxn]
    /\ live' = live \ {openTxn[c]}
    /\ \E ok \in BOOLEAN : (ok => openTxn[c] \in live) /\ Reply(c, ok)
    /\ UNCHANGED <<open, bound, dirty, panicked, graphVars, nextTxn>>

\* flush_pending_batch needs the accessor as soon as there is a batch.
FlushPanics(c) == dirty[c] > 0 /\ c \notin bound

\* Mutant: RESET rolls the transaction back and leaves open_txn set.
HandleReset_KeepsTxn(c) ==
    /\ c \in open
    /\ failed' = failed \ {c}
    /\ live' = IF c \in bound THEN live \ {openTxn[c]} ELSE live
    /\ ~FlushPanics(c)
    /\ dirty' = [dirty EXCEPT ![c] = 0]
    /\ \E g \in Flushed(c) : SetGraph(g)
    /\ UNCHANGED <<open, panicked, bound, openTxn, nextTxn>>

\* Without an accessor the open transaction is dropped, not rolled back.
HandleReset(c) ==
    /\ c \in open
    /\ failed' = failed \ {c}
    /\ openTxn' = [openTxn EXCEPT ![c] = NoTxn]
    /\ live' = IF c \in bound THEN live \ {openTxn[c]} ELSE live
    /\ IF FlushPanics(c)
       THEN /\ panicked' = panicked \cup {c}
            /\ open' = open \ {c}
            /\ UNCHANGED <<dirty, graphVars>>
       ELSE /\ dirty' = [dirty EXCEPT ![c] = 0]
            /\ \E g \in Flushed(c) : SetGraph(g)
            /\ UNCHANGED <<panicked, open>>
    /\ UNCHANGED <<bound, nextTxn>>

\* GOODBYE, idle timeout, shutdown or an I/O error.
Close(c) ==
    /\ c \in open
    /\ open' = open \ {c}
    /\ IF FlushPanics(c)
       THEN panicked' = panicked \cup {c} /\ UNCHANGED <<dirty, graphVars>>
       ELSE /\ dirty' = [dirty EXCEPT ![c] = 0]
            /\ \E g \in Flushed(c) : SetGraph(g)
            /\ UNCHANGED panicked
    /\ UNCHANGED <<failed, bound, openTxn, live, nextTxn>>

-----------------------------------------------------------------------------

Next ==
    \E c \in Conns :
        \/ Bind(c)
        \/ RefuseMessage(c)
        \/ RunMutation(c)
        \/ RunRead(c)
        \/ RunPipeline(c)
        \/ HandleBegin(c)
        \/ HandleCommit(c)
        \/ HandleRollback(c)
        \/ HandleReset(c)
        \/ Close(c)

Spec == Init /\ [][Next]_vars

-----------------------------------------------------------------------------
(* Properties.                                                             *)

TypeOK ==
    /\ open \in SUBSET Conns
    /\ failed \in SUBSET Conns
    /\ bound \in SUBSET Conns
    /\ openTxn \in [Conns -> TxnIds \cup {NoTxn}]
    /\ dirty \in [Conns -> 0 .. FlushOps]
    /\ panicked \in SUBSET Conns
    /\ depth \in Nat
    /\ unsynced \in SUBSET Conns
    /\ lost \in SUBSET Conns
    /\ live \in SUBSET TxnIds
    /\ nextTxn \in 1 .. (MaxTxn + 1)

\* An acknowledged write that no sync has covered is covered by a batch that
\* is still open, of whatever session: however sessions nest, steal and leak
\* batches, the graph is never left outside any batch with unsynced writes,
\* except by a sync that failed.
UnsyncedIsHeld == unsynced \subseteq lost \/ depth > 0

\* finish_txn's expect("open_txn implies a bound session accessor") holds:
\* a rebind that drops the accessor under an open transaction also fails the
\* session, and RESET, the only way out, forgets the transaction.
OpenTxnImpliesBound == \A c \in Conns : Ready(c) /\ openTxn[c] # NoTxn => c \in bound

\* The transaction a session would commit is one the engine holds: a write over
\* the memory cap aborts it behind the session's back, and only because that
\* also fails the session is no later write or COMMIT sent to a dead id.
OpenTxnIsLive == \A c \in Conns : Ready(c) /\ openTxn[c] # NoTxn => openTxn[c] \in live

\* "Flush any pending implicit batch so mutations are durable even if the
\* client disconnects without a clean GOODBYE" (run): once every session is
\* gone, every acknowledged write is synced, or its sync was reported failed.
DisconnectIsDurable == open = {} /\ panicked = {} => unsynced \subseteq lost

\* A transaction whose commit failed "remains active and can be retried or
\* rolled back" (commit_txn): the session that stays does not lose its hold on
\* a transaction that stays live.
FailedCommitIsRetriable ==
    [][\A c \in open' : openTxn[c] \in live \cap live' => openTxn'[c] = openTxn[c]]_vars

\* After RESET "an open explicit transaction is abandoned (rolled back)"
\* (handle_reset): none is left live that the session had open.
ResetRollsBack == [][\A c \in failed \ failed' : openTxn[c] \notin live']_vars

\* The expect() of current_accessor "panics only on a logic error".
NoPanic == panicked = {}

=============================================================================
