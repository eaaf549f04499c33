----------------------------- MODULE GraphStore -----------------------------
(***************************************************************************)
(* The auto-commit writers of graph.rs over their physical structures:     *)
(* node and edge slots, adjacency pages, the adjacency pointer cache, the  *)
(* chain tail cache, batches that defer linking, the existence, label,     *)
(* property and pair indexes, flush, and the scan that rebuilds all of it  *)
(* when the graph is opened again.                                         *)
(*                                                                         *)
(* Every slot write is logged and, outside a batch, synced before the call *)
(* returns, so a crash keeps the slots; Durability models the log itself.  *)
(* What a crash can lose here is an adjacency page that was never logged,  *)
(* and the meta page and index.bin, which only flush writes.               *)
(***************************************************************************)
EXTENDS AdjacencyPages, Bags

CONSTANTS
  MaxNodes, MaxEdges,   \* ids the bounded instance hands out
  NodeLabels, EdgeLabels, Values,
  Ends,                 \* endpoint pairs an edge may be given
  MaxUpdates,           \* updates of nodes and edges
  MaxStale,             \* of them, node updates from a Node read earlier or built anew
  MaxBurns,             \* node ids handed to transactions that roll back
  MaxOpens, MaxCrashes, \* clean closings and crashes, each followed by open
  MaxDepth, MaxBatches, \* nesting of batches and how many outermost ones
  MaxBatchOps,          \* the cap set_batch_limits gives
  MaxEvictions, MaxFlushes,
  MaxEvents,            \* updates, burns, openings, evictions, flushes together
  UniqueLabels          \* labels whose value is declared unique

ASSUME StoreBounds == MaxNodes \in Nat /\ MaxEdges \in Nat

VARIABLES
  nslot, eslot,         \* slots of nodes.db and edges.db
  adj,                  \* pages of adjacency.db
  unlogged,             \* of them, those the log has never held
  cache, tail, openSlab,
  pending, depth, batchOps,
  nodeExists, edgeExists, counts,
  nodeIdx, edgeIdx, pairIdx, propIdx,
  nextNode, nextEdge,
  file,                 \* what the last flush left: meta ids and index.bin
  used                  \* what the bounds above have spent

idx == <<nodeExists, edgeExists, counts, nodeIdx, edgeIdx, pairIdx, propIdx>>
heads == <<adj, unlogged, cache, tail, openSlab>>
batch == <<pending, depth, batchOps>>
vars == <<nslot, eslot, heads, batch, idx, nextNode, nextEdge, file, used>>

NodeIds == 1..MaxNodes
EdgeIds == 1..MaxEdges
NoPtr == [out |-> NoPage, in |-> NoPage]
Miss == [out |-> -1, in |-> -1]           \* no entry in the pointer cache
NoTail == [first |-> NoPage]              \* no entry in the tail cache
Unused == [st |-> "unused"]
LiveNode(l, v, ptr) == [st |-> "live", lab |-> l, val |-> v, out |-> ptr.out, in |-> ptr.in]
LiveEdge(s, t, l) == [st |-> "live", src |-> s, tgt |-> t, lab |-> l]
Dead(slot) == [slot EXCEPT !.st = "dead"]
SlotPtr(n) == [out |-> nslot[n].out, in |-> nslot[n].in]
Keys == NodeIds \X Dirs
NoIndex == [ok |-> FALSE, nodes |-> {}, edges |-> {}]   \* no index.bin

Init ==
  /\ nslot = [n \in NodeIds |-> Unused] /\ eslot = [e \in EdgeIds |-> Unused]
  /\ adj = <<>> /\ unlogged = {}
  /\ cache = [n \in NodeIds |-> Miss] /\ tail = [k \in Keys |-> NoTail]
  /\ openSlab = [d \in Dirs |-> NoPage]
  /\ pending = [k \in Keys |-> <<>>] /\ depth = 0 /\ batchOps = 0
  /\ nodeExists = {} /\ edgeExists = {} /\ counts = [nodes |-> 0, edges |-> 0]
  /\ nodeIdx = {} /\ edgeIdx = {} /\ pairIdx = EmptyBag /\ propIdx = {}
  /\ nextNode = 1 /\ nextEdge = 1
  /\ file = [node |-> 1, edge |-> 1, pages |-> 0, index |-> NoIndex]
  /\ used = [updates |-> 0, stale |-> 0, burns |-> 0, opens |-> 0, crashes |-> 0,
             evictions |-> 0, flushes |-> 0, batches |-> 0]

Events == used.updates + used.burns + used.opens + used.crashes + used.evictions
          + used.flushes
Spend(what, max) ==
  /\ Events < MaxEvents /\ used[what] < max
  /\ used' = [used EXCEPT ![what] = @ + 1]

\* charge_batch_op: a batch refuses the operation that would pass its cap.
ChargeBatchOp ==
  /\ depth > 0 => batchOps < MaxBatchOps
  /\ batchOps' = IF depth > 0 THEN batchOps + 1 ELSE batchOps

-----------------------------------------------------------------------------
(* Adjacency.  An operation on several lists threads one record through:   *)
(* the pages, the unlogged ones, both caches, the open slabs, the slots.   *)

Mem == [adj |-> adj, unlogged |-> unlogged, cache |-> cache, tail |-> tail,
        open |-> openSlab, nslot |-> nslot, pending |-> pending]

Install(m) ==
  /\ adj' = m.adj /\ unlogged' = m.unlogged /\ cache' = m.cache /\ tail' = m.tail
  /\ openSlab' = m.open /\ pending' = m.pending

\* resolve_adj_pointer: the cache, else the slot, whose heads it then caches.
ResolveAdjPointer(m, n) ==
  IF m.cache[n] # Miss THEN m.cache[n]
  ELSE IF m.nslot[n].st # "live" THEN NoPtr
  ELSE [out |-> m.nslot[n].out, in |-> m.nslot[n].in]

ReadAdjEdgeIds(m, page, n, d) ==
  IF IsSlabPage(m.adj[page]) THEN ReadSubblock(m.adj[page], n, d)
  ELSE ReadAdjacency(m.adj, page)

\* append_to_dedicated_chain.  A chain written whole logs only its head.
AppendToDedicatedChain(m, n, d, page, ids) ==
  LET head == Len(m.adj) + 1
      whole == WriteAdjacency(m.adj, n, d, ids)
      state == IF m.tail[<<n, d>>] # NoTail THEN m.tail[<<n, d>>] ELSE ReadChainState(m.adj, page)
      grown == AppendChain(m.adj, state, ids)
  IN IF page = NoPage
     THEN [m |-> [m EXCEPT !.adj = whole, !.tail[<<n, d>>] = ReadChainState(whole, head),
                           !.unlogged = @ \cup (head + 1)..Len(whole)],
           page |-> head]
     ELSE [m |-> [m EXCEPT !.adj = grown.pages, !.unlogged = @ \ grown.logged,
                           !.tail[<<n, d>>] =
                             ChainState(page, grown.pages[page].last, state.total + Len(ids))],
           page |-> page]

\* open_slab_page_for, then write_subblock on the page it chose.
StartSubblock(m, n, d, ids) ==
  LET open == m.open[d]
      reuse == open # NoPage /\ SlabCanFit(m.adj[open], Len(ids))
      page == IF reuse THEN open ELSE Len(m.adj) + 1
      pages == IF reuse THEN m.adj ELSE Append(m.adj, EmptySlab)
  IN [m |-> [m EXCEPT !.adj = [pages EXCEPT ![page] = WriteSubblock(@, n, d, ids)],
                      !.open[d] = page],
      page |-> page]

\* migrate_subblock_to_dedicated_chain.
Migrate(m, n, d, slab, ids) ==
  LET chain == AppendToDedicatedChain(m, n, d, NoPage, ReadSubblock(m.adj[slab], n, d) \o ids)
  IN [chain EXCEPT !.m.adj[slab] = FreeSubblock(@, n, d)]

\* append_and_update_caches: the new head goes to the cache.
AppendAndUpdateCaches(m, n, d, ids) ==
  LET ptr == ResolveAdjPointer(m, n)
      page == ptr[d]
      r == CASE page # NoPage /\ ~IsSlabPage(m.adj[page]) -> AppendToDedicatedChain(m, n, d, page, ids)
             [] page # NoPage /\ IsSlabPage(m.adj[page]) ->
                  IF AppendFits(m.adj[page], n, d, Len(ids))
                  THEN [m |-> [m EXCEPT !.adj[page] = AppendSubblock(@, n, d, ids)], page |-> page]
                  ELSE Migrate(m, n, d, page, ids)
             [] page = NoPage /\ ~FitsInEmptySlab(Len(ids)) -> AppendToDedicatedChain(m, n, d, NoPage, ids)
             [] OTHER -> StartSubblock(m, n, d, ids)
  IN [r.m EXCEPT !.cache[n] = [ptr EXCEPT ![d] = r.page]]

\* Mutant: the new head stays in the cache.
PersistPointer_CacheOnly(m, n) == m

\* persist_adj_pointer_to_slot patches both heads of a live slot.
PatchHeads(slot, ptr) ==
  IF slot.st = "live" THEN LiveNode(slot.lab, slot.val, ptr) ELSE slot

PersistPointer(m, n) == [m EXCEPT !.nslot[n] = PatchHeads(@, m.cache[n])]

\* add_edge_to_adjacency: a batch defers the write to its end.
AddToAdjacency(m, n, d, e) ==
  IF depth > 0 THEN [m EXCEPT !.pending[<<n, d>>] = Append(@, e)]
  ELSE PersistPointer(AppendAndUpdateCaches(m, n, d, <<e>>), n)

\* remove_edge_from_adjacency.  A chain is rewritten as a new one whose head
\* is cached, and logged, but not written to the node's slot.
RemoveFromAdjacency(m, n, d, e) ==
  LET waiting == m.pending[<<n, d>>]
      page == ResolveAdjPointer(m, n)[d]
      left == SelectSeq(ReadAdjEdgeIds(m, page, n, d), LAMBDA x : x # e)
      chain == WriteAdjacency(m.adj, n, d, left)
      head == Len(m.adj) + 1
  IN IF e \in ToSet(waiting)
     THEN [m EXCEPT !.pending[<<n, d>>] = SelectSeq(waiting, LAMBDA x : x # e)]
     ELSE IF page = NoPage THEN m
     ELSE IF IsSlabPage(m.adj[page])
     THEN [m EXCEPT !.adj[page] = RewriteSubblock(@, n, d, left),
                    !.cache[n] = ResolveAdjPointer(m, n),
                    !.tail[<<n, "out">>] = NoTail, !.tail[<<n, "in">>] = NoTail]
     ELSE [m EXCEPT !.adj = chain, !.unlogged = @ \cup (head + 1)..Len(chain),
                    !.cache[n] = [ResolveAdjPointer(m, n) EXCEPT ![d] = head],
                    !.tail[<<n, "out">>] = NoTail, !.tail[<<n, "in">>] = NoTail]

\* remove_edge_internal on every edge of the set, in ascending order.
UnlinkAll(m, es) ==
  FoldLeft(LAMBDA acc, e : RemoveFromAdjacency(
                             RemoveFromAdjacency(acc, eslot[e].src, "out", e),
                             eslot[e].tgt, "in", e),
           m, SetToSortSeq(es, LAMBDA a, b : a < b))

\* edges_for_direction: the linked edges that exist, then the pending ones.
EdgesForDirection(n, d) ==
  LET page == ResolveAdjPointer(Mem, n)[d]
      linked == IF page = NoPage THEN <<>> ELSE ReadAdjEdgeIds(Mem, page, n, d)
  IN SelectSeq(linked \o pending[<<n, d>>], LAMBDA e : e \in edgeExists)

EdgesForDirectionByLabel(n, d, l) ==
  SelectSeq(EdgesForDirection(n, d), LAMBDA e : eslot[e].lab = l)

\* edges_between reads the pair index, and the slot of every edge it names: a
\* key names an edge as often as it was inserted.
EdgesBetween(s, t, l) ==
  [ e \in { k[4] : k \in { q \in DOMAIN pairIdx : <<q[1], q[2], q[3]>> = <<s, t, l>> } } |->
      pairIdx[<<s, t, l, e>>] ]

-----------------------------------------------------------------------------
(* The writers.                                                            *)

\* check_unique looks the value up in the property index.
CheckUnique(l, v, self) ==
  l \in UniqueLabels => \A k \in propIdx : k.lab = l /\ k.val = v => k.id = self

PropKey(l, v, n) == [lab |-> l, val |-> v, id |-> n]
PairKey(e, l) == <<eslot[e].src, eslot[e].tgt, l, e>>

AddNode(l, v) ==
  /\ nextNode \in NodeIds
  /\ ChargeBatchOp
  /\ CheckUnique(l, v, 0)
  /\ nslot' = [nslot EXCEPT ![nextNode] = LiveNode(l, v, NoPtr)]
  /\ nodeExists' = nodeExists \cup {nextNode}
  /\ nodeIdx' = nodeIdx \cup {<<l, nextNode>>}
  /\ propIdx' = propIdx \cup {PropKey(l, v, nextNode)}
  /\ counts' = [counts EXCEPT !.nodes = @ + 1]
  /\ cache' = [cache EXCEPT ![nextNode] = NoPtr]
  /\ nextNode' = nextNode + 1
  /\ UNCHANGED <<eslot, adj, unlogged, tail, openSlab, pending, depth, edgeExists, edgeIdx,
                 pairIdx, nextEdge, file, used>>

\* Mutant: the entry of the old value stays in the property index.
UpdateNode_KeepValue(n, l, v, ptr) ==
  /\ n \in nodeExists
  /\ ChargeBatchOp
  /\ CheckUnique(l, v, n)
  /\ ptr = SlotPtr(n)
  /\ Spend("updates", MaxUpdates)
  /\ nodeIdx' = (nodeIdx \ {<<nslot[n].lab, n>>}) \cup {<<l, n>>}
  /\ propIdx' = propIdx \cup {PropKey(l, v, n)}
  /\ nslot' = [nslot EXCEPT ![n] = LiveNode(l, v, ptr)]
  /\ UNCHANGED <<eslot, heads, pending, depth, nodeExists, edgeExists, counts, edgeIdx, pairIdx, nextNode, nextEdge, file>>

\* update_node.  The heads written are those the caller's Node carries.
UpdateNode(n, l, v, ptr) ==
  /\ n \in nodeExists
  /\ ChargeBatchOp
  /\ CheckUnique(l, v, n)
  /\ ptr \in {SlotPtr(n), NoPtr}
  /\ Events < MaxEvents /\ used.updates < MaxUpdates /\ (ptr # SlotPtr(n) => used.stale < MaxStale)
  /\ used' = [used EXCEPT !.updates = @ + 1, !.stale = IF ptr # SlotPtr(n) THEN @ + 1 ELSE @]
  /\ nodeIdx' = (nodeIdx \ {<<nslot[n].lab, n>>}) \cup {<<l, n>>}
  /\ propIdx' = (propIdx \ {PropKey(nslot[n].lab, nslot[n].val, n)}) \cup {PropKey(l, v, n)}
  /\ nslot' = [nslot EXCEPT ![n] = LiveNode(l, v, ptr)]
  /\ UNCHANGED <<eslot, heads, pending, depth, nodeExists, edgeExists, counts, edgeIdx, pairIdx, nextNode, nextEdge, file>>

\* reconcile_edge_delete, for a set of edges.
DropEdges(es) ==
  /\ eslot' = [e \in EdgeIds |-> IF e \in es THEN Dead(eslot[e]) ELSE eslot[e]]
  /\ edgeExists' = edgeExists \ es
  /\ edgeIdx' = { k \in edgeIdx : k[2] \notin es }
  /\ pairIdx' = [ k \in { q \in DOMAIN pairIdx : q[4] \notin es } |-> pairIdx[k] ]

\* remove_node: the edges to remove are read from the pages.
RemoveNode(n) ==
  LET ptr == ResolveAdjPointer(Mem, n)
      linked == UNION { ToSet(ReadAdjEdgeIds(Mem, ptr[d], n, d)) :
                        d \in { x \in Dirs : ptr[x] # NoPage } }
      es == linked \cap edgeExists
      m == UnlinkAll(Mem, es)
  IN /\ n \in nodeExists
     /\ ChargeBatchOp
     /\ Install([m EXCEPT !.cache[n] = Miss,
                          !.tail[<<n, "out">>] = NoTail, !.tail[<<n, "in">>] = NoTail])
     /\ nslot' = [nslot EXCEPT ![n] = Dead(@)]
     /\ DropEdges(es)
     /\ nodeExists' = nodeExists \ {n}
     /\ nodeIdx' = nodeIdx \ {<<nslot[n].lab, n>>}
     /\ propIdx' = propIdx \ {PropKey(nslot[n].lab, nslot[n].val, n)}
     /\ counts' = [nodes |-> counts.nodes - 1, edges |-> counts.edges - Cardinality(es)]
     /\ UNCHANGED <<depth, nextNode, nextEdge, file, used>>

AddEdge(s, t, l) ==
  LET m == AddToAdjacency(AddToAdjacency(Mem, s, "out", nextEdge), t, "in", nextEdge) IN
  /\ nextEdge \in EdgeIds
  /\ ChargeBatchOp
  /\ {s, t} \subseteq nodeExists
  /\ eslot' = [eslot EXCEPT ![nextEdge] = LiveEdge(s, t, l)]
  /\ edgeExists' = edgeExists \cup {nextEdge}
  /\ edgeIdx' = edgeIdx \cup {<<l, nextEdge>>}
  /\ pairIdx' = pairIdx (+) SetToBag({<<s, t, l, nextEdge>>})
  /\ counts' = [counts EXCEPT !.edges = @ + 1]
  /\ Install(m) /\ nslot' = m.nslot
  /\ nextEdge' = nextEdge + 1
  /\ UNCHANGED <<depth, nodeExists, nodeIdx, propIdx, nextNode, file, used>>

UpdateEdge(e, l) ==
  /\ e \in edgeExists
  /\ ChargeBatchOp
  /\ Spend("updates", MaxUpdates)
  /\ edgeIdx' = (edgeIdx \ {<<eslot[e].lab, e>>}) \cup {<<l, e>>}
  /\ pairIdx' = IF l = eslot[e].lab THEN pairIdx
                ELSE [ k \in DOMAIN pairIdx \ {PairKey(e, eslot[e].lab)} |-> pairIdx[k] ]
                     (+) SetToBag({PairKey(e, l)})
  /\ eslot' = [eslot EXCEPT ![e].lab = l]
  /\ UNCHANGED <<nslot, heads, pending, depth, nodeExists, edgeExists, counts, nodeIdx, propIdx, nextNode, nextEdge, file>>

RemoveEdge(e) ==
  /\ e \in edgeExists
  /\ ChargeBatchOp
  /\ Install(UnlinkAll(Mem, {e}))
  /\ DropEdges({e})
  /\ counts' = [counts EXCEPT !.edges = @ - 1]
  /\ UNCHANGED <<nslot, depth, nodeExists, nodeIdx, propIdx, nextNode, nextEdge, file, used>>

\* A transaction takes an id for its insert and rolls back: the id is gone.
BurnNodeId ==
  /\ nextNode \in NodeIds
  /\ Spend("burns", MaxBurns)
  /\ nextNode' = nextNode + 1
  /\ UNCHANGED <<nslot, eslot, heads, batch, idx, nextEdge, file>>

-----------------------------------------------------------------------------
(* Batches, caches, flush, open.                                           *)

BeginBatch ==
  /\ depth < MaxDepth
  /\ depth = 0 => used.batches < MaxBatches
  /\ used' = [used EXCEPT !.batches = IF depth = 0 THEN @ + 1 ELSE @]
  /\ depth' = depth + 1
  /\ UNCHANGED <<nslot, eslot, heads, pending, batchOps, idx, nextNode, nextEdge, file>>

\* flush_adj_pending: every list that waits, then the heads of every node.
FlushPending ==
  LET keys == SetToSeq({ k \in Keys : pending[k] # <<>> })
      linked == FoldLeft(LAMBDA m, k : AppendAndUpdateCaches(m, k[1], k[2], m.pending[k]), Mem, keys)
      waited(n) == \E d \in Dirs : pending[<<n, d>>] # <<>>
  IN /\ Install([linked EXCEPT !.pending = [k \in Keys |-> <<>>]])
     /\ nslot' = [n \in NodeIds |-> IF waited(n) THEN PatchHeads(nslot[n], linked.cache[n])
                                    ELSE nslot[n]]

EndBatch ==
  /\ depth > 0
  /\ depth' = depth - 1
  /\ IF depth > 1
     THEN UNCHANGED <<nslot, heads, pending, batchOps>>
     ELSE batchOps' = 0 /\ FlushPending
  /\ UNCHANGED <<eslot, idx, nextNode, nextEdge, file, used>>

\* clock_sweep and the tail cache's queue forget an entry to make room.
Evict(n) ==
  /\ Spend("evictions", MaxEvictions)
  /\ \/ /\ cache[n] # Miss
        /\ cache' = [cache EXCEPT ![n] = Miss] /\ tail' = tail
     \/ \E d \in Dirs : /\ tail[<<n, d>>] # NoTail
                        /\ tail' = [tail EXCEPT ![<<n, d>>] = NoTail] /\ cache' = cache
  /\ UNCHANGED <<nslot, eslot, adj, unlogged, openSlab, batch, idx, nextNode, nextEdge, file>>

\* A page's header counts its used slots; a rebuild scans that many.
ScannedSlots(slots) ==
  1..Cardinality({ i \in DOMAIN slots : slots[i].st # "unused" })

\* rebuild_indexes over the given scans and pages.  The label indexes come
\* from index.bin; without it the pages are scanned a second time, and the
\* pair index, which is not cleared in between, gets every edge twice.
Rebuild(nscan, escan, pages, index) ==
  LET nodes == { n \in nscan : nslot[n].st = "live" }
      edges == { e \in escan : eslot[e].st = "live" }
      pairs == SetToBag({ PairKey(e, eslot[e].lab) : e \in edges })
      top(S) == Max({0} \cup S) + 1
      isChain(n, d) == /\ n \in nodes /\ SlotPtr(n)[d] # NoPage
                       /\ ~IsSlabPage(pages[SlotPtr(n)[d]])
  IN /\ nodeExists' = nodes /\ edgeExists' = edges
     /\ counts' = [nodes |-> Cardinality(nodes), edges |-> Cardinality(edges)]
     /\ nextNode' = Max({file'.node, top(nodes)}) /\ nextEdge' = Max({file'.edge, top(edges)})
     /\ cache' = [n \in NodeIds |-> IF n \in nodes /\ SlotPtr(n) # NoPtr THEN SlotPtr(n) ELSE Miss]
     /\ tail' = [k \in Keys |-> IF isChain(k[1], k[2])
                                THEN ReadChainState(pages, SlotPtr(k[1])[k[2]]) ELSE NoTail]
     /\ propIdx' = { PropKey(nslot[n].lab, nslot[n].val, n) : n \in nodes }
     /\ nodeIdx' = IF index = NoIndex THEN { <<nslot[n].lab, n>> : n \in nodes } ELSE index.nodes
     /\ edgeIdx' = IF index = NoIndex THEN { <<eslot[e].lab, e>> : e \in edges } ELSE index.edges
     /\ pairIdx' = IF index = NoIndex THEN pairs (+) pairs ELSE pairs
     /\ adj' = pages
     /\ openSlab' = [d \in Dirs |-> NoPage] /\ pending' = [k \in Keys |-> <<>>]
     /\ depth' = 0 /\ batchOps' = 0

FlushedFile == [node |-> nextNode, edge |-> nextEdge, pages |-> Len(adj),
                index |-> [ok |-> TRUE, nodes |-> nodeIdx, edges |-> edgeIdx]]

\* Graph::flush writes index.bin, every page and the meta page.
Flush ==
  /\ Spend("flushes", MaxFlushes)
  /\ file' = FlushedFile
  /\ unlogged' = {}
  /\ UNCHANGED <<nslot, eslot, adj, cache, tail, openSlab, batch, idx, nextNode, nextEdge>>

\* flush, drop, open.
CloseAndOpen ==
  /\ depth = 0
  /\ Spend("opens", MaxOpens)
  /\ file' = FlushedFile /\ unlogged' = {}
  /\ Rebuild(ScannedSlots(nslot), ScannedSlots(eslot), adj, file'.index)
  /\ UNCHANGED <<nslot, eslot>>

\* A crash loses any of the pages the log never held; the file then ends at
\* the last page that was flushed or replayed.
CrashAndOpen ==
  LET end == Max({file.pages} \cup (DOMAIN adj \ unlogged)) IN
  /\ depth = 0
  /\ Spend("crashes", MaxCrashes)
  /\ file' = file
  /\ \E lost \in SUBSET unlogged :
       Rebuild(NodeIds, EdgeIds, [p \in 1..end |-> IF p \in lost THEN ZeroPage ELSE adj[p]],
               file.index)
  /\ unlogged' = {}
  /\ UNCHANGED <<nslot, eslot>>

Next ==
  \/ \E l \in NodeLabels, v \in Values : AddNode(l, v)
  \/ \E n \in NodeIds, l \in NodeLabels, v \in Values, ptr \in {SlotPtr(k) : k \in nodeExists} \cup {NoPtr} :
       UpdateNode(n, l, v, ptr)
  \/ \E n \in NodeIds : RemoveNode(n)
  \/ \E p \in Ends, l \in EdgeLabels : AddEdge(p[1], p[2], l)
  \/ \E e \in EdgeIds, l \in EdgeLabels : UpdateEdge(e, l)
  \/ \E e \in EdgeIds : RemoveEdge(e)
  \/ BeginBatch
  \/ EndBatch
  \/ \E n \in NodeIds : Evict(n)
  \/ Flush
  \/ CloseAndOpen

Spec == Init /\ [][Next]_vars

\* With transactions that burn ids, and with crashes.  Replay raises a page's
\* slot count to the highest slot it wrote, where a live write counts the used
\* ones, so an instance has one of the two.
SpecBurn == Init /\ [][Next \/ BurnNodeId]_vars
SpecCrash == Init /\ [][Next \/ CrashAndOpen]_vars

-----------------------------------------------------------------------------
TypeOK ==
  /\ \A n \in NodeIds : nslot[n].st \in {"unused", "live", "dead"}
  /\ nodeExists \subseteq NodeIds /\ edgeExists \subseteq EdgeIds
  /\ unlogged \subseteq DOMAIN adj
  /\ \A k \in Keys : ToSet(pending[k]) \subseteq EdgeIds
  /\ depth \in 0..MaxDepth /\ batchOps \in 0..MaxBatchOps

\* No sub-block of a shared adjacency page overwrites another or the
\* directory, whatever lists grew, moved out or shrank before.
SlabsKeepApart == \A p \in DOMAIN adj : IsSlabPage(adj[p]) => SlabLayoutOK(adj[p])

\* The page open_slab_page_for settles on never refuses the sub-block: its
\* test leaves out the directory counter, write_subblock's does not.
OpenSlabAccepts ==
  \A n \in nodeExists, d \in Dirs :
    LET open == openSlab[d] IN
    ResolveAdjPointer(Mem, n)[d] = NoPage /\ open # NoPage
      => (SlabCanFit(adj[open], 1) => ~SubblockRefused(adj[open], n, d, 1))

\* The cached tail of a chain is what its pages say: an append that trusts it
\* writes into the right page at the right place.
TailIsFresh ==
  \A n \in nodeExists, d \in Dirs :
    LET head == ResolveAdjPointer(Mem, n)[d] IN
    tail[<<n, d>>] # NoTail /\ head # NoPage
      => ~IsSlabPage(adj[head]) /\ tail[<<n, d>>] = ReadChainState(adj, head)

\* A node's edge list, read through cache, slot, slab or chain and the open
\* batch, is exactly the edges whose slots name the node, each once.
AdjacencyIsExact ==
  \A n \in nodeExists :
    /\ IsInjective(EdgesForDirection(n, "out")) /\ IsInjective(EdgesForDirection(n, "in"))
    /\ ToSet(EdgesForDirection(n, "out")) = { e \in edgeExists : eslot[e].src = n }
    /\ ToSet(EdgesForDirection(n, "in")) = { e \in edgeExists : eslot[e].tgt = n }

\* Every edge has both its ends.
NoDanglingEdge == \A e \in edgeExists : {eslot[e].src, eslot[e].tgt} \subseteq nodeExists

\* The two ways to find the edges from one node to another, edges_between
\* through the pair index and a walk of the source's edge list, agree.
PairLookupAgrees ==
  \A s, t \in nodeExists, l \in EdgeLabels :
    EdgesBetween(s, t, l) =
      SetToBag({ e \in ToSet(EdgesForDirectionByLabel(s, "out", l)) : eslot[e].tgt = t })

\* Label, property and pair lookups, and the counts of the meta page, agree
\* with the slots.
IndexesAreExact ==
  /\ nodeExists = { n \in NodeIds : nslot[n].st = "live" }
  /\ edgeExists = { e \in EdgeIds : eslot[e].st = "live" }
  /\ nodeIdx = { <<nslot[n].lab, n>> : n \in nodeExists }
  /\ edgeIdx = { <<eslot[e].lab, e>> : e \in edgeExists }
  /\ propIdx = { PropKey(nslot[n].lab, nslot[n].val, n) : n \in nodeExists }
  /\ pairIdx = SetToBag({ PairKey(e, eslot[e].lab) : e \in edgeExists })
  /\ counts = [nodes |-> Cardinality(nodeExists), edges |-> Cardinality(edgeExists)]

\* Two nodes never share a value declared unique.
UniqueValues ==
  \A a, b \in nodeExists :
    /\ a # b /\ nslot[a].lab = nslot[b].lab /\ nslot[a].val = nslot[b].val
    => nslot[a].lab \notin UniqueLabels

\* An id handed out is never handed out again.
IdsNeverReused == [][nextNode' >= nextNode /\ nextEdge' >= nextEdge]_vars

\* A shared adjacency page is never spoilt: its sub-blocks keep apart, and the
\* page open_slab_page_for settles on takes what it was chosen for.
SlabsAreSound ==
  SlabsKeepApart /\ OpenSlabAccepts

\* A node's edges, read in any of the three ways, are the edges that name it:
\* through the list, whose cached tail appends rely on, and through the pairs.
EdgeListsAreExact ==
  AdjacencyIsExact /\ TailIsFresh /\ PairLookupAgrees

\* The indexes say what the slots say, and so the constraint that is checked
\* through one of them (check_unique) holds.
IndexesServeConstraints ==
  IndexesAreExact /\ UniqueValues

=============================================================================
