-------------------------- MODULE GraphStoreProofs --------------------------
(***************************************************************************)
(* GraphStore, for any number of nodes, edges, labels, updates, batches    *)
(* and openings: the existence sets, the label, property and pair indexes  *)
(* and the counts say what the slots say, after every write and after the  *)
(* scan that rebuilds them.  The adjacency pages appear only as the source *)
(* of the edges that go with a node: the indexes follow whatever they say. *)
(***************************************************************************)
EXTENDS GraphStore, FiniteSetTheorems, WellFoundedInduction, TLAPS

NodeFields == {"st", "lab", "val", "out", "in"}
EdgeFields == {"st", "src", "tgt", "lab"}

\* What holds of the nodes.  Slots are used from the first one on, so that a
\* scan of as many slots as are used misses none.
NodesInOrder ==
  /\ nextNode \in Nat \ {0} /\ nextNode <= MaxNodes + 1
  /\ \A n \in NodeIds : (nslot[n].st = "unused" <=> n >= nextNode) /\ nslot[n].st \in {"unused", "live", "dead"}
NodeShapes ==
  /\ DOMAIN nslot = NodeIds /\ nslot = [n \in NodeIds |-> nslot[n]]
  /\ \A n \in NodeIds : nslot[n].st = "live" => nslot[n] = [k \in NodeFields |-> nslot[n][k]]
NodeIndexes ==
  /\ nodeExists = { n \in NodeIds : nslot[n].st = "live" }
  /\ nodeIdx = { <<nslot[n].lab, n>> : n \in nodeExists }
  /\ propIdx = { PropKey(nslot[n].lab, nslot[n].val, n) : n \in nodeExists }
  /\ counts.nodes = Cardinality(nodeExists)
NodePart == NodesInOrder /\ NodeShapes /\ NodeIndexes /\ UniqueValues

\* The same of the edges.
EdgesInOrder ==
  /\ nextEdge \in Nat \ {0} /\ nextEdge <= MaxEdges + 1
  /\ \A e \in EdgeIds : (eslot[e].st = "unused" <=> e >= nextEdge) /\ eslot[e].st \in {"unused", "live", "dead"}
EdgeShapes ==
  /\ DOMAIN eslot = EdgeIds /\ eslot = [e \in EdgeIds |-> eslot[e]]
  /\ \A e \in EdgeIds : eslot[e].st = "live" => eslot[e] = [k \in EdgeFields |-> eslot[e][k]]
EdgeIndexes ==
  /\ edgeExists = { e \in EdgeIds : eslot[e].st = "live" }
  /\ edgeIdx = { <<eslot[e].lab, e>> : e \in edgeExists }
  /\ pairIdx = SetToBag({ PairKey(e, eslot[e].lab) : e \in edgeExists })
  /\ counts.edges = Cardinality(edgeExists)
EdgePart == EdgesInOrder /\ EdgeShapes /\ EdgeIndexes

CountsAre == counts = [nodes |-> counts.nodes, edges |-> counts.edges]

IndexInv == NodePart /\ EdgePart /\ CountsAre

LEMMA IndexInvServes == IndexInv => IndexesServeConstraints
<1> SUFFICES ASSUME IndexInv PROVE IndexesServeConstraints OBVIOUS
<1>1. counts = [nodes |-> Cardinality(nodeExists), edges |-> Cardinality(edgeExists)]
  BY DEF IndexInv, NodePart, EdgePart, CountsAre, NodeIndexes, EdgeIndexes
<1>2. IndexesAreExact BY <1>1 DEF IndexInv, NodePart, EdgePart, NodeIndexes, EdgeIndexes, IndexesAreExact
<1> QED BY <1>2 DEF IndexInv, NodePart, IndexesServeConstraints

LEMMA LiveNodes ==
  ASSUME NodeIndexes
  PROVE  nodeExists \subseteq NodeIds /\ IsFiniteSet(nodeExists) /\ Cardinality(nodeExists) \in Nat
<1>1. nodeExists \subseteq NodeIds BY DEF NodeIndexes
<1>2. IsFiniteSet(NodeIds) BY StoreBounds, FS_Interval DEF NodeIds
<1>3. IsFiniteSet(nodeExists) BY <1>1, <1>2, FS_Subset
<1> QED BY <1>1, <1>3, FS_CardinalityType

LEMMA LiveEdges ==
  ASSUME EdgeIndexes
  PROVE  edgeExists \subseteq EdgeIds /\ IsFiniteSet(edgeExists) /\ Cardinality(edgeExists) \in Nat
<1>1. edgeExists \subseteq EdgeIds BY DEF EdgeIndexes
<1>2. IsFiniteSet(EdgeIds) BY StoreBounds, FS_Interval DEF EdgeIds
<1>3. IsFiniteSet(edgeExists) BY <1>1, <1>2, FS_Subset
<1> QED BY <1>1, <1>3, FS_CardinalityType

LEMMA IndexInit == Init => IndexInv
<1> SUFFICES ASSUME Init PROVE IndexInv OBVIOUS
<1>1. /\ nslot = [n \in NodeIds |-> Unused] /\ eslot = [e \in EdgeIds |-> Unused] /\ nextNode = 1 /\ nextEdge = 1
      /\ nodeExists = {} /\ edgeExists = {} /\ counts = [nodes |-> 0, edges |-> 0]
      /\ nodeIdx = {} /\ edgeIdx = {} /\ pairIdx = EmptyBag /\ propIdx = {}
  BY DEF Init
<1>2. NodesInOrder BY <1>1, StoreBounds DEF NodesInOrder, Unused, NodeIds
<1>3. EdgesInOrder BY <1>1, StoreBounds DEF EdgesInOrder, Unused, EdgeIds
<1>4. NodeShapes /\ EdgeShapes BY <1>1 DEF NodeShapes, EdgeShapes, Unused
<1>5. EmptyBag = SetToBag({}) BY DEF EmptyBag
<1>6. Cardinality({}) = 0 BY FS_EmptySet
<1>7. nodeExists = { n \in NodeIds : nslot[n].st = "live" } /\ edgeExists = { e \in EdgeIds : eslot[e].st = "live" }
  BY <1>1 DEF Unused
<1>8. { PairKey(e, eslot[e].lab) : e \in edgeExists } = {} BY <1>1
<1>9. NodeIndexes /\ EdgeIndexes BY <1>1, <1>5, <1>6, <1>7, <1>8 DEF NodeIndexes, EdgeIndexes
<1>10. UniqueValues BY <1>1 DEF UniqueValues
<1>11. CountsAre BY <1>1 DEF CountsAre
<1> QED BY <1>2, <1>3, <1>4, <1>9, <1>10, <1>11 DEF IndexInv, NodePart, EdgePart

-----------------------------------------------------------------------------
(* Linking an edge changes no more of a slot than its heads.               *)

MemFields == {"adj", "unlogged", "cache", "tail", "open", "nslot", "pending"}
IsMem(m) == m = [k \in MemFields |-> m[k]]

\* Two states of the slots that differ in heads of live nodes alone.
HeadsApart(a, b) ==
  /\ DOMAIN a = NodeIds /\ a = [n \in NodeIds |-> a[n]]
  /\ \A n \in NodeIds :
       /\ a[n].st = b[n].st
       /\ b[n].st = "live" => /\ a[n] = [k \in NodeFields |-> a[n][k]]
                              /\ a[n].lab = b[n].lab /\ a[n].val = b[n].val

LEMMA PatchKeeps ==
  ASSUME NEW a, NEW b, HeadsApart(a, b), NEW n \in NodeIds, NEW ptr
  PROVE  HeadsApart([a EXCEPT ![n] = PatchHeads(@, ptr)], b)
<1> DEFINE c == [a EXCEPT ![n] = PatchHeads(@, ptr)]
<1>1. DOMAIN c = NodeIds /\ c = [k \in NodeIds |-> c[k]] /\ c[n] = PatchHeads(a[n], ptr) /\ \A k \in NodeIds : k # n => c[k] = a[k]
  BY DEF HeadsApart
<1> HIDE DEF c
<1>2. ASSUME a[n].st = "live" PROVE c[n] = LiveNode(a[n].lab, a[n].val, ptr) BY <1>1, <1>2 DEF PatchHeads
<1>3. ASSUME a[n].st # "live" PROVE c[n] = a[n] BY <1>1, <1>3 DEF PatchHeads
<1>4. ASSUME a[n].st = "live"
      PROVE  c[n].st = "live" /\ c[n].lab = a[n].lab /\ c[n].val = a[n].val /\ c[n] = [k \in NodeFields |-> c[n][k]]
  BY <1>2, <1>4 DEF LiveNode, NodeFields
<1>5. ASSUME NEW k \in NodeIds
      PROVE  /\ c[k].st = b[k].st
             /\ b[k].st = "live" => /\ c[k] = [x \in NodeFields |-> c[k][x]]
                                    /\ c[k].lab = b[k].lab /\ c[k].val = b[k].val
  <2>1. CASE k # n BY <2>1, <1>1 DEF HeadsApart
  <2>2. CASE k = n /\ a[n].st = "live" BY <2>2, <1>4 DEF HeadsApart
  <2>3. CASE k = n /\ a[n].st # "live" BY <2>3, <1>3 DEF HeadsApart
  <2> QED BY <2>1, <2>2, <2>3
<1>6. HeadsApart(c, b) BY <1>1, <1>5 DEF HeadsApart
<1> QED BY <1>6 DEF c

LEMMA ChainKeepsSlots ==
  ASSUME NEW m, IsMem(m), NEW n, NEW d, NEW page, NEW ids
  PROVE  LET r == AppendToDedicatedChain(m, n, d, page, ids)
         IN r = [m |-> r.m, page |-> r.page] /\ IsMem(r.m) /\ r.m.nslot = m.nslot
<1> DEFINE r == AppendToDedicatedChain(m, n, d, page, ids)
<1>1. \E a, u, t, g : r = [m |-> [m EXCEPT !.adj = a, !.unlogged = u, !.tail = t], page |-> g]
  <2> DEFINE head == Len(m.adj) + 1
             whole == WriteAdjacency(m.adj, n, d, ids)
             state == IF m.tail[<<n, d>>] # NoTail THEN m.tail[<<n, d>>] ELSE ReadChainState(m.adj, page)
             grown == AppendChain(m.adj, state, ids)
             ta == [m.tail EXCEPT ![<<n, d>>] = ReadChainState(whole, head)]
             ua == m.unlogged \cup (head + 1)..Len(whole)
             tb == [m.tail EXCEPT ![<<n, d>>] = ChainState(page, grown.pages[page].last, state.total + Len(ids))]
             ub == m.unlogged \ grown.logged
  <2>1. r = IF page = NoPage
            THEN [m |-> [m EXCEPT !.adj = whole, !.tail[<<n, d>>] = ReadChainState(whole, head),
                                  !.unlogged = @ \cup (head + 1)..Len(whole)], page |-> head]
            ELSE [m |-> [m EXCEPT !.adj = grown.pages, !.unlogged = @ \ grown.logged,
                                  !.tail[<<n, d>>] = ChainState(page, grown.pages[page].last, state.total + Len(ids))],
                  page |-> page]
    BY DEF AppendToDedicatedChain
  <2> HIDE DEF head, whole, state, grown, r
  <2>2. CASE page = NoPage
    <3>1. r = [m |-> [m EXCEPT !.adj = whole, !.unlogged = ua, !.tail = ta], page |-> head]
      BY <2>1, <2>2 DEF IsMem, MemFields
    <3> QED BY <3>1
  <2>3. CASE page # NoPage
    <3>1. r = [m |-> [m EXCEPT !.adj = grown.pages, !.unlogged = ub, !.tail = tb], page |-> page]
      BY <2>1, <2>3 DEF IsMem, MemFields
    <3> QED BY <3>1
  <2> QED BY <2>2, <2>3
<1>2. PICK a, u, t, g : r = [m |-> [m EXCEPT !.adj = a, !.unlogged = u, !.tail = t], page |-> g] BY <1>1
<1> HIDE DEF r
<1>3. r = [m |-> r.m, page |-> r.page] /\ IsMem(r.m) /\ r.m.nslot = m.nslot BY <1>2 DEF IsMem, MemFields
<1> QED BY <1>3 DEF r

\* What an append gives back: the state with the same slots, and a page.
Kept(r, m) == r = [m |-> r.m, page |-> r.page] /\ IsMem(r.m) /\ r.m.nslot = m.nslot

LEMMA ChainKept ==
  ASSUME NEW m, IsMem(m), NEW n, NEW d, NEW page, NEW ids
  PROVE  Kept(AppendToDedicatedChain(m, n, d, page, ids), m)
BY ChainKeepsSlots DEF Kept

LEMMA MigrateKept ==
  ASSUME NEW m, IsMem(m), NEW n, NEW d, NEW slab, NEW ids
  PROVE  Kept(Migrate(m, n, d, slab, ids), m)
<1> DEFINE chain == AppendToDedicatedChain(m, n, d, NoPage, ReadSubblock(m.adj[slab], n, d) \o ids)
           r == Migrate(m, n, d, slab, ids)
           a == [chain.m.adj EXCEPT ![slab] = FreeSubblock(@, n, d)]
<1>1. Kept(chain, m) BY ChainKept
<1>2. r = [chain EXCEPT !.m.adj[slab] = FreeSubblock(@, n, d)] BY DEF Migrate
<1> HIDE DEF chain, r
<1>3. r = [m |-> [chain.m EXCEPT !.adj = a], page |-> chain.page] BY <1>1, <1>2 DEF Kept, IsMem, MemFields
<1> HIDE DEF a
<1>4. Kept(r, m) BY <1>1, <1>3 DEF Kept, IsMem, MemFields
<1> QED BY <1>4 DEF r

LEMMA StartKept ==
  ASSUME NEW m, IsMem(m), NEW n, NEW d, NEW ids
  PROVE  Kept(StartSubblock(m, n, d, ids), m)
<1> DEFINE open == m.open[d]
           reuse == open # NoPage /\ SlabCanFit(m.adj[open], Len(ids))
           page == IF reuse THEN open ELSE Len(m.adj) + 1
           pages == IF reuse THEN m.adj ELSE Append(m.adj, EmptySlab)
           a == [pages EXCEPT ![page] = WriteSubblock(@, n, d, ids)]
           o == [m.open EXCEPT ![d] = page]
           r == StartSubblock(m, n, d, ids)
<1>1. r = [m |-> [m EXCEPT !.adj = a, !.open[d] = page], page |-> page] BY DEF StartSubblock
<1> HIDE DEF a, page, pages, r
<1>2. r = [m |-> [m EXCEPT !.adj = a, !.open = o], page |-> page] BY <1>1 DEF IsMem, MemFields
<1> HIDE DEF o
<1>3. Kept(r, m) BY <1>2 DEF Kept, IsMem, MemFields
<1> QED BY <1>3 DEF r

LEMMA AppendKeepsSlots ==
  ASSUME NEW m, IsMem(m), NEW n, NEW d, NEW ids
  PROVE  LET r == AppendAndUpdateCaches(m, n, d, ids) IN IsMem(r) /\ r.nslot = m.nslot
<1> DEFINE ptr == ResolveAdjPointer(m, n)
           page == ptr[d]
           grown == [m |-> [m EXCEPT !.adj[page] = AppendSubblock(@, n, d, ids)], page |-> page]
           r == CASE page # NoPage /\ ~IsSlabPage(m.adj[page]) -> AppendToDedicatedChain(m, n, d, page, ids)
                  [] page # NoPage /\ IsSlabPage(m.adj[page]) ->
                       IF AppendFits(m.adj[page], n, d, Len(ids)) THEN grown ELSE Migrate(m, n, d, page, ids)
                  [] page = NoPage /\ ~FitsInEmptySlab(Len(ids)) -> AppendToDedicatedChain(m, n, d, NoPage, ids)
                  [] OTHER -> StartSubblock(m, n, d, ids)
           all == AppendAndUpdateCaches(m, n, d, ids)
<1>1. all = [r.m EXCEPT !.cache[n] = [ptr EXCEPT ![d] = r.page]] BY DEF AppendAndUpdateCaches
<1>2. Kept(grown, m)
  <2> DEFINE a == [m.adj EXCEPT ![page] = AppendSubblock(@, n, d, ids)]
  <2> HIDE DEF page
  <2>1. grown = [m |-> [m EXCEPT !.adj = a], page |-> page] BY DEF IsMem, MemFields
  <2> HIDE DEF a, grown
  <2> QED BY <2>1 DEF Kept, IsMem, MemFields
<1>3. Kept(AppendToDedicatedChain(m, n, d, page, ids), m) /\ Kept(AppendToDedicatedChain(m, n, d, NoPage, ids), m) BY ChainKept
<1>4. Kept(Migrate(m, n, d, page, ids), m) BY MigrateKept
<1>5. Kept(StartSubblock(m, n, d, ids), m) BY StartKept
<1> HIDE DEF ptr, page, grown, all
<1>6. Kept(r, m)
  <2>1. CASE page # NoPage /\ ~IsSlabPage(m.adj[page]) BY <2>1, <1>3
  <2>2. CASE page # NoPage /\ IsSlabPage(m.adj[page]) BY <2>2, <1>2, <1>4
  <2>3. CASE page = NoPage /\ ~FitsInEmptySlab(Len(ids)) BY <2>3, <1>3
  <2>4. CASE page = NoPage /\ FitsInEmptySlab(Len(ids)) BY <2>4, <1>5
  <2> QED BY <2>1, <2>2, <2>3, <2>4
<1> HIDE DEF r
<1> DEFINE c == [r.m.cache EXCEPT ![n] = [ptr EXCEPT ![d] = r.page]]
<1>7. all = [r.m EXCEPT !.cache = c] BY <1>1, <1>6 DEF Kept, IsMem, MemFields
<1> HIDE DEF c
<1>8. IsMem(all) /\ all.nslot = m.nslot BY <1>6, <1>7 DEF Kept, IsMem, MemFields
<1> QED BY <1>8 DEF all

\* add_edge_to_adjacency, for one list.
LEMMA AddKeepsSlots ==
  ASSUME NEW m, IsMem(m), NEW b, HeadsApart(m.nslot, b), NEW n \in NodeIds, NEW d, NEW e
  PROVE  LET r == AddToAdjacency(m, n, d, e) IN IsMem(r) /\ HeadsApart(r.nslot, b)
<1> DEFINE r == AddToAdjacency(m, n, d, e)
           x == AppendAndUpdateCaches(m, n, d, <<e>>)
<1>1. IsMem(x) /\ x.nslot = m.nslot BY AppendKeepsSlots
<1>2. CASE depth > 0
  <2> DEFINE q == [m.pending EXCEPT ![<<n, d>>] = Append(@, e)]
  <2>1. r = [m EXCEPT !.pending[<<n, d>>] = Append(@, e)] BY <1>2 DEF AddToAdjacency
  <2> HIDE DEF r
  <2>2. r = [m EXCEPT !.pending = q] BY <2>1 DEF IsMem, MemFields
  <2> HIDE DEF q
  <2>3. IsMem(r) /\ r.nslot = m.nslot BY <2>2 DEF IsMem, MemFields
  <2> QED BY <2>3 DEF r
<1>3. CASE ~(depth > 0)
  <2> DEFINE s == [x.nslot EXCEPT ![n] = PatchHeads(@, x.cache[n])]
  <2>1. r = [x EXCEPT !.nslot[n] = PatchHeads(@, x.cache[n])] BY <1>3 DEF AddToAdjacency, PersistPointer
  <2> HIDE DEF r, x
  <2>2. r = [x EXCEPT !.nslot = s] BY <1>1, <2>1 DEF IsMem, MemFields
  <2>3. HeadsApart(s, b) BY <1>1, PatchKeeps
  <2> HIDE DEF s
  <2>4. IsMem(r) /\ r.nslot = s BY <1>1, <2>2 DEF IsMem, MemFields
  <2> QED BY <2>3, <2>4 DEF r
<1> QED BY <1>2, <1>3

-----------------------------------------------------------------------------
(* The nodes, write by write.                                              *)

\* A step that touches no more of the nodes than heads.
LEMMA NodesKept ==
  ASSUME NodePart, HeadsApart(nslot', nslot),
         UNCHANGED <<nextNode, nodeExists, nodeIdx, propIdx>>, counts'.nodes = counts.nodes
  PROVE  NodePart'
<1>1. nextNode' = nextNode /\ nodeExists' = nodeExists /\ nodeIdx' = nodeIdx /\ propIdx' = propIdx OBVIOUS
<1>2. \A n \in NodeIds : nslot'[n].st = nslot[n].st BY DEF HeadsApart
<1>3. NodesInOrder' BY <1>1, <1>2 DEF NodePart, NodesInOrder
<1>4. NodeShapes' BY <1>2 DEF HeadsApart, NodeShapes
<1>5. nodeExists = { n \in NodeIds : nslot[n].st = "live" } BY DEF NodePart, NodeIndexes
<1>6. \A n \in nodeExists : nslot'[n].lab = nslot[n].lab /\ nslot'[n].val = nslot[n].val BY <1>5 DEF HeadsApart
<1>7. nodeExists' = { n \in NodeIds : nslot'[n].st = "live" } BY <1>1, <1>2, <1>5
<1>8. nodeIdx' = { <<nslot'[n].lab, n>> : n \in nodeExists' } BY <1>1, <1>6 DEF NodePart, NodeIndexes
<1>9. propIdx' = { PropKey(nslot'[n].lab, nslot'[n].val, n) : n \in nodeExists' } BY <1>1, <1>6 DEF NodePart, NodeIndexes
<1>10. NodeIndexes' BY <1>1, <1>7, <1>8, <1>9 DEF NodePart, NodeIndexes, PropKey
<1>11. UniqueValues' BY <1>1, <1>6 DEF NodePart, UniqueValues
<1> QED BY <1>3, <1>4, <1>10, <1>11 DEF NodePart

LEMMA NodesSame ==
  ASSUME NodePart, UNCHANGED <<nslot, nextNode, nodeExists, nodeIdx, propIdx>>, counts'.nodes = counts.nodes
  PROVE  NodePart'
<1>1. HeadsApart(nslot', nslot) BY DEF HeadsApart, NodePart, NodeShapes
<1> QED BY <1>1, NodesKept

LEMMA NodeAdded ==
  ASSUME NodePart, CountsAre, NEW l, NEW v, AddNode(l, v)
  PROVE  NodePart' /\ CountsAre' /\ counts'.edges = counts.edges
<1> DEFINE k == nextNode
<1>1. /\ k \in NodeIds /\ nslot' = [nslot EXCEPT ![k] = LiveNode(l, v, NoPtr)] /\ nodeExists' = nodeExists \cup {k}
      /\ nodeIdx' = nodeIdx \cup {<<l, k>>} /\ propIdx' = propIdx \cup {PropKey(l, v, k)}
      /\ counts' = [counts EXCEPT !.nodes = @ + 1] /\ nextNode' = k + 1 /\ CheckUnique(l, v, 0)
  BY DEF AddNode
<1>2. NodesInOrder /\ NodeShapes /\ NodeIndexes /\ UniqueValues BY DEF NodePart
<1>3. /\ DOMAIN nslot' = NodeIds /\ nslot' = [n \in NodeIds |-> nslot'[n]] /\ nslot'[k] = LiveNode(l, v, NoPtr)
      /\ \A n \in NodeIds : n # k => nslot'[n] = nslot[n]
  BY <1>1, <1>2 DEF NodeShapes
<1>4. nslot'[k].st = "live" /\ nslot'[k].lab = l /\ nslot'[k].val = v /\ nslot'[k] = [x \in NodeFields |-> nslot'[k][x]]
  BY <1>3 DEF LiveNode, NodeFields
<1>5. k \in Nat /\ k >= 1 /\ k <= MaxNodes BY <1>1, StoreBounds DEF NodeIds
<1>6. nslot[k].st = "unused" BY <1>1, <1>2, <1>5 DEF NodesInOrder
<1>7. k \notin nodeExists /\ nodeExists \subseteq NodeIds BY <1>2, <1>6 DEF NodeIndexes
<1>8. NodesInOrder'
  <2>1. ASSUME NEW n \in NodeIds
        PROVE  (nslot'[n].st = "unused" <=> n >= k + 1) /\ nslot'[n].st \in {"unused", "live", "dead"}
    <3>1. n \in Nat BY DEF NodeIds
    <3>2. CASE n = k BY <3>2, <1>4, <1>5
    <3>3. CASE n # k BY <3>1, <3>3, <1>3, <1>2, <1>5 DEF NodesInOrder
    <3> QED BY <3>2, <3>3
  <2>2. k + 1 \in Nat \ {0} /\ k + 1 <= MaxNodes + 1 BY <1>5, StoreBounds
  <2> QED BY <2>1, <2>2, <1>1 DEF NodesInOrder
<1>9. NodeShapes'
  <2>1. ASSUME NEW n \in NodeIds, nslot'[n].st = "live" PROVE nslot'[n] = [x \in NodeFields |-> nslot'[n][x]]
    <3>1. CASE n = k BY <3>1, <1>4
    <3>2. CASE n # k BY <3>2, <2>1, <1>3, <1>2 DEF NodeShapes
    <3> QED BY <3>1, <3>2
  <2> QED BY <2>1, <1>3 DEF NodeShapes
<1>10. \A n \in nodeExists : nslot'[n] = nslot[n] BY <1>3, <1>7
<1>11. nodeExists' = { n \in NodeIds : nslot'[n].st = "live" } BY <1>1, <1>2, <1>3, <1>4, <1>6 DEF NodeIndexes
<1>12. nodeIdx' = { <<nslot'[n].lab, n>> : n \in nodeExists' } BY <1>1, <1>2, <1>4, <1>10 DEF NodeIndexes
<1>13. propIdx' = { PropKey(nslot'[n].lab, nslot'[n].val, n) : n \in nodeExists' } BY <1>1, <1>2, <1>4, <1>10 DEF NodeIndexes
<1>14. counts'.nodes = counts.nodes + 1 /\ counts'.edges = counts.edges /\ CountsAre' BY <1>1 DEF CountsAre
<1>15. Cardinality(nodeExists') = Cardinality(nodeExists) + 1
  <2>1. IsFiniteSet(nodeExists) BY <1>2, LiveNodes
  <2> QED BY <2>1, <1>1, <1>7, FS_AddElement
<1>16. NodeIndexes' BY <1>11, <1>12, <1>13, <1>14, <1>15, <1>2 DEF NodeIndexes, PropKey
<1>17. ASSUME NEW a \in nodeExists, l \in UniqueLabels, nslot[a].lab = l, nslot[a].val = v PROVE FALSE
  <2>1. PropKey(l, v, a) \in propIdx BY <1>17, <1>2 DEF NodeIndexes
  <2>2. PropKey(l, v, a).id = 0 BY <2>1, <1>1, <1>17 DEF CheckUnique, PropKey
  <2>3. a \in Nat \ {0} BY <1>7 DEF NodeIds
  <2> QED BY <2>2, <2>3 DEF PropKey
<1>18. UniqueValues'
  <2>1. ASSUME NEW a \in nodeExists', NEW b \in nodeExists', a # b,
               nslot'[a].lab = nslot'[b].lab, nslot'[a].val = nslot'[b].val
        PROVE  nslot'[a].lab \notin UniqueLabels
    <3>1. CASE a \in nodeExists /\ b \in nodeExists BY <2>1, <3>1, <1>2, <1>10 DEF UniqueValues
    <3>2. CASE a = k /\ b \in nodeExists BY <2>1, <3>2, <1>4, <1>10, <1>17
    <3>3. CASE b = k /\ a \in nodeExists BY <2>1, <3>3, <1>4, <1>10, <1>17
    <3> QED BY <2>1, <3>1, <3>2, <3>3, <1>1
  <2> QED BY <2>1 DEF UniqueValues
<1> QED BY <1>8, <1>9, <1>14, <1>16, <1>18 DEF NodePart

LEMMA NodeUpdated ==
  ASSUME NodePart, NEW k \in NodeIds, NEW l, NEW v, NEW ptr, UpdateNode(k, l, v, ptr)
  PROVE  NodePart'
<1>1. /\ k \in nodeExists /\ CheckUnique(l, v, k) /\ nslot' = [nslot EXCEPT ![k] = LiveNode(l, v, ptr)]
      /\ nodeIdx' = (nodeIdx \ {<<nslot[k].lab, k>>}) \cup {<<l, k>>}
      /\ propIdx' = (propIdx \ {PropKey(nslot[k].lab, nslot[k].val, k)}) \cup {PropKey(l, v, k)}
      /\ UNCHANGED <<nextNode, nodeExists, counts>>
  BY DEF UpdateNode
<1>2. NodesInOrder /\ NodeShapes /\ NodeIndexes /\ UniqueValues BY DEF NodePart
<1>3. /\ DOMAIN nslot' = NodeIds /\ nslot' = [n \in NodeIds |-> nslot'[n]] /\ nslot'[k] = LiveNode(l, v, ptr)
      /\ \A n \in NodeIds : n # k => nslot'[n] = nslot[n]
  BY <1>1, <1>2 DEF NodeShapes
<1>4. nslot'[k].st = "live" /\ nslot'[k].lab = l /\ nslot'[k].val = v /\ nslot'[k] = [x \in NodeFields |-> nslot'[k][x]]
  BY <1>3 DEF LiveNode, NodeFields
<1>5. nslot[k].st = "live" /\ nodeExists \subseteq NodeIds BY <1>1, <1>2 DEF NodeIndexes
<1>6. \A n \in NodeIds : nslot'[n].st = nslot[n].st BY <1>3, <1>4, <1>5
<1>7. NodesInOrder' BY <1>1, <1>2, <1>6 DEF NodesInOrder
<1>8. NodeShapes'
  <2>1. ASSUME NEW n \in NodeIds, nslot'[n].st = "live" PROVE nslot'[n] = [x \in NodeFields |-> nslot'[n][x]]
    <3>1. CASE n = k BY <3>1, <1>4
    <3>2. CASE n # k BY <3>2, <2>1, <1>3, <1>2 DEF NodeShapes
    <3> QED BY <3>1, <3>2
  <2> QED BY <2>1, <1>3 DEF NodeShapes
<1>9. \A n \in nodeExists : n # k => nslot'[n] = nslot[n] BY <1>3, <1>5
<1>10. nodeExists' = { n \in NodeIds : nslot'[n].st = "live" } BY <1>1, <1>2, <1>6 DEF NodeIndexes
<1>11. nodeIdx' = { <<nslot'[n].lab, n>> : n \in nodeExists' } BY <1>1, <1>2, <1>4, <1>9 DEF NodeIndexes
<1>12. propIdx' = { PropKey(nslot'[n].lab, nslot'[n].val, n) : n \in nodeExists' }
  BY <1>1, <1>2, <1>4, <1>9 DEF NodeIndexes, PropKey
<1>13. NodeIndexes' BY <1>1, <1>2, <1>10, <1>11, <1>12 DEF NodeIndexes, PropKey
<1>14. ASSUME NEW a \in nodeExists, a # k, l \in UniqueLabels, nslot[a].lab = l, nslot[a].val = v PROVE FALSE
  <2>1. PropKey(l, v, a) \in propIdx BY <1>14, <1>2 DEF NodeIndexes
  <2>2. PropKey(l, v, a).id = k BY <2>1, <1>1, <1>14 DEF CheckUnique, PropKey
  <2> QED BY <2>2, <1>14 DEF PropKey
<1>15. UniqueValues'
  <2>1. ASSUME NEW a \in nodeExists, NEW b \in nodeExists, a # b,
               nslot'[a].lab = nslot'[b].lab, nslot'[a].val = nslot'[b].val
        PROVE  nslot'[a].lab \notin UniqueLabels
    <3>1. CASE a # k /\ b # k BY <2>1, <3>1, <1>2, <1>9 DEF UniqueValues
    <3>2. CASE a = k BY <2>1, <3>2, <1>4, <1>9, <1>14
    <3>3. CASE b = k BY <2>1, <3>3, <1>4, <1>9, <1>14
    <3> QED BY <3>1, <3>2, <3>3
  <2> QED BY <2>1, <1>1 DEF UniqueValues
<1> QED BY <1>7, <1>8, <1>13, <1>15 DEF NodePart

LEMMA NodeRemoved ==
  ASSUME NodePart, NEW k \in nodeExists, nslot' = [nslot EXCEPT ![k] = Dead(@)],
         nodeExists' = nodeExists \ {k}, nodeIdx' = nodeIdx \ {<<nslot[k].lab, k>>},
         propIdx' = propIdx \ {PropKey(nslot[k].lab, nslot[k].val, k)},
         counts'.nodes = counts.nodes - 1, nextNode' = nextNode
  PROVE  NodePart'
<1>2. NodesInOrder /\ NodeShapes /\ NodeIndexes /\ UniqueValues BY DEF NodePart
<1>3. k \in NodeIds /\ nslot[k].st = "live" /\ nodeExists \subseteq NodeIds BY <1>2 DEF NodeIndexes
<1>4. /\ DOMAIN nslot' = NodeIds /\ nslot' = [n \in NodeIds |-> nslot'[n]] /\ nslot'[k] = Dead(nslot[k])
      /\ \A n \in NodeIds : n # k => nslot'[n] = nslot[n]
  BY <1>2, <1>3 DEF NodeShapes
<1>5. nslot'[k].st = "dead"
  <2>1. nslot[k] = [x \in NodeFields |-> nslot[k][x]] BY <1>2, <1>3 DEF NodeShapes
  <2> QED BY <2>1, <1>4 DEF Dead, NodeFields
<1>6. NodesInOrder'
  <2>1. ASSUME NEW n \in NodeIds
        PROVE  (nslot'[n].st = "unused" <=> n >= nextNode) /\ nslot'[n].st \in {"unused", "live", "dead"}
    <3>1. CASE n = k BY <3>1, <1>2, <1>3, <1>5 DEF NodesInOrder
    <3>2. CASE n # k BY <3>2, <1>4, <1>2 DEF NodesInOrder
    <3> QED BY <3>1, <3>2
  <2> QED BY <2>1, <1>2 DEF NodesInOrder
<1>7. NodeShapes' BY <1>2, <1>4, <1>5 DEF NodeShapes
<1>8. \A n \in nodeExists' : nslot'[n] = nslot[n] /\ n \in nodeExists /\ n # k BY <1>3, <1>4
<1>9. nodeExists' = { n \in NodeIds : nslot'[n].st = "live" } BY <1>2, <1>4, <1>5 DEF NodeIndexes
<1>10. nodeIdx' = { <<nslot'[n].lab, n>> : n \in nodeExists' } BY <1>2, <1>8 DEF NodeIndexes
<1>11. propIdx' = { PropKey(nslot'[n].lab, nslot'[n].val, n) : n \in nodeExists' } BY <1>2, <1>8 DEF NodeIndexes, PropKey
<1>12. Cardinality(nodeExists') = Cardinality(nodeExists) - 1
  <2>1. IsFiniteSet(nodeExists) BY <1>2, LiveNodes
  <2> QED BY <2>1, FS_RemoveElement
<1>13. NodeIndexes' BY <1>2, <1>9, <1>10, <1>11, <1>12 DEF NodeIndexes, PropKey
<1>14. UniqueValues' BY <1>2, <1>8 DEF UniqueValues
<1> QED BY <1>6, <1>7, <1>13, <1>14 DEF NodePart

-----------------------------------------------------------------------------
(* The edges, write by write.                                              *)

LEMMA EdgesSame ==
  ASSUME EdgePart, UNCHANGED <<eslot, nextEdge, edgeExists, edgeIdx, pairIdx>>, counts'.edges = counts.edges
  PROVE  EdgePart'
<1>1. eslot' = eslot /\ nextEdge' = nextEdge /\ edgeExists' = edgeExists /\ edgeIdx' = edgeIdx /\ pairIdx' = pairIdx OBVIOUS
<1>2. EdgesInOrder' /\ EdgeShapes' BY <1>1 DEF EdgePart, EdgesInOrder, EdgeShapes
<1>3. EdgeIndexes' BY <1>1 DEF EdgePart, EdgeIndexes, PairKey
<1> QED BY <1>2, <1>3 DEF EdgePart

\* Bags in which everything is once.
LEMMA OnceMore ==
  ASSUME NEW S, NEW x, x \notin S
  PROVE  SetToBag(S) (+) SetToBag({x}) = SetToBag(S \cup {x})
BY DEF SetToBag, (+)

LEMMA EdgeAdded ==
  ASSUME EdgePart, NEW a, NEW b, NEW l, nextEdge \in EdgeIds,
         eslot' = [eslot EXCEPT ![nextEdge] = LiveEdge(a, b, l)],
         edgeExists' = edgeExists \cup {nextEdge}, edgeIdx' = edgeIdx \cup {<<l, nextEdge>>},
         pairIdx' = pairIdx (+) SetToBag({<<a, b, l, nextEdge>>}),
         counts'.edges = counts.edges + 1, nextEdge' = nextEdge + 1
  PROVE  EdgePart'
<1> DEFINE k == nextEdge
<1>2. EdgesInOrder /\ EdgeShapes /\ EdgeIndexes BY DEF EdgePart
<1>3. /\ DOMAIN eslot' = EdgeIds /\ eslot' = [e \in EdgeIds |-> eslot'[e]] /\ eslot'[k] = LiveEdge(a, b, l)
      /\ \A e \in EdgeIds : e # k => eslot'[e] = eslot[e]
  BY <1>2 DEF EdgeShapes
<1>4. /\ eslot'[k].st = "live" /\ eslot'[k].src = a /\ eslot'[k].tgt = b /\ eslot'[k].lab = l
      /\ eslot'[k] = [x \in EdgeFields |-> eslot'[k][x]]
  BY <1>3 DEF LiveEdge, EdgeFields
<1>5. k \in Nat /\ k >= 1 /\ k <= MaxEdges BY StoreBounds DEF EdgeIds
<1>6. eslot[k].st = "unused" BY <1>2, <1>5 DEF EdgesInOrder
<1>7. k \notin edgeExists /\ edgeExists \subseteq EdgeIds BY <1>2, <1>6 DEF EdgeIndexes
<1>8. EdgesInOrder'
  <2>1. ASSUME NEW e \in EdgeIds
        PROVE  (eslot'[e].st = "unused" <=> e >= k + 1) /\ eslot'[e].st \in {"unused", "live", "dead"}
    <3>1. e \in Nat BY DEF EdgeIds
    <3>2. CASE e = k BY <3>2, <1>4, <1>5
    <3>3. CASE e # k BY <3>1, <3>3, <1>3, <1>2, <1>5 DEF EdgesInOrder
    <3> QED BY <3>2, <3>3
  <2>2. k + 1 \in Nat \ {0} /\ k + 1 <= MaxEdges + 1 BY <1>5, StoreBounds
  <2> QED BY <2>1, <2>2 DEF EdgesInOrder
<1>9. EdgeShapes'
  <2>1. ASSUME NEW e \in EdgeIds, eslot'[e].st = "live" PROVE eslot'[e] = [x \in EdgeFields |-> eslot'[e][x]]
    <3>1. CASE e = k BY <3>1, <1>4
    <3>2. CASE e # k BY <3>2, <2>1, <1>3, <1>2 DEF EdgeShapes
    <3> QED BY <3>1, <3>2
  <2> QED BY <2>1, <1>3 DEF EdgeShapes
<1>10. \A e \in edgeExists : eslot'[e] = eslot[e] BY <1>3, <1>7
<1>11. edgeExists' = { e \in EdgeIds : eslot'[e].st = "live" } BY <1>2, <1>3, <1>4, <1>6 DEF EdgeIndexes
<1>12. edgeIdx' = { <<eslot'[e].lab, e>> : e \in edgeExists' } BY <1>2, <1>4, <1>10 DEF EdgeIndexes
<1> DEFINE Key(e) == <<eslot'[e].src, eslot'[e].tgt, eslot'[e].lab, e>>
           old == { PairKey(e, eslot[e].lab) : e \in edgeExists }
           new == <<a, b, l, k>>
<1>13. pairIdx' = SetToBag({ Key(e) : e \in edgeExists' })
  <2>1. old = { Key(e) : e \in edgeExists } BY <1>10 DEF PairKey
  <2>2. Key(k) = new BY <1>4
  <2>3. new \notin old
    <3>1. \A e \in edgeExists : PairKey(e, eslot[e].lab) # new BY <1>7 DEF PairKey
    <3> QED BY <3>1
  <2>4. pairIdx = SetToBag(old) BY <1>2 DEF EdgeIndexes
  <2> HIDE DEF old, new, Key
  <2>5. { Key(e) : e \in edgeExists' } = old \cup {new} BY <2>1, <2>2
  <2>6. SetToBag(old) (+) SetToBag({new}) = SetToBag(old \cup {new}) BY <2>3, OnceMore
  <2> QED BY <2>4, <2>5, <2>6 DEF new
<1>14. Cardinality(edgeExists') = Cardinality(edgeExists) + 1
  <2>1. IsFiniteSet(edgeExists) BY <1>2, LiveEdges
  <2> QED BY <2>1, <1>7, FS_AddElement
<1>15. EdgeIndexes' BY <1>2, <1>11, <1>12, <1>13, <1>14 DEF EdgeIndexes, PairKey
<1> QED BY <1>8, <1>9, <1>15 DEF EdgePart

LEMMA OnceLess ==
  ASSUME NEW S, NEW T, NEW B, B = SetToBag(S), T \subseteq S
  PROVE  DOMAIN B = S /\ [k \in T |-> B[k]] = SetToBag(T)
BY DEF SetToBag

LEMMA EdgeUpdated ==
  ASSUME EdgePart, NEW k \in EdgeIds, NEW l, UpdateEdge(k, l)
  PROVE  EdgePart'
<1> DEFINE old == eslot[k].lab
<1>1. /\ k \in edgeExists /\ edgeIdx' = (edgeIdx \ {<<old, k>>}) \cup {<<l, k>>}
      /\ pairIdx' = IF l = old THEN pairIdx
                    ELSE [ q \in DOMAIN pairIdx \ {PairKey(k, old)} |-> pairIdx[q] ] (+) SetToBag({PairKey(k, l)})
      /\ eslot' = [eslot EXCEPT ![k].lab = l]
      /\ UNCHANGED <<edgeExists, counts, nextEdge>>
  BY DEF UpdateEdge
<1>2. EdgesInOrder /\ EdgeShapes /\ EdgeIndexes BY DEF EdgePart
<1>3. eslot[k].st = "live" /\ edgeExists \subseteq EdgeIds BY <1>1, <1>2 DEF EdgeIndexes
<1>4. eslot[k] = [x \in EdgeFields |-> eslot[k][x]] BY <1>2, <1>3 DEF EdgeShapes
<1>5. /\ DOMAIN eslot' = EdgeIds /\ eslot' = [e \in EdgeIds |-> eslot'[e]] /\ eslot'[k] = [eslot[k] EXCEPT !.lab = l]
      /\ \A e \in EdgeIds : e # k => eslot'[e] = eslot[e]
  BY <1>1, <1>2 DEF EdgeShapes
<1>6. /\ eslot'[k].st = "live" /\ eslot'[k].src = eslot[k].src /\ eslot'[k].tgt = eslot[k].tgt /\ eslot'[k].lab = l
      /\ eslot'[k] = [x \in EdgeFields |-> eslot'[k][x]]
  BY <1>4, <1>5, <1>3 DEF EdgeFields
<1>7. \A e \in EdgeIds : eslot'[e].st = eslot[e].st BY <1>3, <1>5, <1>6
<1>8. EdgesInOrder' BY <1>1, <1>2, <1>7 DEF EdgesInOrder
<1>9. EdgeShapes'
  <2>1. ASSUME NEW e \in EdgeIds, eslot'[e].st = "live" PROVE eslot'[e] = [x \in EdgeFields |-> eslot'[e][x]]
    <3>1. CASE e = k BY <3>1, <1>6
    <3>2. CASE e # k BY <3>2, <2>1, <1>5, <1>2 DEF EdgeShapes
    <3> QED BY <3>1, <3>2
  <2> QED BY <2>1, <1>5 DEF EdgeShapes
<1>10. \A e \in edgeExists : e # k => eslot'[e] = eslot[e] BY <1>3, <1>5
<1>11. edgeExists' = { e \in EdgeIds : eslot'[e].st = "live" } BY <1>1, <1>2, <1>7 DEF EdgeIndexes
<1>12. edgeIdx' = { <<eslot'[e].lab, e>> : e \in edgeExists' } BY <1>1, <1>2, <1>6, <1>10 DEF EdgeIndexes
<1> DEFINE Key(e) == <<eslot'[e].src, eslot'[e].tgt, eslot'[e].lab, e>>
           was == { PairKey(e, eslot[e].lab) : e \in edgeExists }
           wasKey == PairKey(k, old)
           newKey == PairKey(k, l)
           left == was \ {wasKey}
<1>13. pairIdx' = SetToBag({ Key(e) : e \in edgeExists' })
  <2>0. pairIdx = SetToBag(was) BY <1>2 DEF EdgeIndexes
  <2>1. Key(k) = newKey BY <1>6 DEF PairKey
  <2>2. \A e \in edgeExists : e # k => Key(e) = PairKey(e, eslot[e].lab) BY <1>10 DEF PairKey
  <2>3. CASE l = old
    <3>1. { Key(e) : e \in edgeExists } = was BY <2>1, <2>2, <2>3
    <3> QED BY <2>0, <2>3, <3>1, <1>1
  <2>4. CASE l # old
    <3>1. left = { Key(e) : e \in edgeExists \ {k} }
      <4>1. \A e \in edgeExists : e # k => PairKey(e, eslot[e].lab) # wasKey BY DEF PairKey
      <4> HIDE DEF Key, wasKey
      <4>2. left = { PairKey(e, eslot[e].lab) : e \in edgeExists \ {k} } BY <4>1 DEF wasKey
      <4> QED BY <2>2, <4>2
    <3>2. newKey \notin left
      <4>1. \A e \in edgeExists \ {k} : Key(e) # newKey BY DEF PairKey
      <4> HIDE DEF Key, newKey, left
      <4> QED BY <3>1, <4>1
    <3> HIDE DEF was, wasKey, newKey, Key
    <3>3. { Key(e) : e \in edgeExists' } = left \cup {newKey}
      <4> HIDE DEF left
      <4> QED BY <1>1, <2>1, <3>1
    <3>4. DOMAIN pairIdx = was /\ [ q \in left |-> pairIdx[q] ] = SetToBag(left) BY <2>0, OnceLess
    <3>5. pairIdx' = [ q \in left |-> pairIdx[q] ] (+) SetToBag({newKey}) BY <1>1, <2>4, <3>4 DEF wasKey, newKey
    <3> HIDE DEF left
    <3>6. SetToBag(left) (+) SetToBag({newKey}) = SetToBag(left \cup {newKey}) BY <3>2, OnceMore
    <3> QED BY <3>3, <3>4, <3>5, <3>6
  <2> QED BY <2>3, <2>4
<1>14. EdgeIndexes' BY <1>1, <1>2, <1>11, <1>12, <1>13 DEF EdgeIndexes, PairKey
<1> QED BY <1>8, <1>9, <1>14 DEF EdgePart

LEMMA EdgesDropped ==
  ASSUME EdgePart, NEW es, es \subseteq edgeExists, DropEdges(es),
         counts'.edges = counts.edges - Cardinality(es), nextEdge' = nextEdge
  PROVE  EdgePart'
<1>1. /\ eslot' = [e \in EdgeIds |-> IF e \in es THEN Dead(eslot[e]) ELSE eslot[e]]
      /\ edgeExists' = edgeExists \ es /\ edgeIdx' = { k \in edgeIdx : k[2] \notin es }
      /\ pairIdx' = [ k \in { q \in DOMAIN pairIdx : q[4] \notin es } |-> pairIdx[k] ]
  BY DEF DropEdges
<1>2. EdgesInOrder /\ EdgeShapes /\ EdgeIndexes BY DEF EdgePart
<1>3. edgeExists \subseteq EdgeIds /\ \A e \in es : e \in EdgeIds /\ eslot[e].st = "live" BY <1>2 DEF EdgeIndexes
<1>4. DOMAIN eslot' = EdgeIds /\ eslot' = [e \in EdgeIds |-> eslot'[e]] BY <1>1
<1>5. \A e \in EdgeIds : e \notin es => eslot'[e] = eslot[e] BY <1>1
<1>6. \A e \in es : eslot'[e].st = "dead"
  <2> SUFFICES ASSUME NEW e \in es PROVE eslot'[e].st = "dead" OBVIOUS
  <2>1. eslot[e] = [x \in EdgeFields |-> eslot[e][x]] BY <1>2, <1>3 DEF EdgeShapes
  <2>2. eslot'[e] = Dead(eslot[e]) BY <1>1, <1>3
  <2> QED BY <2>1, <2>2 DEF Dead, EdgeFields
<1>7. EdgesInOrder'
  <2>1. ASSUME NEW e \in EdgeIds
        PROVE  (eslot'[e].st = "unused" <=> e >= nextEdge) /\ eslot'[e].st \in {"unused", "live", "dead"}
    <3>1. CASE e \in es BY <3>1, <1>2, <1>3, <1>6 DEF EdgesInOrder
    <3>2. CASE e \notin es BY <3>2, <1>5, <1>2 DEF EdgesInOrder
    <3> QED BY <3>1, <3>2
  <2> QED BY <2>1, <1>2 DEF EdgesInOrder
<1>8. EdgeShapes' BY <1>2, <1>4, <1>5, <1>6 DEF EdgeShapes
<1>9. \A e \in edgeExists' : eslot'[e] = eslot[e] /\ e \in edgeExists /\ e \notin es BY <1>1, <1>3, <1>5
<1>10. edgeExists' = { e \in EdgeIds : eslot'[e].st = "live" } BY <1>1, <1>2, <1>5, <1>6 DEF EdgeIndexes
<1>11. edgeIdx' = { <<eslot'[e].lab, e>> : e \in edgeExists' }
  <2>1. edgeIdx = { <<eslot[e].lab, e>> : e \in edgeExists } BY <1>2 DEF EdgeIndexes
  <2>2. \A e \in edgeExists : <<eslot[e].lab, e>>[2] = e OBVIOUS
  <2>3. \A e \in edgeExists' : <<eslot'[e].lab, e>> = <<eslot[e].lab, e>> BY <1>9
  <2>4. edgeIdx' = { <<eslot[e].lab, e>> : e \in edgeExists' } BY <1>1, <2>1, <2>2
  <2> QED BY <2>3, <2>4
<1> DEFINE was == { PairKey(e, eslot[e].lab) : e \in edgeExists }
           Key(e) == <<eslot'[e].src, eslot'[e].tgt, eslot'[e].lab, e>>
           left == { q \in was : q[4] \notin es }
<1>12. pairIdx' = SetToBag({ Key(e) : e \in edgeExists' })
  <2>1. pairIdx = SetToBag(was) BY <1>2 DEF EdgeIndexes
  <2>2. left = { Key(e) : e \in edgeExists' }
    <3>1. \A e \in edgeExists : PairKey(e, eslot[e].lab)[4] = e BY DEF PairKey
    <3>2. \A e \in edgeExists' : Key(e) = PairKey(e, eslot[e].lab) BY <1>9 DEF PairKey
    <3> HIDE DEF Key
    <3> QED BY <3>1, <3>2, <1>1
  <2> HIDE DEF was, Key
  <2>3. left \subseteq was OBVIOUS
  <2>4. DOMAIN pairIdx = was /\ [ q \in left |-> pairIdx[q] ] = SetToBag(left) BY <2>1, <2>3, OnceLess
  <2> QED BY <1>1, <2>2, <2>4
<1>13. Cardinality(edgeExists') = Cardinality(edgeExists) - Cardinality(es)
  <2>1. IsFiniteSet(edgeExists) BY <1>2, LiveEdges
  <2>2. edgeExists \cap es = es OBVIOUS
  <2>3. Cardinality(edgeExists \ es) = Cardinality(edgeExists) - Cardinality(edgeExists \cap es) BY <2>1, FS_Difference
  <2> QED BY <1>1, <2>2, <2>3
<1>14. EdgeIndexes' BY <1>2, <1>10, <1>11, <1>12, <1>13 DEF EdgeIndexes, PairKey
<1> QED BY <1>7, <1>8, <1>14 DEF EdgePart

-----------------------------------------------------------------------------
(* The scan of a clean opening, which reads as many slots as are used.     *)

\* A set of naturals with a bound has a largest element.
LEMMA LargestBelow ==
  ASSUME NEW T, T \subseteq Nat, T # {}, NEW k \in Nat, \A x \in T : x <= k
  PROVE  \E x \in T : \A y \in T : x >= y
<1> DEFINE U == { k - x : x \in T }
<1>1. U \subseteq Nat /\ U # {}
  <2>1. PICK t \in T : TRUE OBVIOUS
  <2>2. k - t \in U OBVIOUS
  <2> QED BY <2>2
<1>2. \A x, y \in Nat : <<x, y>> \in OpToRel(<, Nat) <=> x < y BY DEF OpToRel
<1> HIDE DEF U
<1>3. \E u \in U : \A v \in U : ~ (<<v, u>> \in OpToRel(<, Nat)) BY <1>1, NatLessThanWellFounded, WFMin
<1>4. PICK u \in U : \A v \in U : ~ (<<v, u>> \in OpToRel(<, Nat)) BY <1>3, Zenon
<1>5. \A v \in U : ~ (v < u) BY <1>1, <1>2, <1>4, Zenon
<1>6. PICK x \in T : u = k - x BY DEF U
<1>7. ASSUME NEW y \in T PROVE x >= y
  <2>1. ~ (k - y < k - x) BY <1>5, <1>6 DEF U
  <2> QED BY <2>1
<1> QED BY <1>7

\* The next id after an opening: the one that was flushed, since no live record
\* has a larger one.
LEMMA NextIdKept ==
  ASSUME NEW S, NEW k \in Nat \ {0}, \A x \in S : x \in Nat /\ x < k
  PROVE  Max({k, Max({0} \cup S) + 1}) = k
<1> DEFINE T == {0} \cup S
           top == Max(T)
<1>1. T \subseteq Nat /\ T # {} /\ \A x \in T : x <= k OBVIOUS
<1>2. \E x \in T : \A y \in T : x >= y BY <1>1, LargestBelow
<1>3. top \in T BY <1>2 DEF Max
<1>4. top \in Nat /\ top < k BY <1>3
<1> HIDE DEF top
<1> DEFINE U == {k, top + 1}
<1>5. k \in U /\ \A y \in U : k >= y BY <1>4
<1>6. \A x \in U : (\A y \in U : x >= y) => x = k BY <1>4
<1> HIDE DEF U
<1>7. Max(U) = k BY <1>5, <1>6 DEF Max
<1> QED BY <1>7 DEF U, top

\* As many slots as are used are the slots before the next id.
LEMMA ScanIsWhole ==
  ASSUME NEW N \in Nat, NEW k \in Nat \ {0}, k <= N + 1, NEW slots, DOMAIN slots = 1..N,
         \A i \in 1..N : slots[i].st = "unused" <=> i >= k
  PROVE  ScannedSlots(slots) = 1..(k - 1)
<1>1. { i \in DOMAIN slots : slots[i].st # "unused" } = 1..(k - 1) OBVIOUS
<1>2. Cardinality(1..(k - 1)) = k - 1
  <2>1. 1 \in Int /\ k - 1 \in Int /\ 1 <= k - 1 + 1 OBVIOUS
  <2>2. Cardinality(1..(k - 1)) = IF 1 > k - 1 THEN 0 ELSE (k - 1) - 1 + 1 BY <2>1, FS_Interval
  <2> QED BY <2>2
<1> QED BY <1>1, <1>2 DEF ScannedSlots

LEMMA Reopened ==
  ASSUME IndexInv, CloseAndOpen
  PROVE  IndexInv'
<1> DEFINE nodes == { n \in ScannedSlots(nslot) : nslot[n].st = "live" }
           edges == { e \in ScannedSlots(eslot) : eslot[e].st = "live" }
<1>0. /\ NodesInOrder /\ NodeShapes /\ NodeIndexes /\ UniqueValues
      /\ EdgesInOrder /\ EdgeShapes /\ EdgeIndexes
  BY DEF IndexInv, NodePart, EdgePart
<1>1. /\ nslot' = nslot /\ eslot' = eslot /\ file' = FlushedFile
      /\ Rebuild(ScannedSlots(nslot), ScannedSlots(eslot), adj, file'.index)
  BY DEF CloseAndOpen
<1>2. file'.node = nextNode /\ file'.edge = nextEdge /\ file'.index = [ok |-> TRUE, nodes |-> nodeIdx, edges |-> edgeIdx]
  BY <1>1 DEF FlushedFile
<1>3. file'.index # NoIndex /\ file'.index.nodes = nodeIdx /\ file'.index.edges = edgeIdx BY <1>2 DEF NoIndex
<1>4. /\ nodeExists' = nodes /\ edgeExists' = edges
      /\ counts' = [nodes |-> Cardinality(nodes), edges |-> Cardinality(edges)]
      /\ nextNode' = Max({nextNode, Max({0} \cup nodes) + 1}) /\ nextEdge' = Max({nextEdge, Max({0} \cup edges) + 1})
      /\ propIdx' = { PropKey(nslot[n].lab, nslot[n].val, n) : n \in nodes }
      /\ nodeIdx' = nodeIdx /\ edgeIdx' = edgeIdx
      /\ pairIdx' = SetToBag({ PairKey(e, eslot[e].lab) : e \in edges })
  BY <1>1, <1>2, <1>3 DEF Rebuild
<1>5. nodes = nodeExists
  <2>1. ScannedSlots(nslot) = 1..(nextNode - 1)
    BY <1>0, StoreBounds, ScanIsWhole DEF NodesInOrder, NodeShapes, NodeIds
  <2> QED BY <2>1, <1>0, StoreBounds DEF NodesInOrder, NodeIndexes, NodeIds
<1>6. edges = edgeExists
  <2>1. ScannedSlots(eslot) = 1..(nextEdge - 1)
    BY <1>0, StoreBounds, ScanIsWhole DEF EdgesInOrder, EdgeShapes, EdgeIds
  <2> QED BY <2>1, <1>0, StoreBounds DEF EdgesInOrder, EdgeIndexes, EdgeIds
<1> HIDE DEF nodes, edges
<1>7. nextNode' = nextNode
  <2>2. \A x \in nodeExists : x \in Nat /\ x < nextNode BY <1>0 DEF NodeIndexes, NodesInOrder, NodeIds
  <2>3. nextNode \in Nat \ {0} BY <1>0 DEF NodesInOrder
  <2> QED BY <1>4, <1>5, <2>2, <2>3, NextIdKept
<1>8. nextEdge' = nextEdge
  <2>2. \A x \in edgeExists : x \in Nat /\ x < nextEdge BY <1>0 DEF EdgeIndexes, EdgesInOrder, EdgeIds
  <2>3. nextEdge \in Nat \ {0} BY <1>0 DEF EdgesInOrder
  <2> QED BY <1>4, <1>6, <2>2, <2>3, NextIdKept
<1>9. counts'.nodes = counts.nodes /\ counts'.edges = counts.edges /\ CountsAre'
  BY <1>0, <1>4, <1>5, <1>6 DEF NodeIndexes, EdgeIndexes, CountsAre
<1>10. propIdx' = propIdx /\ pairIdx' = pairIdx BY <1>0, <1>4, <1>5, <1>6 DEF NodeIndexes, EdgeIndexes
<1>11. NodePart' BY <1>1, <1>4, <1>5, <1>7, <1>9, <1>10, NodesSame DEF IndexInv
<1>12. EdgePart' BY <1>1, <1>4, <1>6, <1>8, <1>9, <1>10, EdgesSame DEF IndexInv
<1> QED BY <1>9, <1>11, <1>12 DEF IndexInv

-----------------------------------------------------------------------------
(* Every step.                                                             *)

\* A batch ends: the heads of the nodes that waited are patched.
LEMMA BatchEnded ==
  ASSUME NodePart, EndBatch
  PROVE  HeadsApart(nslot', nslot)
<1>0. NodeShapes BY DEF NodePart
<1>1. CASE depth > 1
  <2>1. nslot' = nslot BY <1>1 DEF EndBatch
  <2> QED BY <2>1, <1>0 DEF HeadsApart, NodeShapes
<1>2. CASE ~(depth > 1)
  <2> DEFINE keys == SetToSeq({ k \in Keys : pending[k] # <<>> })
             linked == FoldLeft(LAMBDA m, k : AppendAndUpdateCaches(m, k[1], k[2], m.pending[k]), Mem, keys)
             waited(n) == \E d \in Dirs : pending[<<n, d>>] # <<>>
  <2>1. nslot' = [n \in NodeIds |-> IF waited(n) THEN PatchHeads(nslot[n], linked.cache[n]) ELSE nslot[n]]
    BY <1>2 DEF EndBatch, FlushPending
  <2> HIDE DEF linked, waited
  <2>2. DOMAIN nslot' = NodeIds /\ nslot' = [n \in NodeIds |-> nslot'[n]] BY <2>1
  <2>3. ASSUME NEW n \in NodeIds
        PROVE  /\ nslot'[n].st = nslot[n].st
               /\ nslot[n].st = "live" => /\ nslot'[n] = [k \in NodeFields |-> nslot'[n][k]]
                                          /\ nslot'[n].lab = nslot[n].lab /\ nslot'[n].val = nslot[n].val
    <3>1. CASE nslot'[n] = nslot[n] BY <3>1, <1>0 DEF NodeShapes
    <3>2. CASE nslot'[n] = PatchHeads(nslot[n], linked.cache[n]) /\ nslot[n].st = "live"
      <4>1. nslot'[n] = LiveNode(nslot[n].lab, nslot[n].val, linked.cache[n]) BY <3>2 DEF PatchHeads
      <4> QED BY <3>2, <4>1 DEF LiveNode, NodeFields
    <3>3. CASE nslot'[n] = PatchHeads(nslot[n], linked.cache[n]) /\ nslot[n].st # "live"
      BY <3>3 DEF PatchHeads
    <3> QED BY <3>1, <3>2, <3>3, <2>1
  <2> QED BY <2>2, <2>3 DEF HeadsApart
<1> QED BY <1>1, <1>2

LEMMA EdgeLinked ==
  ASSUME NodePart, NEW a \in NodeIds, NEW b \in NodeIds, NEW l, AddEdge(a, b, l)
  PROVE  HeadsApart(nslot', nslot)
<1> DEFINE x == AddToAdjacency(Mem, a, "out", nextEdge)
           m == AddToAdjacency(x, b, "in", nextEdge)
<1>1. nslot' = m.nslot BY DEF AddEdge
<1>2. IsMem(Mem) /\ Mem.nslot = nslot BY DEF Mem, IsMem, MemFields
<1>3. HeadsApart(Mem.nslot, nslot) BY <1>2 DEF HeadsApart, NodePart, NodeShapes
<1>4. IsMem(x) /\ HeadsApart(x.nslot, nslot) BY <1>2, <1>3, AddKeepsSlots
<1> HIDE DEF x
<1>5. HeadsApart(m.nslot, nslot) BY <1>4, AddKeepsSlots
<1> QED BY <1>1, <1>5

LEMMA IndexNext == IndexInv /\ [Next]_vars => IndexInv'
<1> SUFFICES ASSUME IndexInv, [Next]_vars PROVE IndexInv' OBVIOUS
<1>0. NodePart /\ EdgePart /\ CountsAre /\ NodeIndexes BY DEF IndexInv, NodePart
<1>1. ASSUME NEW l, NEW v, AddNode(l, v) PROVE IndexInv'
  <2>1. NodePart' /\ CountsAre' /\ counts'.edges = counts.edges BY <1>0, <1>1, NodeAdded
  <2>2. UNCHANGED <<eslot, nextEdge, edgeExists, edgeIdx, pairIdx>> BY <1>1 DEF AddNode
  <2> QED BY <1>0, <2>1, <2>2, EdgesSame DEF IndexInv
<1>2. ASSUME NEW n \in NodeIds, NEW l, NEW v, NEW ptr, UpdateNode(n, l, v, ptr) PROVE IndexInv'
  <2>1. NodePart' BY <1>0, <1>2, NodeUpdated
  <2>2. UNCHANGED <<eslot, nextEdge, edgeExists, edgeIdx, pairIdx>> /\ counts' = counts BY <1>2 DEF UpdateNode
  <2>3. EdgePart' BY <1>0, <2>2, EdgesSame
  <2> QED BY <1>0, <2>1, <2>2, <2>3 DEF IndexInv, CountsAre
<1>3. ASSUME NEW n \in NodeIds, RemoveNode(n) PROVE IndexInv'
  <2> DEFINE ptr == ResolveAdjPointer(Mem, n)
             linked == UNION { ToSet(ReadAdjEdgeIds(Mem, ptr[d], n, d)) : d \in { x \in Dirs : ptr[x] # NoPage } }
             es == linked \cap edgeExists
  <2>1. /\ n \in nodeExists /\ nslot' = [nslot EXCEPT ![n] = Dead(@)] /\ DropEdges(es)
        /\ nodeExists' = nodeExists \ {n} /\ nodeIdx' = nodeIdx \ {<<nslot[n].lab, n>>}
        /\ propIdx' = propIdx \ {PropKey(nslot[n].lab, nslot[n].val, n)}
        /\ counts' = [nodes |-> counts.nodes - 1, edges |-> counts.edges - Cardinality(es)]
        /\ nextNode' = nextNode /\ nextEdge' = nextEdge
    BY <1>3 DEF RemoveNode
  <2>2. es \subseteq edgeExists OBVIOUS
  <2> HIDE DEF es
  <2>3. counts'.nodes = counts.nodes - 1 /\ counts'.edges = counts.edges - Cardinality(es) /\ CountsAre' BY <2>1 DEF CountsAre
  <2>4. NodePart' BY <1>0, <2>1, <2>3, NodeRemoved
  <2>5. EdgePart' BY <1>0, <2>1, <2>2, <2>3, EdgesDropped
  <2> QED BY <2>3, <2>4, <2>5 DEF IndexInv
<1>4. ASSUME NEW a, NEW b, NEW l, AddEdge(a, b, l) PROVE IndexInv'
  <2>1. /\ nextEdge \in EdgeIds /\ {a, b} \subseteq nodeExists
        /\ eslot' = [eslot EXCEPT ![nextEdge] = LiveEdge(a, b, l)]
        /\ edgeExists' = edgeExists \cup {nextEdge} /\ edgeIdx' = edgeIdx \cup {<<l, nextEdge>>}
        /\ pairIdx' = pairIdx (+) SetToBag({<<a, b, l, nextEdge>>})
        /\ counts' = [counts EXCEPT !.edges = @ + 1] /\ nextEdge' = nextEdge + 1
        /\ UNCHANGED <<nextNode, nodeExists, nodeIdx, propIdx>>
    BY <1>4 DEF AddEdge
  <2>2. a \in NodeIds /\ b \in NodeIds BY <2>1, <1>0 DEF NodeIndexes
  <2>3. counts'.nodes = counts.nodes /\ counts'.edges = counts.edges + 1 /\ CountsAre' BY <1>0, <2>1 DEF CountsAre
  <2>4. HeadsApart(nslot', nslot) BY <1>0, <1>4, <2>2, EdgeLinked
  <2>5. NodePart' BY <1>0, <2>1, <2>3, <2>4, NodesKept
  <2>6. EdgePart' BY <1>0, <2>1, <2>3, EdgeAdded
  <2> QED BY <2>3, <2>5, <2>6 DEF IndexInv
<1>5. ASSUME NEW e \in EdgeIds, NEW l, UpdateEdge(e, l) PROVE IndexInv'
  <2>1. EdgePart' BY <1>0, <1>5, EdgeUpdated
  <2>2. UNCHANGED <<nslot, nextNode, nodeExists, nodeIdx, propIdx>> /\ counts' = counts BY <1>5 DEF UpdateEdge
  <2>3. NodePart' BY <1>0, <2>2, NodesSame
  <2> QED BY <1>0, <2>1, <2>2, <2>3 DEF IndexInv, CountsAre
<1>6. ASSUME NEW e \in EdgeIds, RemoveEdge(e) PROVE IndexInv'
  <2>1. /\ e \in edgeExists /\ DropEdges({e}) /\ counts' = [counts EXCEPT !.edges = @ - 1] /\ nextEdge' = nextEdge
        /\ UNCHANGED <<nslot, nextNode, nodeExists, nodeIdx, propIdx>>
    BY <1>6 DEF RemoveEdge
  <2>2. counts'.nodes = counts.nodes /\ counts'.edges = counts.edges - 1 /\ CountsAre' BY <1>0, <2>1 DEF CountsAre
  <2>3. Cardinality({e}) = 1 /\ {e} \subseteq edgeExists BY <2>1, FS_Singleton
  <2>4. EdgePart' BY <1>0, <2>1, <2>2, <2>3, EdgesDropped
  <2>5. NodePart' BY <1>0, <2>1, <2>2, NodesSame
  <2> QED BY <2>2, <2>4, <2>5 DEF IndexInv
<1>7. ASSUME UNCHANGED <<nslot, eslot, idx, nextNode, nextEdge>> PROVE IndexInv'
  <2>1. /\ UNCHANGED <<nslot, nextNode, nodeExists, nodeIdx, propIdx>>
        /\ UNCHANGED <<eslot, nextEdge, edgeExists, edgeIdx, pairIdx>> /\ counts' = counts
    BY <1>7 DEF idx
  <2>2. NodePart' BY <1>0, <2>1, NodesSame
  <2>3. EdgePart' BY <1>0, <2>1, EdgesSame
  <2> QED BY <1>0, <2>1, <2>2, <2>3 DEF IndexInv, CountsAre
<1>8. CASE BeginBatch BY <1>7, <1>8 DEF BeginBatch
<1>9. CASE EndBatch
  <2>1. /\ UNCHANGED <<nextNode, nodeExists, nodeIdx, propIdx>>
        /\ UNCHANGED <<eslot, nextEdge, edgeExists, edgeIdx, pairIdx>> /\ counts' = counts
    BY <1>9 DEF EndBatch, idx
  <2>2. HeadsApart(nslot', nslot) BY <1>0, <1>9, BatchEnded
  <2>3. NodePart' BY <1>0, <2>1, <2>2, NodesKept
  <2>4. EdgePart' BY <1>0, <2>1, EdgesSame
  <2> QED BY <1>0, <2>1, <2>3, <2>4 DEF IndexInv, CountsAre
<1>10. ASSUME NEW n \in NodeIds, Evict(n) PROVE IndexInv' BY <1>7, <1>10 DEF Evict
<1>11. CASE Flush BY <1>7, <1>11 DEF Flush
<1>12. CASE CloseAndOpen BY <1>12, Reopened
<1>13. CASE UNCHANGED vars BY <1>7, <1>13 DEF vars
<1> QED BY <1>1, <1>2, <1>3, <1>4, <1>5, <1>6, <1>8, <1>9, <1>10, <1>11, <1>12, <1>13 DEF Next

\* IndexesServeConstraints, for any number of nodes, edges, labels and values
\* and any mix of writes, batches, evictions, flushes and openings: after every
\* write of graph.rs and every rebuild_indexes the existence sets, the label,
\* property and pair indexes and the counts are what the slots say, each edge
\* once, so that check_unique, which trusts the property index, keeps every
\* value declared unique on one node.
THEOREM IndexesServe == Spec => []IndexesServeConstraints
<1>1. Init => IndexInv BY IndexInit
<1>2. IndexInv /\ [Next]_vars => IndexInv' BY IndexNext
<1>3. IndexInv => IndexesServeConstraints BY IndexInvServes
<1> QED BY <1>1, <1>2, <1>3, PTL DEF Spec

=============================================================================
