--------------------------- MODULE AdjacencyPages ---------------------------
(***************************************************************************)
(* The pages of adjacency.db and the functions of adjacency_codec.rs and   *)
(* adj_slab_codec.rs that read and write them.                             *)
(*                                                                         *)
(* A small edge list shares a slab page with others; a long one owns a     *)
(* chain: a head page, then continuation pages.  Offsets and lengths are   *)
(* the byte counts of the code, so that the free-space tests are the       *)
(* code's; the edge ids of a list are kept as a sequence.                  *)
(*                                                                         *)
(* Pages are numbered from 1 and NoPage is the code's 0xFFFF_FFFF.  No     *)
(* function of the code ever frees an adjacency page, so a page that is    *)
(* allocated is always the next one.                                       *)
(***************************************************************************)
EXTENDS Integers, Sequences, SequencesExt, FiniteSetsExt

CONSTANTS
  PagePayloadSize,     \* bytes of a page after its header
  MaxEdgesSingle,      \* edges in a chain of one page
  MaxEdgesCont         \* edges in a continuation page

ASSUME PageSizes ==
  /\ PagePayloadSize \in Nat /\ PagePayloadSize % 2 = 0
  /\ MaxEdgesSingle \in Nat \ {0, 1} /\ MaxEdgesCont \in Nat \ {0}

MaxEdgesChained == MaxEdgesSingle - 1  \* the head of a longer chain
DirEntrySize == 14
DirCountSize == 2
EdgeSize == 8
NoPage == 0
Dirs == {"out", "in"}

ZeroPage == [kind |-> "zero"]
IsSlabPage(page) == page.kind = "slab"

-----------------------------------------------------------------------------
(* Slab pages: a directory that grows up, sub-blocks that grow down.       *)

\* A directory entry keeps its place for good: freeing it only blanks it.
FreedEntry == [node |-> 0, dir |-> "freed", off |-> 0, ids |-> <<>>]

EmptySlab == [kind |-> "slab", dirs |-> <<>>]

DirectoryEnd(count) == DirCountSize + count * DirEntrySize

FindLive(page, n, d) ==
  { i \in DOMAIN page.dirs : page.dirs[i].node = n /\ page.dirs[i].dir = d }

\* The lowest offset any live sub-block starts at.
LowWaterMark(page) ==
  Min({PagePayloadSize} \cup
      { page.dirs[i].off : i \in { j \in DOMAIN page.dirs : page.dirs[j].dir # "freed" } })

SlabFreeSpace(page) ==
  PagePayloadSize - Len(page.dirs) * DirEntrySize - (PagePayloadSize - LowWaterMark(page))

SubblockNeeds(count) == DirEntrySize + count * EdgeSize

SlabCanFit(page, count) == SlabFreeSpace(page) > SubblockNeeds(count)

FitsInEmptySlab(count) == SubblockNeeds(count) < PagePayloadSize - DirCountSize

\* The refusals of write_subblock, each of which is an error to the caller.
SubblockRefused(page, n, d, count) ==
  \/ FindLive(page, n, d) # {}
  \/ SlabFreeSpace(page) < SubblockNeeds(count)
  \/ DirectoryEnd(Len(page.dirs) + 1) > LowWaterMark(page) - count * EdgeSize

WriteSubblock(page, n, d, ids) ==
  [page EXCEPT !.dirs = Append(@, [node |-> n, dir |-> d, ids |-> ids,
                                   off |-> LowWaterMark(page) - Len(ids) * EdgeSize])]

ReadSubblock(page, n, d) ==
  LET at == FindLive(page, n, d) IN IF at = {} THEN <<>> ELSE page.dirs[Min(at)].ids

\* Mutant: any sub-block grows, not only the last one.
AppendFits_NotLast(page, n, d, count) ==
  LET i == Min(FindLive(page, n, d)) IN
  /\ SlabFreeSpace(page) >= count * EdgeSize
  /\ DirectoryEnd(Len(page.dirs)) <= page.dirs[i].off - count * EdgeSize

\* Only the sub-block that was written last can grow, and only downwards.
AppendFits(page, n, d, count) ==
  LET i == Min(FindLive(page, n, d)) IN
  /\ page.dirs[i].off = LowWaterMark(page)
  /\ SlabFreeSpace(page) >= count * EdgeSize
  /\ DirectoryEnd(Len(page.dirs)) <= page.dirs[i].off - count * EdgeSize

AppendSubblock(page, n, d, ids) ==
  LET i == Min(FindLive(page, n, d)) IN
  [page EXCEPT !.dirs[i].off = @ - Len(ids) * EdgeSize, !.dirs[i].ids = @ \o ids]

FreeSubblock(page, n, d) ==
  [page EXCEPT !.dirs[Min(FindLive(page, n, d))] = FreedEntry]

\* A removal shortens the list in place: the offset stays, bytes are wasted.
RewriteSubblock(page, n, d, ids) ==
  [page EXCEPT !.dirs[Min(FindLive(page, n, d))].ids = ids]

-----------------------------------------------------------------------------
(* Dedicated chains.                                                       *)

HeadPage(n, d, total, ids, next, last) ==
  [kind |-> "head", node |-> n, dir |-> d, total |-> total, ids |-> ids,
   next |-> next, last |-> last]

\* write_continuation_pages: at least one page, the first at `first`.
ContinuationPages(ids, first) ==
  LET count == Max({1, (Len(ids) + MaxEdgesCont - 1) \div MaxEdgesCont}) IN
  [ i \in 1..count |->
      [kind |-> "cont",
       ids  |-> SubSeq(ids, (i - 1) * MaxEdgesCont + 1, Min({i * MaxEdgesCont, Len(ids)})),
       next |-> IF i = count THEN NoPage ELSE first + i] ]

\* write_adjacency: the pages of a new chain, its head first.
WriteAdjacency(pages, n, d, ids) ==
  LET head == Len(pages) + 1
      rest == ContinuationPages(SubSeq(ids, MaxEdgesChained + 1, Len(ids)), head + 1)
  IN IF Len(ids) <= MaxEdgesSingle
     THEN pages \o <<HeadPage(n, d, Len(ids), ids, NoPage, NoPage)>>
     ELSE pages \o <<HeadPage(n, d, Len(ids), SubSeq(ids, 1, MaxEdgesChained),
                              head + 1, head + Len(rest))>> \o rest

\* read_adjacency.  A page that recovery lost holds no ids and ends the chain.
ReadAdjacency(pages, head) ==
  LET page == pages[head]
      follow[p \in Nat, want \in Nat] ==
        IF p \notin DOMAIN pages \/ want = 0 THEN <<>>
        ELSE IF pages[p].kind # "cont" THEN <<>>
        ELSE LET take == Min({want, MaxEdgesCont, Len(pages[p].ids)})
             IN SubSeq(pages[p].ids, 1, take) \o follow[pages[p].next, want - take]
  IN IF page.kind # "head" THEN <<>>
     ELSE IF page.total <= MaxEdgesSingle THEN SubSeq(page.ids, 1, page.total)
     ELSE SubSeq(page.ids, 1, MaxEdgesChained)
          \o follow[page.next, page.total - MaxEdgesChained]

\* state_after_append: where the next edge of a chain of `total` edges goes.
ChainState(first, last, total) ==
  LET rem == (total - MaxEdgesChained) % MaxEdgesCont IN
  IF total <= MaxEdgesSingle
  THEN [first |-> first, last |-> first, total |-> total, used |-> total, single |-> TRUE]
  ELSE [first |-> first, last |-> last, total |-> total, single |-> FALSE,
        used |-> IF rem = 0 THEN MaxEdgesCont ELSE rem]

ReadChainState(pages, head) ==
  ChainState(head, pages[head].last, pages[head].total)

\* append_adjacency_with_state on an existing chain.  The result is the pages
\* and the ones the caller logs.
AppendChain(pages, state, new) ==
  LET total == state.total + Len(new)
      head == pages[state.first]
      all == ReadAdjacency(pages, state.first) \o new
      spill == ContinuationPages(SubSeq(all, MaxEdgesChained + 1, Len(all)), Len(pages) + 1)
      room == Min({MaxEdgesCont - state.used, Len(new)})
      over == SubSeq(new, room + 1, Len(new))
      conts == IF over = <<>> THEN <<>> ELSE ContinuationPages(over, Len(pages) + 1)
      last == IF over = <<>> THEN state.last ELSE Len(pages) + Len(conts)
  IN CASE state.single /\ total <= MaxEdgesSingle ->
          [pages  |-> [pages EXCEPT ![state.first].total = head.total + Len(new),
                                    ![state.first].ids = SubSeq(@, 1, head.total) \o new],
           logged |-> {state.first}]
       [] state.single /\ total > MaxEdgesSingle ->
          [pages  |-> [pages EXCEPT ![state.first] =
                         HeadPage(head.node, head.dir, total, SubSeq(all, 1, MaxEdgesChained),
                                  Len(pages) + 1, Len(pages) + Len(spill))] \o spill,
           logged |-> {state.first} \cup (Len(pages) + 1)..(Len(pages) + Len(spill))]
       [] OTHER ->
          [pages  |-> [pages EXCEPT
                         ![state.first].total = total, ![state.first].last = last,
                         ![state.last].ids = SubSeq(@, 1, state.used) \o SubSeq(new, 1, room),
                         ![state.last].next = IF over = <<>> THEN NoPage ELSE Len(pages) + 1]
                      \o conts,
           logged |-> {state.first, state.last} \cup (Len(pages) + 1)..(Len(pages) + Len(conts))]

-----------------------------------------------------------------------------
\* No sub-block of a slab overlaps another, the directory or the page's end.
\* The free-space tests of slab_free_space, write_subblock and
\* append_subblock_edges are what keeps them apart.
SlabLayoutOK(page) ==
  LET live == { i \in DOMAIN page.dirs : page.dirs[i].dir # "freed" }
      end(i) == page.dirs[i].off + Len(page.dirs[i].ids) * EdgeSize
  IN /\ \A i \in live : /\ page.dirs[i].off >= DirectoryEnd(Len(page.dirs))
                        /\ end(i) <= PagePayloadSize
     /\ \A i, j \in live : i # j => \/ end(i) <= page.dirs[j].off
                                    \/ end(j) <= page.dirs[i].off
=============================================================================
