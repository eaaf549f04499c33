---------------------------- MODULE OverflowStore ----------------------------
(***************************************************************************)
(* overflow.db: properties that do not fit a slot.  A small blob shares a  *)
(* slab page (prop_slab_codec.rs), a large one owns a chain of pages       *)
(* (overflow_codec.rs), and pages given back wait in the free list         *)
(* (free_list.rs): one in the meta page, the rest in directory pages that  *)
(* are themselves pages given back.                                        *)
(*                                                                         *)
(* An operation of graph.rs writes the new blob, releases the old one and  *)
(* then writes the slot that names the blob; every page, the state of the  *)
(* free list and the slot go to the log in that order.                     *)
(***************************************************************************)
EXTENDS Integers, Sequences, FiniteSets, SequencesExt, FiniteSetsExt

CONSTANTS
  Entities,          \* nodes and edges
  BlobLens,          \* lengths of a record's encoded properties; 0 fits the slot
  Payload,           \* bytes of a page after its header
  BlobDirEntry, BlobDirCount,  \* bytes of a slab directory entry and of its counter
  FirstCap, ContCap, \* bytes of a chain's first and later pages
  DirRoom,           \* entries of a free directory page
  MaxPuts            \* writes of the bounded instance

ASSUME OverflowAssumption ==
  /\ {Payload, BlobDirEntry, BlobDirCount, FirstCap, ContCap, DirRoom} \subseteq Nat \ {0}
  /\ BlobLens \subseteq Nat
  /\ "freed" \notin Entities

None == 0                       \* no page: the pages are numbered from 1
MaxPackedBlob == Payload - BlobDirCount - BlobDirEntry

VARIABLES
  page,        \* the pages of overflow.db, in a sequence
  dirHead, spare, freeCount,    \* the free list's part of the meta page
  slot,        \* entity -> its slot: does it exist, the blob's page, the blob's length
  openPage,    \* prop_slab_open_page
  stored,      \* history: the value each entity was last given
  puts

space == <<page, dirHead, spare, freeCount>>
overflowVars == <<space, slot, openPage, stored, puts>>

\* A blob is its length and the number of the write that made it.
NoBlob == [len |-> 0, id |-> 0]
NoSlot == [live |-> FALSE, at |-> None, blob |-> NoBlob]
EmptyPage == [kind |-> "zero"]

InitOverflow ==
  /\ page = <<>> /\ dirHead = None /\ spare = None /\ freeCount = 0
  /\ slot = [e \in Entities |-> NoSlot] /\ openPage = None
  /\ stored = [e \in Entities |-> NoBlob] /\ puts = 0

\* An operation threads this record through its steps.
Space == [page |-> page, head |-> dirHead, spare |-> spare, count |-> freeCount,
          open |-> openPage, log |-> <<>>]

PageRecord(p, data) == [kind |-> "page", page |-> p, data |-> data]
WritePage(s, p, data) ==
  [s EXCEPT !.page[p] = data, !.log = Append(@, PageRecord(p, data))]

-----------------------------------------------------------------------------
(* The free list.                                                          *)

\* journal_free_list_state
Journal(s) ==
  [s EXCEPT !.log = Append(@, [kind |-> "free", head |-> s.head, spare |-> s.spare,
                               count |-> s.count])]

\* take_free_page: the spare page, else the last entry of the first directory
\* page, else that directory page itself.
TakeFreePage(s) ==
  LET dir == s.page[s.head]
      less == IF s.count = 0 THEN 0 ELSE s.count - 1
  IN
  CASE s.spare # None ->
         [s |-> Journal([s EXCEPT !.spare = None, !.count = less]), page |-> s.spare]
    [] s.spare = None /\ s.head = None -> [s |-> s, page |-> None]
    [] s.spare = None /\ s.head # None /\ dir.entries # <<>> ->
         [s |-> Journal([WritePage(s, s.head, [dir EXCEPT !.entries = Front(@)])
                           EXCEPT !.count = less]),
          page |-> Last(dir.entries)]
    [] OTHER -> [s |-> Journal([s EXCEPT !.head = dir.next]), page |-> s.head]

\* release_page: to the spare place, else to the first directory page, else
\* the page becomes the first directory page.
ReleasePage(s, p) ==
  IF s.spare = None THEN Journal([s EXCEPT !.spare = p, !.count = @ + 1])
  ELSE IF s.head # None /\ Len(s.page[s.head].entries) < DirRoom
  THEN Journal([WritePage(s, s.head, [s.page[s.head] EXCEPT !.entries = Append(@, p)])
                  EXCEPT !.count = @ + 1])
  ELSE Journal([WritePage(s, p, [kind |-> "dir", next |-> s.head, entries |-> <<>>])
                  EXCEPT !.head = p])

\* allocate_page: a recycled page is zeroed in the pool only, not in the log.
AllocatePage(s) ==
  LET taken == TakeFreePage(s) IN
  IF taken.page # None
  THEN [taken EXCEPT !.s.page[taken.page] = EmptyPage]
  ELSE [s |-> [taken.s EXCEPT !.page = Append(@, EmptyPage)], page |-> Len(s.page) + 1]

-----------------------------------------------------------------------------
(* Slab pages.                                                             *)

BlobDirEnd(dirs) == BlobDirCount + Len(dirs) * BlobDirEntry
BlobLowWater(dirs) == Min({Payload} \cup { dirs[i].off : i \in DOMAIN dirs })
BlobFreeSpace(dirs) == Max({0, BlobLowWater(dirs) - BlobDirEnd(dirs)})
LiveEntries(dirs) == { i \in DOMAIN dirs : dirs[i].ent # "freed" }

\* compact: the live blobs, packed one below the other from the end of the page.
Compact(dirs) ==
  LET packed[i \in 0..Len(dirs)] ==
        IF i = 0 THEN [dirs |-> <<>>, low |-> Payload]
        ELSE LET above == packed[i - 1]
                 low == above.low - dirs[i].blob.len
             IN IF dirs[i].ent = "freed" THEN above
                ELSE [dirs |-> Append(above.dirs, [dirs[i] EXCEPT !.off = low]), low |-> low]
  IN packed[Len(dirs)].dirs

HasRoomFor(dirs, len) ==
  \/ BlobFreeSpace(dirs) >= len + BlobDirEntry
  \/ BlobFreeSpace(Compact(dirs)) >= len + BlobDirEntry

FreeEntry(dirs, e) ==
  [i \in DOMAIN dirs |-> IF dirs[i].ent = e THEN [dirs[i] EXCEPT !.ent = "freed"] ELSE dirs[i]]

\* write_blob: the entity's old entry is freed, and the page compacted if the
\* blob would not fit.
WriteBlob(dirs, e, blob) ==
  LET freed == FreeEntry(dirs, e)
      ready == IF BlobFreeSpace(freed) < blob.len + BlobDirEntry THEN Compact(freed) ELSE freed
  IN Append(ready, [ent |-> e, off |-> BlobLowWater(ready) - blob.len, blob |-> blob])

\* read_blob: the first live entry of the entity, or nothing.
ReadBlob(dirs, e) ==
  LET mine == { i \in DOMAIN dirs : dirs[i].ent = e }
  IN IF mine = {} THEN NoBlob ELSE dirs[Min(mine)].blob

Slab(dirs) == [kind |-> "slab", dirs |-> dirs]

-----------------------------------------------------------------------------
(* Chains.                                                                 *)

\* The number of pages a blob takes.
ChainLength(len) ==
  IF len <= FirstCap THEN 1 ELSE 1 + (len - FirstCap + ContCap - 1) \div ContCap

\* write_overflow: the next page is allocated before the current one is written.
WriteLink(now, i, blob) ==
  LET more == IF i < ChainLength(blob.len) THEN AllocatePage(now.s) ELSE [s |-> now.s, page |-> None]
  IN [s |-> WritePage(more.s, now.page,
                      [kind |-> "chain", blob |-> blob, part |-> i, next |-> more.page]),
      page |-> more.page]
WriteChain(s, blob) ==
  LET first == AllocatePage(s)
      after[i \in 0..ChainLength(blob.len)] ==
        IF i = 0 THEN first ELSE WriteLink(after[i - 1], i, blob)
  IN [s |-> after[ChainLength(blob.len)].s, page |-> first.page]

\* The pages of a kind that follow each other from p: to the page that has no
\* next, and never more pages than the file has.
PagesFrom(pages, kind, p) ==
  LET walk[n \in 0..Len(pages)] ==
        IF n = 0 THEN <<p>>
        ELSE LET before == walk[n - 1]
                 last == pages[Last(before)]
             IN IF last.kind # kind THEN before
                ELSE IF last.next = None THEN before ELSE Append(before, last.next)
  IN walk[Len(pages)]

\* What free_overflow_chain and read_overflow walk.
ChainPages(pages, p) == PagesFrom(pages, "chain", p)

\* free_overflow_chain gives the pages back in the order of the chain.
ReleaseChain(s, pages) ==
  LET after[i \in 0..Len(pages)] == IF i = 0 THEN s ELSE ReleasePage(after[i - 1], pages[i])
  IN after[Len(pages)]

\* read_overflowed_props.
ReadProps(pages, e, sl) ==
  IF sl.at = None THEN sl.blob
  ELSE IF pages[sl.at].kind = "slab" THEN ReadBlob(pages[sl.at].dirs, e)
  ELSE LET parts == ChainPages(pages, sl.at)
           intact == \A i \in DOMAIN parts :
                       LET c == pages[parts[i]] IN c.kind = "chain" /\ c.part = i
                                                   /\ c.blob = pages[sl.at].blob
       IN IF intact THEN pages[sl.at].blob ELSE [len |-> -1, id |-> -1]

-----------------------------------------------------------------------------
(* graph.rs on top of both.                                                *)

\* store_overflowed_props
StoreProps(s, e, blob) ==
  LET fresh == AllocatePage(s)
      fits == s.open # None /\ s.page[s.open].kind = "slab"
              /\ HasRoomFor(s.page[s.open].dirs, blob.len)
  IN CASE blob.len > MaxPackedBlob -> WriteChain(s, blob)
       [] blob.len <= MaxPackedBlob /\ fits ->
            [s |-> WritePage(s, s.open, Slab(WriteBlob(s.page[s.open].dirs, e, blob))),
             page |-> s.open]
       [] OTHER ->
            LET blank == WritePage(fresh.s, fresh.page, Slab(<<>>))
            IN [s |-> [WritePage(blank, fresh.page, Slab(WriteBlob(<<>>, e, blob)))
                         EXCEPT !.open = fresh.page],
                page |-> fresh.page]

\* Mutant: the open page stays open when its last blob goes.
ReleaseProps_KeepOpen(s, e, at) ==
  IF s.page[at].kind # "slab" THEN ReleaseChain(s, ChainPages(s.page, at))
  ELSE LET freed == FreeEntry(s.page[at].dirs, e)
           s2 == WritePage(s, at, Slab(freed))
       IN IF LiveEntries(freed) # {} THEN s2 ELSE ReleasePage(s2, at)

\* release_overflowed_props: the entity's blob, and the page with its last one.
ReleaseProps(s, e, at) ==
  IF s.page[at].kind # "slab" THEN ReleaseChain(s, ChainPages(s.page, at))
  ELSE LET freed == FreeEntry(s.page[at].dirs, e)
           s2 == IF freed = s.page[at].dirs THEN s ELSE WritePage(s, at, Slab(freed))
       IN IF LiveEntries(freed) # {} THEN s2
          ELSE ReleasePage([s2 EXCEPT !.open = IF @ = at THEN None ELSE @], at)

InstallSpace(s) ==
  /\ page' = s.page /\ dirHead' = s.head /\ spare' = s.spare /\ freeCount' = s.count
  /\ openPage' = s.open

\* handle_slot_overflow and the slot write of add_node, update_node and
\* update_edge: store, release what the slot named before, write the slot.
PutProps(e, len) ==
  LET blob == [len |-> len, id |-> puts + 1]
      new == IF len = 0 THEN [s |-> Space, page |-> None] ELSE StoreProps(Space, e, blob)
      old == slot[e].at
      s == IF old # None /\ old # new.page THEN ReleaseProps(new.s, e, old) ELSE new.s
  IN /\ puts < MaxPuts
     /\ InstallSpace(s)
     /\ slot' = [slot EXCEPT ![e] = [live |-> TRUE, at |-> new.page, blob |-> blob]]
     /\ stored' = [stored EXCEPT ![e] = blob] /\ puts' = puts + 1

\* tombstone_slot: the slot is logged and written first, then the blob is given back.
DropEntity(e) ==
  LET s == IF slot[e].at # None THEN ReleaseProps(Space, e, slot[e].at) ELSE Space
  IN /\ slot[e].live
     /\ InstallSpace(s)
     /\ slot' = [slot EXCEPT ![e] = NoSlot] /\ stored' = [stored EXCEPT ![e] = NoBlob]
     /\ UNCHANGED puts

\* Opening the graph again: only the open page is forgotten.
Reopen ==
  /\ openPage # None
  /\ openPage' = None
  /\ UNCHANGED <<space, slot, stored, puts>>

NextOverflow ==
  \/ \E e \in Entities, len \in BlobLens : PutProps(e, len)
  \/ \E e \in Entities : DropEntity(e)
  \/ Reopen

SpecOverflow == InitOverflow /\ [][NextOverflow]_overflowVars

-----------------------------------------------------------------------------
(* A crash inside an operation.  Of the records it appends before the      *)
(* slot's, a prefix has reached the file: the writer's buffer empties into *)
(* it whenever it is full.                                                 *)

\* replay_records on a prefix of the operation's log.  A page it does not
\* name keeps what it held; an evicted one would hold something newer.
Replayed(records) ==
  LET last(kind) == { i \in DOMAIN records : records[i].kind = kind }
      image(p) == { i \in last("page") : records[i].page = p }
      size == Max({Len(page)} \cup { records[i].page : i \in last("page") })
      free == IF last("free") = {} THEN [head |-> dirHead, spare |-> spare, count |-> freeCount]
              ELSE records[Max(last("free"))]
  IN /\ page' = [p \in 1..size |->
                   IF image(p) # {} THEN records[Max(image(p))].data
                   ELSE IF p \in DOMAIN page THEN page[p] ELSE EmptyPage]
     /\ dirHead' = free.head /\ spare' = free.spare /\ freeCount' = free.count

\* The crash comes while PutProps runs, before its slot is in the file.
CrashInPut(e, len) ==
  LET blob == [len |-> len, id |-> puts + 1]
      new == IF len = 0 THEN [s |-> Space, page |-> None] ELSE StoreProps(Space, e, blob)
      old == slot[e].at
      s == IF old # None /\ old # new.page THEN ReleaseProps(new.s, e, old) ELSE new.s
  IN /\ puts < MaxPuts
     /\ \E cut \in 0..Len(s.log) : Replayed(SubSeq(s.log, 1, cut))
     /\ openPage' = None /\ puts' = puts + 1
     /\ UNCHANGED <<slot, stored>>

SpecOverflowCrash ==
  InitOverflow /\ [][NextOverflow \/ \E e \in Entities, len \in BlobLens : CrashInPut(e, len)]_overflowVars

-----------------------------------------------------------------------------
\* The pages a slot leads to.
PagesOf(e) ==
  IF slot[e].at = None THEN {}
  ELSE IF page[slot[e].at].kind = "chain" THEN ToSet(ChainPages(page, slot[e].at)) ELSE {slot[e].at}
LivePages == UNION { PagesOf(e) : e \in Entities }

\* The directory pages, and the pages they and the spare place name.
DirPages == IF dirHead = None THEN <<>> ELSE PagesFrom(page, "dir", dirHead)
FreePlaces ==
  (IF spare = None THEN {} ELSE {<<None, 1>>})
  \cup UNION { {d} \X DOMAIN page[d].entries : d \in { d \in ToSet(DirPages) : page[d].kind = "dir" } }
FreeAt(place) == IF place[1] = None THEN spare ELSE page[place[1]].entries[place[2]]
NamedPages == { FreeAt(place) : place \in FreePlaces }
FreePages == NamedPages \cup ToSet(DirPages)

\* Every record reads back the properties it was last given.
PropsReadBack ==
  \A e \in Entities : slot[e].live => ReadProps(page, e, slot[e]) = stored[e]

\* No page that a slot still names is in the free list: the old blob is
\* released "only after the new one is safely written", so that no failure
\* leaves "the slot pointing at a chain that had already been handed away".
SlotPagesAreNotFree == LivePages \cap FreePages = {}

\* No page is lost: each is named by a slot or is in the free list, once, and
\* the count of the meta page is the number of free pages that are not
\* directory pages.
NoPageIsLost ==
  /\ IsInjective(DirPages) /\ NamedPages \cap ToSet(DirPages) = {}
  /\ \A a, b \in FreePlaces : FreeAt(a) = FreeAt(b) => a = b
  /\ LivePages \cup FreePages = DOMAIN page
  /\ freeCount = Cardinality(NamedPages)

\* The blobs of a slab page never overlap each other or the directory.
BlobsKeepApart ==
  \A p \in DOMAIN page : page[p].kind = "slab" =>
    LET dirs == page[p].dirs
        live == LiveEntries(dirs)
        end(i) == dirs[i].off + dirs[i].blob.len
    IN /\ \A i \in live : dirs[i].off >= BlobDirEnd(dirs) /\ end(i) <= Payload
       /\ \A i, j \in live : i # j => end(i) <= dirs[j].off \/ end(j) <= dirs[i].off

\* Overflow pages are owned once: every record reads back its properties, no
\* blob overlaps another, no page a slot names is free and none is lost.
OverflowIsSound ==
  PropsReadBack /\ BlobsKeepApart /\ SlotPagesAreNotFree /\ NoPageIsLost

=============================================================================
