----------------------------- MODULE BufferPool -----------------------------
(***************************************************************************)
(* storage/buffer_pool.rs: a bounded cache of pages under one              *)
(* readers-writer lock, evicting along an intrusive doubly linked list.    *)
(*                                                                         *)
(* A read that misses gives its shared lock back before it takes the       *)
(* exclusive one, so other operations come in between.  Pin counts are     *)
(* raised by tests only and are left out.                                  *)
(***************************************************************************)
EXTENDS Naturals, FiniteSets, Functions

CONSTANTS
  Pages, Values, ZeroValue,  \* page contents; ZeroValue is a page never written
  Readers,                   \* threads inside get_page
  MaxPages,                  \* frames of the pool
  Nil                        \* no page

ASSUME PoolAssumption == MaxPages \in Nat \ {0} /\ ZeroValue \in Values /\ Nil \notin Pages

VARIABLES
  frames,        \* cached pages: contents and dirty flag
  node,          \* list nodes: prev is towards the head
  head, tail,
  disk,          \* the data files
  pc,            \* the page a reader has missed and not yet loaded
  written,       \* history: what put_page last stored in each page
  lost           \* history: pages whose eviction failed since

pool == <<frames, node, head, tail, disk>>
poolVars == <<pool, pc, written, lost>>

Nothing == [p \in {} |-> Nil]

InitPool ==
  /\ frames = Nothing /\ node = Nothing /\ head = Nil /\ tail = Nil /\ lost = {}
  /\ disk = [p \in Pages |-> ZeroValue]
  /\ pc = [r \in Readers |-> Nil] /\ written = [p \in Pages |-> ZeroValue]

-----------------------------------------------------------------------------
(* The list, as a record of its nodes and ends.                            *)

List == [node |-> node, head |-> head, tail |-> tail]

\* lru_unlink_inner
Unlink(l, p) ==
  IF p \notin DOMAIN l.node THEN l
  ELSE LET n == l.node[p]
           rest == Restrict(l.node, DOMAIN l.node \ {p})
       IN [node |-> [q \in DOMAIN rest |->
                       [prev |-> IF q = n.next THEN n.prev ELSE rest[q].prev,
                        next |-> IF q = n.prev THEN n.next ELSE rest[q].next]],
           head |-> IF n.prev = Nil THEN n.next ELSE l.head,
           tail |-> IF n.next = Nil THEN n.prev ELSE l.tail]

\* lru_push_front_inner
PushFront(l, p) ==
  [node |-> [q \in DOMAIN l.node \cup {p} |->
               IF q = p THEN [prev |-> Nil, next |-> l.head]
               ELSE IF q = l.head THEN [l.node[q] EXCEPT !.prev = p] ELSE l.node[q]],
   head |-> p,
   tail |-> IF l.head = Nil THEN p ELSE l.tail]

\* touch_lru_inner
Touch(l, p) == PushFront(Unlink(l, p), p)

SetList(l) == node' = l.node /\ head' = l.head /\ tail' = l.tail

\* ensure_capacity_inner and evict_one_inner: the victim is the list's tail,
\* and a dirty one is written to its file.
Full == Cardinality(DOMAIN frames) >= MaxPages

MakeRoom ==
  IF ~ Full THEN [frames |-> frames, list |-> List, disk |-> disk]
  ELSE [frames |-> Restrict(frames, DOMAIN frames \ {tail}), list |-> Unlink(List, tail),
        disk |-> IF frames[tail].dirty THEN [disk EXCEPT ![tail] = frames[tail].data] ELSE disk]

\* frames.insert
Insert(fs, p, f) == [q \in DOMAIN fs \cup {p} |-> IF q = p THEN f ELSE fs[q]]

\* An eviction whose write fails: the victim is already gone from the pool, its
\* file may hold anything in its place, and the operation that needed the frame
\* returns the error.
EvictionFails ==
  /\ Full /\ frames[tail].dirty
  /\ frames' = Restrict(frames, DOMAIN frames \ {tail})
  /\ SetList(Unlink(List, tail))
  /\ lost' = lost \cup {tail}
  /\ \E v \in Values : disk' = [disk EXCEPT ![tail] = v]

-----------------------------------------------------------------------------
\* get_page under the shared lock: a hit copies the frame and moves nothing in
\* the list, a miss gives the lock back.
GetMiss(r, p) ==
  /\ pc[r] = Nil /\ p \notin DOMAIN frames
  /\ pc' = [pc EXCEPT ![r] = p]
  /\ UNCHANGED <<pool, written, lost>>

\* Mutant: the page is read from its file although somebody has cached it.
Load_NoRecheck(r) ==
  LET p == pc[r] IN
  /\ p # Nil
  /\ frames' = Insert(MakeRoom.frames, p, [data |-> disk[p], dirty |-> FALSE])
  /\ disk' = MakeRoom.disk
  /\ SetList(Touch(MakeRoom.list, p))
  /\ pc' = [pc EXCEPT ![r] = Nil]
  /\ UNCHANGED <<written, lost>>

\* get_page under the exclusive lock, which looks again first.
Load(r) ==
  LET p == pc[r] IN
  /\ p # Nil
  /\ IF p \in DOMAIN frames
     THEN /\ SetList(Touch(List, p))
          /\ UNCHANGED <<frames, disk>>
     ELSE /\ frames' = Insert(MakeRoom.frames, p, [data |-> disk[p], dirty |-> FALSE])
          /\ disk' = MakeRoom.disk
          /\ SetList(Touch(MakeRoom.list, p))
  /\ pc' = [pc EXCEPT ![r] = Nil]
  /\ UNCHANGED <<written, lost>>

\* The eviction, or the read of the file once there is room, returns an error.
LoadFails(r) ==
  /\ pc[r] # Nil /\ pc[r] \notin DOMAIN frames
  /\ \/ EvictionFails
     \/ /\ frames' = MakeRoom.frames
        /\ disk' = MakeRoom.disk
        /\ SetList(MakeRoom.list)
        /\ UNCHANGED lost
  /\ pc' = [pc EXCEPT ![r] = Nil]
  /\ UNCHANGED written

PutPage(p, v) ==
  /\ IF p \in DOMAIN frames
     THEN /\ frames' = [frames EXCEPT ![p] = [data |-> v, dirty |-> TRUE]]
          /\ SetList(Touch(List, p))
          /\ UNCHANGED disk
     ELSE /\ frames' = Insert(MakeRoom.frames, p, [data |-> v, dirty |-> TRUE])
          /\ disk' = MakeRoom.disk
          /\ SetList(PushFront(MakeRoom.list, p))
  /\ written' = [written EXCEPT ![p] = v]
  /\ lost' = lost \ {p}
  /\ UNCHANGED pc

PutFails(p) ==
  /\ p \notin DOMAIN frames
  /\ EvictionFails
  /\ UNCHANGED <<pc, written>>

\* The dirty pages of done are written, then all were or one write fails, which
\* leaves anything in its place in the file.
FlushFile ==
  LET dirty == {p \in DOMAIN frames : frames[p].dirty} IN
  \E done \in SUBSET dirty, v \in Values : \E bad \in (dirty \ done) \cup {Nil} :
    /\ disk' = [p \in Pages |-> IF p \in done THEN frames[p].data ELSE IF p = bad THEN v ELSE disk[p]]
    /\ frames' = [p \in DOMAIN frames |-> IF p \in done THEN [frames[p] EXCEPT !.dirty = FALSE] ELSE frames[p]]
    /\ UNCHANGED <<node, head, tail, pc, written, lost>>

NextPool ==
  \/ \E r \in Readers, p \in Pages : GetMiss(r, p)
  \/ \E r \in Readers : Load(r) \/ LoadFails(r)
  \/ \E p \in Pages : PutFails(p) \/ \E v \in Values : PutPage(p, v)
  \/ FlushFile

SpecPool == InitPool /\ [][NextPool]_poolVars

-----------------------------------------------------------------------------
(* Properties.                                                             *)

\* One chain that reads the same from either end, and no node off it: what holds
\* the head and, with a page, the next one holds every page.
IsList(l) ==
  /\ IF DOMAIN l.node = {} THEN l.head = Nil /\ l.tail = Nil
     ELSE l.head \in DOMAIN l.node /\ l.tail \in DOMAIN l.node
  /\ \A p \in DOMAIN l.node :
       /\ IF p = l.tail THEN l.node[p].next = Nil
          ELSE l.node[p].next \in DOMAIN l.node /\ l.node[l.node[p].next].prev = p
       /\ IF p = l.head THEN l.node[p].prev = Nil
          ELSE l.node[p].prev \in DOMAIN l.node /\ l.node[l.node[p].prev].next = p
  /\ \A S \in SUBSET DOMAIN l.node :
       l.head \in S /\ (\A p \in S : l.node[p].next \in S \cup {Nil}) => S = DOMAIN l.node

\* The list links exactly the cached pages (debug_assert_lru_synced compares the
\* sizes): no eviction walks off it and no frame is out of its reach.
LruIsList == DOMAIN node = DOMAIN frames /\ IsList(List)

\* The limit on frames holds.
PoolIsBounded == Cardinality(DOMAIN frames) <= MaxPages

\* What get_page returns: the frame, or the file's page.
PageSeen(p) == IF p \in DOMAIN frames THEN frames[p].data ELSE disk[p]

\* The pool is a memory: whatever was evicted, flushed, or loaded by a reader
\* that had missed before somebody else wrote, a read returns the last write,
\* unless an eviction of the page failed since.
PoolIsMemory == \A p \in Pages \ lost : PageSeen(p) = written[p]

\* The pool is a memory, within its limit, and the list that decides what
\* leaves it is a list.
PoolIsSound ==
  LruIsList /\ PoolIsBounded /\ PoolIsMemory

=============================================================================
