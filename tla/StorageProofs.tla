---------------------------- MODULE StorageProofs ----------------------------
(***************************************************************************)
(* Proofs about parts of the storage layer, each with its own state.       *)
(* BufferPool, for any number of pages, frames and threads, and any        *)
(* failures of the files: the pool is a memory within its limit, and its   *)
(* eviction list is a list of exactly the cached pages.  Backup, for any   *)
(* number of calls, failing file operations and kills: a restore is all    *)
(* or nothing.  StringHeap, for strings and pages of any size: a reference *)
(* that was handed out is never written over.  WalFile, for records of any *)
(* length and any damage: the reader finds every whole record.             *)
(***************************************************************************)
EXTENDS BufferPool, Backup, StringHeap, WalFile, FiniteSetTheorems, WellFoundedInduction, TLAPS

Links == [prev : Pages \cup {Nil}, next : Pages \cup {Nil}]
Frame == [data : Values, dirty : BOOLEAN]

GoodList(l) ==
  /\ DOMAIN l.node \subseteq Pages /\ l.node \in [DOMAIN l.node -> Links]
  /\ IsList(l)

-----------------------------------------------------------------------------
(* The list.                                                               *)

\* No page is its own neighbour.
LEMMA NoSelfLoop ==
  ASSUME NEW l, GoodList(l), NEW p \in DOMAIN l.node
  PROVE  l.node[p].prev # p /\ l.node[p].next # p
<1> DEFINE D == DOMAIN l.node
<1>1. D \subseteq Pages /\ l.head \in D /\ p # Nil /\ Nil \notin D
  BY PoolAssumption DEF GoodList, IsList
<1>2. ASSUME l.node[p].prev = p PROVE FALSE
  <2>1. p # l.head
    BY <1>1, <1>2 DEF GoodList, IsList
  <2>2. ASSUME NEW q \in D \ {p} PROVE l.node[q].next \in (D \ {p}) \cup {Nil}
    BY <1>2, <2>2 DEF GoodList, IsList
  <2>3. D \ {p} = D
    BY <1>1, <2>1, <2>2 DEF GoodList, IsList
  <2> QED
    BY <2>3
<1>3. ASSUME l.node[p].next = p PROVE FALSE
  <2>1. p # l.tail
    BY <1>1, <1>3 DEF GoodList, IsList
  <2>2. l.node[p].prev = p
    BY <1>3, <2>1 DEF GoodList, IsList
  <2> QED
    BY <1>2, <2>2
<1> QED
  BY <1>2, <1>3

\* lru_unlink_inner takes one page out of the list.
LEMMA UnlinkIsList ==
  ASSUME NEW l, GoodList(l), NEW p \in DOMAIN l.node
  PROVE  GoodList(Unlink(l, p)) /\ DOMAIN Unlink(l, p).node = DOMAIN l.node \ {p}
<1> DEFINE m == Unlink(l, p)
           n == l.node
           D == DOMAIN n
           E == D \ {p}
           a == n[p].prev
           b == n[p].next
<1>0. m = [node |-> [q \in E |-> [prev |-> IF q = b THEN a ELSE n[q].prev,
                                  next |-> IF q = a THEN b ELSE n[q].next]],
           head |-> IF a = Nil THEN b ELSE l.head,
           tail |-> IF b = Nil THEN a ELSE l.tail]
  <2>1. DOMAIN Restrict(n, E) = E /\ \A q \in E : Restrict(n, E)[q] = n[q]
    BY DEF Restrict
  <2>2. [q \in DOMAIN Restrict(n, E) |-> [prev |-> IF q = b THEN a ELSE Restrict(n, E)[q].prev,
                                          next |-> IF q = a THEN b ELSE Restrict(n, E)[q].next]]
        = [q \in E |-> [prev |-> IF q = b THEN a ELSE n[q].prev,
                        next |-> IF q = a THEN b ELSE n[q].next]]
    BY <2>1
  <2> QED
    BY <2>2 DEF Unlink
<1>1. /\ DOMAIN m.node = E
      /\ m.head = IF a = Nil THEN b ELSE l.head
      /\ m.tail = IF b = Nil THEN a ELSE l.tail
  BY <1>0
<1>2. /\ D \subseteq Pages /\ Nil \notin D /\ p \in D
      /\ \A q \in D : n[q] \in Links
      /\ l.head \in D /\ l.tail \in D
  BY PoolAssumption DEF GoodList, IsList
<1>3. /\ \A q \in D : IF q = l.tail THEN n[q].next = Nil ELSE n[q].next \in D /\ n[n[q].next].prev = q
      /\ \A q \in D : IF q = l.head THEN n[q].prev = Nil ELSE n[q].prev \in D /\ n[n[q].prev].next = q
  BY DEF GoodList, IsList
<1>4. \A S \in SUBSET D : l.head \in S /\ (\A q \in S : n[q].next \in S \cup {Nil}) => S = D
  BY DEF GoodList, IsList
<1>5. a # p /\ b # p
  BY NoSelfLoop
<1>6. /\ a \in E \cup {Nil} /\ b \in E \cup {Nil}
      /\ (a = Nil) <=> (p = l.head)
      /\ (b = Nil) <=> (p = l.tail)
      /\ a # Nil => n[a].next = p
      /\ b # Nil => n[b].prev = p
  BY <1>2, <1>3, <1>5
<1>7. /\ \A q \in E : m.node[q].prev = IF q = b THEN a ELSE n[q].prev
      /\ \A q \in E : m.node[q].next = IF q = a THEN b ELSE n[q].next
  <2> SUFFICES ASSUME NEW q \in E
               PROVE  /\ m.node[q].prev = IF q = b THEN a ELSE n[q].prev
                      /\ m.node[q].next = IF q = a THEN b ELSE n[q].next
    OBVIOUS
  <2>1. m.node[q] = [prev |-> IF q = b THEN a ELSE n[q].prev, next |-> IF q = a THEN b ELSE n[q].next]
    BY <1>0
  <2> HIDE DEF m, n, E, a, b
  <2> QED
    BY <2>1
<1>71. ASSUME NEW q \in E
       PROVE  m.node[q] = [prev |-> IF q = b THEN a ELSE n[q].prev, next |-> IF q = a THEN b ELSE n[q].next]
  BY <1>0
<1>72. m.node = [q \in E |-> m.node[q]]
  BY <1>0
<1> HIDE DEF m, n, E, a, b
<1>8. E = D \ {p} /\ \A q \in E : q \in D /\ q # p
  BY DEF E
<1>9. \A q \in E : m.node[q] \in Links
  <2> SUFFICES ASSUME NEW q \in E PROVE m.node[q] \in Links
    OBVIOUS
  <2>1. n[q] \in Links /\ a \in Pages \cup {Nil} /\ b \in Pages \cup {Nil}
    BY <1>2, <1>6, <1>8
  <2>2. n[q].prev \in Pages \cup {Nil} /\ n[q].next \in Pages \cup {Nil}
    BY <2>1 DEF Links
  <2>3. \E x, y \in Pages \cup {Nil} : m.node[q] = [prev |-> x, next |-> y]
    BY <1>71, <2>1, <2>2
  <2> QED
    BY <2>3 DEF Links
<1>10. IF E = {} THEN m.head = Nil /\ m.tail = Nil ELSE m.head \in E /\ m.tail \in E
  <2>1. CASE a = Nil /\ b = Nil
    <3>1. {p} \in SUBSET D /\ l.head \in {p} /\ \A q \in {p} : n[q].next \in {p} \cup {Nil}
      BY <1>2, <1>6, <2>1 DEF b
    <3>2. E = {}
      BY <1>4, <1>8, <3>1
    <3> QED
      BY <1>1, <2>1, <3>2
  <2>2. CASE a # Nil \/ b # Nil
    BY <1>1, <1>2, <1>6, <1>8, <2>2
  <2> QED
    BY <2>1, <2>2
<1>11. ASSUME NEW q \in E
       PROVE  IF q = m.tail THEN m.node[q].next = Nil
              ELSE m.node[q].next \in E /\ m.node[m.node[q].next].prev = q
  <2>1. CASE q = a
    BY <1>1, <1>2, <1>3, <1>6, <1>7, <1>8, <2>1
  <2>2. CASE q # a /\ q = l.tail
    BY <1>1, <1>2, <1>3, <1>6, <1>7, <1>8, <2>2
  <2>3. CASE q # a /\ q # l.tail
    <3>1. n[q].next \in D /\ n[n[q].next].prev = q
      BY <1>3, <1>8, <2>3
    <3>2. n[q].next # p
      BY <2>3, <3>1 DEF a
    <3>5. n[q].next # b
      BY <1>2, <1>6, <1>8, <3>1
    <3>3. m.node[q].next = n[q].next /\ n[q].next \in E /\ m.node[n[q].next].prev = q
      BY <1>7, <1>8, <2>3, <3>1, <3>2, <3>5
    <3>4. q # m.tail
      BY <1>1, <2>3
    <3> QED
      BY <3>3, <3>4
  <2> QED
    BY <2>1, <2>2, <2>3
<1>12. ASSUME NEW q \in E
       PROVE  IF q = m.head THEN m.node[q].prev = Nil
              ELSE m.node[q].prev \in E /\ m.node[m.node[q].prev].next = q
  <2>1. CASE q = b
    BY <1>1, <1>2, <1>3, <1>6, <1>7, <1>8, <2>1
  <2>2. CASE q # b /\ q = l.head
    BY <1>1, <1>2, <1>3, <1>6, <1>7, <1>8, <2>2
  <2>3. CASE q # b /\ q # l.head
    <3>1. n[q].prev \in D /\ n[n[q].prev].next = q
      BY <1>3, <1>8, <2>3
    <3>2. n[q].prev # p
      BY <2>3, <3>1 DEF b
    <3>5. n[q].prev # a
      BY <1>2, <1>6, <1>8, <3>1
    <3>3. m.node[q].prev = n[q].prev /\ n[q].prev \in E /\ m.node[n[q].prev].next = q
      BY <1>7, <1>8, <2>3, <3>1, <3>2, <3>5
    <3>4. q # m.head
      BY <1>1, <2>3
    <3> QED
      BY <3>3, <3>4
  <2> QED
    BY <2>1, <2>2, <2>3
<1>13. ASSUME NEW S \in SUBSET E, m.head \in S, \A q \in S : m.node[q].next \in S \cup {Nil}
       PROVE  S = E
  <2>1. \A q \in S : q # a => n[q].next \in S \cup {Nil}
    BY <1>7, <1>13
  <2>2. a # Nil => a \in S
    <3> SUFFICES ASSUME a # Nil, a \notin S PROVE FALSE
      OBVIOUS
    <3>1. l.head \in S /\ S \in SUBSET D
      BY <1>1, <1>8, <1>13
    <3>2. \A q \in S : n[q].next \in S \cup {Nil}
      BY <2>1
    <3>3. S = D
      BY <1>4, <3>1, <3>2
    <3> QED
      BY <1>2, <1>8, <3>3
  <2>3. b \in S \cup {Nil}
    <3>1. CASE a = Nil
      BY <1>1, <1>13, <3>1
    <3>2. CASE a # Nil
      BY <1>7, <1>13, <2>2, <3>2
    <3> QED
      BY <3>1, <3>2
  <2>4. \A q \in S \cup {p} : n[q].next \in (S \cup {p}) \cup {Nil}
    <3>1. n[p].next \in S \cup {Nil}
      BY <2>3 DEF b
    <3>2. \A q \in S : q = a => n[q].next = p
      BY <1>6, <1>8, <1>2
    <3> QED
      BY <2>1, <3>1, <3>2
  <2>5. l.head \in S \cup {p} /\ S \cup {p} \in SUBSET D
    BY <1>1, <1>2, <1>6, <1>8, <1>13
  <2>6. S \cup {p} = D
    BY <1>4, <2>4, <2>5
  <2> QED
    BY <1>8, <1>13, <2>6
<1>14. m.node \in [E -> Links] /\ DOMAIN m.node = E
  BY <1>1, <1>9, <1>72
<1>15. IsList(m)
  BY <1>10, <1>11, <1>12, <1>13, <1>14 DEF IsList
<1>16. E \subseteq Pages
  BY <1>2, <1>8
<1>17. GoodList(m) /\ DOMAIN m.node = D \ {p}
  BY <1>8, <1>14, <1>15, <1>16 DEF GoodList
<1> QED
  BY <1>17 DEF m, n

\* lru_push_front_inner puts one more page at the head.
LEMMA PushFrontIsList ==
  ASSUME NEW l, GoodList(l), NEW p \in Pages, p \notin DOMAIN l.node
  PROVE  GoodList(PushFront(l, p)) /\ DOMAIN PushFront(l, p).node = DOMAIN l.node \cup {p}
<1> DEFINE m == PushFront(l, p)
           n == l.node
           h == l.head
           D == DOMAIN n
           E == D \cup {p}
<1>1. m = [node |-> [q \in E |-> IF q = p THEN [prev |-> Nil, next |-> h]
                                ELSE IF q = h THEN [n[q] EXCEPT !.prev = p] ELSE n[q]],
           head |-> p, tail |-> IF h = Nil THEN p ELSE l.tail]
  BY DEF PushFront
<1>2. m.head = p /\ m.tail = (IF h = Nil THEN p ELSE l.tail) /\ DOMAIN m.node = E
      /\ m.node = [q \in E |-> m.node[q]]
  BY <1>1
<1>3. m.node[p] = [prev |-> Nil, next |-> h]
  BY <1>1
<1>4. ASSUME NEW q \in D, q # h PROVE m.node[q] = n[q]
  BY <1>1, <1>4
<1>5. ASSUME h \in D PROVE m.node[h] = [n[h] EXCEPT !.prev = p]
  BY <1>1, <1>5
<1>6. /\ D \subseteq Pages /\ Nil \notin D /\ p # Nil
      /\ \A q \in D : n[q] \in Links
      /\ IF D = {} THEN h = Nil /\ l.tail = Nil ELSE h \in D /\ l.tail \in D
      /\ \A q \in D : IF q = l.tail THEN n[q].next = Nil ELSE n[q].next \in D /\ n[n[q].next].prev = q
      /\ \A q \in D : IF q = h THEN n[q].prev = Nil ELSE n[q].prev \in D /\ n[n[q].prev].next = q
  BY PoolAssumption DEF GoodList, IsList
<1>7. \A S \in SUBSET D : h \in S /\ (\A q \in S : n[q].next \in S \cup {Nil}) => S = D
  BY DEF GoodList, IsList
<1>8. E = D \cup {p} /\ p \notin D
  OBVIOUS
<1> HIDE DEF m, n, D, E, h
<1>9. ASSUME NEW q \in D
      PROVE  m.node[q] \in Links /\ m.node[q].next = n[q].next
             /\ m.node[q].prev = IF q = h THEN p ELSE n[q].prev
  <2>1. n[q] \in Links
    BY <1>6
  <2>2. CASE q # h
    BY <1>4, <2>1, <2>2
  <2>3. CASE q = h
    <3>1. m.node[q] = [n[q] EXCEPT !.prev = p]
      BY <1>5, <2>3
    <3>2. m.node[q] \in Links /\ m.node[q].next = n[q].next /\ m.node[q].prev = p
      BY <2>1, <3>1 DEF Links
    <3> QED
      BY <2>3, <3>2
  <2> QED
    BY <2>2, <2>3
<1>10. m.node[p] \in Links /\ m.node[p].prev = Nil /\ m.node[p].next = h
  <2>1. h \in Pages \cup {Nil}
    BY <1>6
  <2> QED
    BY <1>3, <2>1 DEF Links
<1>11. m.node \in [E -> Links]
  BY <1>2, <1>8, <1>9, <1>10
<1>12. ASSUME NEW q \in E
       PROVE  /\ IF q = m.tail THEN m.node[q].next = Nil
                 ELSE m.node[q].next \in E /\ m.node[m.node[q].next].prev = q
              /\ IF q = m.head THEN m.node[q].prev = Nil
                 ELSE m.node[q].prev \in E /\ m.node[m.node[q].prev].next = q
  <2>1. CASE q = p
    <3>1. CASE h = Nil
      BY <1>2, <1>10, <2>1, <3>1
    <3>2. CASE h # Nil
      <4>1. h \in D /\ m.node[h].prev = p /\ m.tail \in D
        BY <1>2, <1>6, <1>9, <3>2
      <4> QED
        BY <1>2, <1>8, <1>10, <2>1, <4>1
    <3> QED
      BY <3>1, <3>2
  <2>2. CASE q \in D
    <3>1. D # {} /\ h \in D /\ h # Nil /\ m.tail = l.tail /\ q # m.head
      BY <1>2, <1>6, <1>8, <2>2
    <3>2. m.node[q].next = n[q].next /\ m.node[q].prev = IF q = h THEN p ELSE n[q].prev
      BY <1>9, <2>2
    <3>3. IF q = m.tail THEN m.node[q].next = Nil
          ELSE m.node[q].next \in E /\ m.node[m.node[q].next].prev = q
      <4>1. CASE q = l.tail
        BY <1>6, <2>2, <3>1, <3>2, <4>1
      <4>2. CASE q # l.tail
        <5>1. n[q].next \in D /\ n[n[q].next].prev = q
          BY <1>6, <2>2, <4>2
        <5>2. n[q].next # h
          BY <1>6, <2>2, <5>1
        <5>3. m.node[n[q].next].prev = q
          BY <1>9, <5>1, <5>2
        <5> QED
          BY <1>8, <3>1, <3>2, <4>2, <5>1, <5>3
      <4> QED
        BY <4>1, <4>2
    <3>4. m.node[q].prev \in E /\ m.node[m.node[q].prev].next = q
      <4>1. CASE q = h
        BY <1>8, <1>10, <3>2, <4>1
      <4>2. CASE q # h
        <5>1. n[q].prev \in D /\ n[n[q].prev].next = q
          BY <1>6, <2>2, <4>2
        <5>2. m.node[n[q].prev].next = q
          BY <1>9, <5>1
        <5> QED
          BY <1>8, <3>2, <4>2, <5>1, <5>2
      <4> QED
        BY <4>1, <4>2
    <3> QED
      BY <3>1, <3>3, <3>4
  <2> QED
    BY <1>8, <2>1, <2>2
<1>13. ASSUME NEW S \in SUBSET E, p \in S, \A q \in S : m.node[q].next \in S \cup {Nil}
       PROVE  S = E
  <2>1. h \in S \cup {Nil}
    BY <1>10, <1>13
  <2>2. CASE D = {}
    BY <1>8, <1>13, <2>2
  <2>3. CASE D # {}
    <3>1. S \ {p} \in SUBSET D /\ h \in S \ {p}
      BY <1>6, <1>8, <1>13, <2>1, <2>3
    <3>2. \A q \in S \ {p} : n[q].next \in (S \ {p}) \cup {Nil}
      <4> SUFFICES ASSUME NEW q \in S \ {p} PROVE n[q].next \in (S \ {p}) \cup {Nil}
        OBVIOUS
      <4>1. q \in D /\ q \in S
        BY <3>1
      <4>2. n[q].next \in S \cup {Nil}
        BY <1>9, <1>13, <4>1
      <4>3. n[q].next \in D \cup {Nil}
        BY <1>6, <4>1
      <4> QED
        BY <1>8, <1>6, <4>2, <4>3
    <3>3. S \ {p} = D
      BY <1>7, <3>1, <3>2
    <3> QED
      BY <1>8, <1>13, <3>3
  <2> QED
    BY <2>2, <2>3
<1>14. m.head \in E /\ m.tail \in E /\ E # {}
  BY <1>2, <1>6, <1>8
<1>15. IsList(m)
  BY <1>2, <1>12, <1>13, <1>14 DEF IsList
<1>16. E \subseteq Pages
  BY <1>6, <1>8
<1>17. GoodList(m) /\ DOMAIN m.node = D \cup {p}
  BY <1>2, <1>8, <1>11, <1>15, <1>16 DEF GoodList
<1> QED
  BY <1>17 DEF m, n, D

\* touch_lru_inner moves a page to the head, or puts it there.
LEMMA TouchIsList ==
  ASSUME NEW l, GoodList(l), NEW p \in Pages
  PROVE  GoodList(Touch(l, p)) /\ DOMAIN Touch(l, p).node = DOMAIN l.node \cup {p}
<1> DEFINE m == Unlink(l, p)
<1>1. GoodList(m) /\ DOMAIN m.node = DOMAIN l.node \ {p}
  <2>1. CASE p \in DOMAIN l.node
    BY UnlinkIsList, <2>1
  <2>2. CASE p \notin DOMAIN l.node
    BY <2>2 DEF Unlink
  <2> QED
    BY <2>1, <2>2
<1>2. p \notin DOMAIN m.node
  BY <1>1
<1> HIDE DEF m
<1>3. GoodList(PushFront(m, p)) /\ DOMAIN PushFront(m, p).node = DOMAIN m.node \cup {p}
  BY PushFrontIsList, <1>1, <1>2
<1>4. Touch(l, p) = PushFront(m, p)
  BY DEF Touch, m
<1> QED
  BY <1>1, <1>3, <1>4

-----------------------------------------------------------------------------
(* Frames, list and files together.                                        *)

\* Frames fs, list l and files d agree: the list links the frames, and a frame
\* that is not dirty holds what its file holds.
Holds(fs, l, d) ==
  /\ DOMAIN fs \subseteq Pages /\ IsFiniteSet(DOMAIN fs)
  /\ \A q \in DOMAIN fs : fs[q] \in Frame
  /\ d \in [Pages -> Values]
  /\ DOMAIN l.node = DOMAIN fs /\ GoodList(l)
  /\ \A q \in DOMAIN fs : fs[q].dirty \/ fs[q].data = d[q]

SeenIn(fs, d, q) == IF q \in DOMAIN fs THEN fs[q].data ELSE d[q]

\* The strengthening: without it a frame dropped unwritten could lose a write.
PoolInv ==
  /\ Holds(frames, List, disk)
  /\ Cardinality(DOMAIN frames) <= MaxPages
  /\ \A q \in Pages \ lost : SeenIn(frames, disk, q) = written[q]
  /\ written \in [Pages -> Values] /\ lost \subseteq Pages
  /\ pc \in [Readers -> Pages \cup {Nil}]

\* What remains of the frames and the list when the tail is dropped.
LEMMA DropTail ==
  ASSUME PoolInv, Full
  PROVE  /\ tail \in DOMAIN frames /\ frames[tail] \in Frame
         /\ DOMAIN Restrict(frames, DOMAIN frames \ {tail}) = DOMAIN frames \ {tail}
         /\ \A q \in DOMAIN frames \ {tail} : Restrict(frames, DOMAIN frames \ {tail})[q] = frames[q]
         /\ GoodList(Unlink(List, tail)) /\ DOMAIN Unlink(List, tail).node = DOMAIN frames \ {tail}
         /\ IsFiniteSet(DOMAIN frames \ {tail})
         /\ Cardinality(DOMAIN frames \ {tail}) < MaxPages
<1>1. /\ IsFiniteSet(DOMAIN frames) /\ DOMAIN List.node = DOMAIN frames /\ GoodList(List)
      /\ \A q \in DOMAIN frames : frames[q] \in Frame
      /\ Cardinality(DOMAIN frames) <= MaxPages
  BY DEF PoolInv, Holds
<1>2. Cardinality(DOMAIN frames) \in Nat
  BY <1>1, FS_CardinalityType
<1>3. DOMAIN frames # {}
  <2>1. Cardinality(DOMAIN frames) # 0
    BY <1>2, PoolAssumption DEF Full
  <2> QED
    BY <2>1, FS_EmptySet
<1>4. tail \in DOMAIN frames
  BY <1>1, <1>3 DEF GoodList, IsList, List
<1>5. GoodList(Unlink(List, tail)) /\ DOMAIN Unlink(List, tail).node = DOMAIN frames \ {tail}
  <2>1. tail \in DOMAIN List.node
    BY <1>1, <1>4
  <2> HIDE DEF List
  <2> QED
    BY <1>1, <2>1, UnlinkIsList
<1>6. IsFiniteSet(DOMAIN frames \ {tail})
      /\ Cardinality(DOMAIN frames \ {tail}) = Cardinality(DOMAIN frames) - 1
  BY <1>1, <1>4, FS_RemoveElement
<1>7. Cardinality(DOMAIN frames \ {tail}) < MaxPages
  BY <1>1, <1>2, <1>6, PoolAssumption
<1>8. /\ DOMAIN Restrict(frames, DOMAIN frames \ {tail}) = DOMAIN frames \ {tail}
      /\ \A q \in DOMAIN frames \ {tail} : Restrict(frames, DOMAIN frames \ {tail})[q] = frames[q]
  BY DEF Restrict
<1> QED
  BY <1>1, <1>4, <1>5, <1>6, <1>7, <1>8

\* ensure_capacity_inner leaves room for a frame and changes nothing a read
\* returns.
LEMMA RoomHolds ==
  ASSUME PoolInv
  PROVE  /\ Holds(MakeRoom.frames, MakeRoom.list, MakeRoom.disk)
         /\ Cardinality(DOMAIN MakeRoom.frames) < MaxPages
         /\ DOMAIN MakeRoom.frames \subseteq DOMAIN frames
         /\ \A q \in Pages : SeenIn(MakeRoom.frames, MakeRoom.disk, q) = SeenIn(frames, disk, q)
<1>1. CASE ~ Full
  <2>1. MakeRoom.frames = frames /\ MakeRoom.list = List /\ MakeRoom.disk = disk
    BY <1>1 DEF MakeRoom
  <2>2. Holds(frames, List, disk)
    BY DEF PoolInv
  <2>3. Cardinality(DOMAIN frames) < MaxPages
    <3>1. Cardinality(DOMAIN frames) \in Nat
      BY <2>2, FS_CardinalityType DEF Holds
    <3> QED
      BY <1>1, <3>1, PoolAssumption DEF Full
  <2> QED
    BY <2>1, <2>2, <2>3
<1>2. CASE Full
  <2> DEFINE fs == Restrict(frames, DOMAIN frames \ {tail})
             l == Unlink(List, tail)
             d == IF frames[tail].dirty THEN [disk EXCEPT ![tail] = frames[tail].data] ELSE disk
  <2>1. MakeRoom.frames = fs /\ MakeRoom.list = l /\ MakeRoom.disk = d
    BY <1>2 DEF MakeRoom
  <2>2. /\ tail \in DOMAIN frames /\ frames[tail] \in Frame
        /\ DOMAIN fs = DOMAIN frames \ {tail}
        /\ \A q \in DOMAIN frames \ {tail} : fs[q] = frames[q]
        /\ GoodList(l) /\ DOMAIN l.node = DOMAIN frames \ {tail}
        /\ IsFiniteSet(DOMAIN frames \ {tail})
        /\ Cardinality(DOMAIN frames \ {tail}) < MaxPages
    BY <1>2, DropTail
  <2>3. /\ DOMAIN frames \subseteq Pages /\ disk \in [Pages -> Values]
        /\ \A q \in DOMAIN frames : frames[q] \in Frame
        /\ \A q \in DOMAIN frames : frames[q].dirty \/ frames[q].data = disk[q]
    BY DEF PoolInv, Holds
  <2>4. frames[tail].data \in Values
    BY <2>2 DEF Frame
  <2>5. /\ d \in [Pages -> Values] /\ d[tail] = frames[tail].data
        /\ \A q \in Pages \ {tail} : d[q] = disk[q]
    BY <2>2, <2>3, <2>4
  <2> HIDE DEF fs, l, d
  <2>6. Holds(fs, l, d)
    BY <2>2, <2>3, <2>5 DEF Holds
  <2>7. \A q \in Pages : SeenIn(fs, d, q) = SeenIn(frames, disk, q)
    BY <2>2, <2>3, <2>5 DEF SeenIn
  <2>8. Cardinality(DOMAIN fs) < MaxPages /\ DOMAIN fs \subseteq DOMAIN frames
    BY <2>2
  <2> QED
    BY <2>1, <2>6, <2>7, <2>8
<1> QED
  BY <1>1, <1>2

\* frames.insert with a list that has gained the page.
LEMMA InsertHolds ==
  ASSUME NEW fs, NEW l, NEW d, NEW m, NEW p \in Pages, NEW f \in Frame,
         Holds(fs, l, d), Cardinality(DOMAIN fs) < MaxPages, p \notin DOMAIN fs,
         GoodList(m), DOMAIN m.node = DOMAIN l.node \cup {p},
         f.dirty \/ f.data = d[p]
  PROVE  /\ Holds(Insert(fs, p, f), m, d)
         /\ Cardinality(DOMAIN Insert(fs, p, f)) <= MaxPages
         /\ SeenIn(Insert(fs, p, f), d, p) = f.data
         /\ \A q \in Pages \ {p} : SeenIn(Insert(fs, p, f), d, q) = SeenIn(fs, d, q)
<1> DEFINE g == Insert(fs, p, f)
<1>1. DOMAIN g = DOMAIN fs \cup {p} /\ g[p] = f /\ \A q \in DOMAIN fs : g[q] = fs[q]
  BY DEF Insert
<1>2. IsFiniteSet(DOMAIN fs) /\ DOMAIN fs \subseteq Pages
  BY DEF Holds
<1>3. IsFiniteSet(DOMAIN fs \cup {p}) /\ Cardinality(DOMAIN fs \cup {p}) = Cardinality(DOMAIN fs) + 1
  BY <1>2, FS_AddElement
<1>4. Cardinality(DOMAIN fs) \in Nat
  BY <1>2, FS_CardinalityType
<1> HIDE DEF g
<1>5. Cardinality(DOMAIN g) <= MaxPages
  BY <1>1, <1>3, <1>4, PoolAssumption
<1>6. Holds(g, m, d)
  BY <1>1, <1>3 DEF Holds
<1>7. SeenIn(g, d, p) = f.data /\ \A q \in Pages \ {p} : SeenIn(g, d, q) = SeenIn(fs, d, q)
  BY <1>1 DEF SeenIn
<1> QED
  BY <1>5, <1>6, <1>7 DEF g

-----------------------------------------------------------------------------
(* The operations.                                                         *)

\* SetList makes its argument the list of the next state.
LEMMA ListNext ==
  ASSUME NEW l, SetList(l), GoodList(l)
  PROVE  GoodList(List') /\ DOMAIN List'.node = DOMAIN l.node
<1>1. List'.node = l.node /\ List'.head = l.head /\ List'.tail = l.tail
  BY DEF SetList, List
<1> HIDE DEF List
<1> QED
  BY <1>1 DEF GoodList, IsList

\* Frames, list and files that agree do so as the next state.
LEMMA HoldsNext ==
  ASSUME NEW fs, NEW l, NEW d, Holds(fs, l, d), frames' = fs, disk' = d, SetList(l)
  PROVE  Holds(frames, List, disk)'
<1>1. GoodList(List') /\ DOMAIN List'.node = DOMAIN l.node
  BY ListNext DEF Holds
<1> HIDE DEF List
<1>2. Holds(frames', List', disk')
  BY <1>1 DEF Holds
<1> QED
  BY <1>2 DEF Holds, SeenIn, GoodList, IsList

\* A page that is cached moves to the head.
LEMMA TouchHolds ==
  ASSUME NEW fs, NEW d, NEW l, Holds(fs, l, d), NEW p \in DOMAIN fs
  PROVE  Holds(fs, Touch(l, p), d)
<1>1. p \in Pages /\ GoodList(l) /\ DOMAIN l.node = DOMAIN fs
  BY DEF Holds
<1>2. GoodList(Touch(l, p)) /\ DOMAIN Touch(l, p).node = DOMAIN l.node \cup {p}
  BY <1>1, TouchIsList
<1>3. DOMAIN Touch(l, p).node = DOMAIN fs
  BY <1>1, <1>2
<1> QED
  BY <1>2, <1>3 DEF Holds

\* A miss under the shared lock touches nothing of the pool.
LEMMA GetMissStep ==
  ASSUME PoolInv, NEW r \in Readers, NEW p \in Pages, GetMiss(r, p)
  PROVE  PoolInv'
<1>1. pool' = pool /\ written' = written /\ lost' = lost /\ pc' = [pc EXCEPT ![r] = p]
  BY DEF GetMiss
<1>2. List' = List /\ frames' = frames /\ disk' = disk
  BY <1>1 DEF pool, List
<1>3. pc' \in [Readers -> Pages \cup {Nil}]
  BY <1>1 DEF PoolInv
<1> HIDE DEF List
<1> QED
  BY <1>1, <1>2, <1>3 DEF PoolInv

\* The page that comes in is read from its file, which holds what a read
\* returned before: nobody has cached the page since the look under this lock.
LEMMA LoadStep ==
  ASSUME PoolInv, NEW r \in Readers, Load(r)
  PROVE  PoolInv'
<1> DEFINE p == pc[r]
<1>1. /\ p \in Pages /\ pc' \in [Readers -> Pages \cup {Nil}]
      /\ written' = written /\ lost' = lost
  BY DEF Load, PoolInv
<1>2. /\ Holds(frames, List, disk) /\ Cardinality(DOMAIN frames) <= MaxPages
      /\ \A q \in Pages \ lost : SeenIn(frames, disk, q) = written[q]
      /\ written \in [Pages -> Values] /\ lost \subseteq Pages
  BY DEF PoolInv
<1>3. CASE p \in DOMAIN frames
  <2>1. SetList(Touch(List, p)) /\ frames' = frames /\ disk' = disk
    BY <1>3 DEF Load
  <2>2. Holds(frames, Touch(List, p), disk)
    BY <1>2, <1>3, TouchHolds
  <2>3. Holds(frames, List, disk)'
    BY <2>1, <2>2, HoldsNext
  <2> QED
    BY <1>1, <1>2, <2>1, <2>3 DEF PoolInv, SeenIn
<1>4. CASE p \notin DOMAIN frames
  <2> DEFINE f == [data |-> disk[p], dirty |-> FALSE]
             fs == MakeRoom.frames
             d == MakeRoom.disk
             m == Touch(MakeRoom.list, p)
  <2>1. frames' = Insert(fs, p, f) /\ disk' = d /\ SetList(m)
    BY <1>4 DEF Load
  <2>2. /\ Holds(fs, MakeRoom.list, d) /\ Cardinality(DOMAIN fs) < MaxPages
        /\ DOMAIN fs \subseteq DOMAIN frames
        /\ \A q \in Pages : SeenIn(fs, d, q) = SeenIn(frames, disk, q)
    BY RoomHolds
  <2>3. GoodList(m) /\ DOMAIN m.node = DOMAIN MakeRoom.list.node \cup {p}
    <3>1. GoodList(MakeRoom.list)
      BY <2>2 DEF Holds
    <3> QED
      BY <1>1, <3>1, TouchIsList
  <2>4. f \in Frame /\ f.data = disk[p]
    BY <1>1, <1>2 DEF Holds, Frame
  <2>5. p \notin DOMAIN fs /\ d[p] = disk[p]
    BY <1>1, <1>4, <2>2 DEF SeenIn
  <2> HIDE DEF f, fs, d, m, p
  <2>6. /\ Holds(Insert(fs, p, f), m, d)
        /\ Cardinality(DOMAIN Insert(fs, p, f)) <= MaxPages
        /\ SeenIn(Insert(fs, p, f), d, p) = f.data
        /\ \A q \in Pages \ {p} : SeenIn(Insert(fs, p, f), d, q) = SeenIn(fs, d, q)
    BY <1>1, <2>2, <2>3, <2>4, <2>5, InsertHolds
  <2>7. Holds(frames, List, disk)'
    BY <2>1, <2>6, HoldsNext
  <2>8. \A q \in Pages : SeenIn(Insert(fs, p, f), d, q) = SeenIn(frames, disk, q)
    BY <1>4, <2>2, <2>4, <2>6 DEF SeenIn
  <2>9. \A q \in Pages \ lost : SeenIn(frames', disk', q) = written[q]
    BY <1>2, <2>1, <2>8
  <2> QED
    BY <1>1, <1>2, <2>1, <2>6, <2>7, <2>9 DEF PoolInv, SeenIn
<1> QED
  BY <1>3, <1>4

\* A victim that could not be written is out of the pool, and named.
LEMMA EvictionFailsStep ==
  ASSUME PoolInv, EvictionFails, written' = written, pc' \in [Readers -> Pages \cup {Nil}]
  PROVE  PoolInv'
<1> DEFINE fs == Restrict(frames, DOMAIN frames \ {tail})
           l == Unlink(List, tail)
<1>1. frames' = fs /\ SetList(l) /\ lost' = lost \cup {tail} /\ Full
  BY DEF EvictionFails
<1>2. /\ Holds(frames, List, disk) /\ Cardinality(DOMAIN frames) <= MaxPages
      /\ \A q \in Pages \ lost : SeenIn(frames, disk, q) = written[q]
      /\ written \in [Pages -> Values] /\ lost \subseteq Pages
  BY DEF PoolInv
<1>3. /\ tail \in DOMAIN frames /\ DOMAIN fs = DOMAIN frames \ {tail}
      /\ \A q \in DOMAIN frames \ {tail} : fs[q] = frames[q]
      /\ GoodList(l) /\ DOMAIN l.node = DOMAIN frames \ {tail}
      /\ IsFiniteSet(DOMAIN frames \ {tail})
      /\ Cardinality(DOMAIN frames \ {tail}) < MaxPages
  BY <1>1, DropTail
<1>9. PICK v \in Values : disk' = [disk EXCEPT ![tail] = v]
  BY DEF EvictionFails
<1>10. disk' \in [Pages -> Values] /\ \A q \in Pages \ {tail} : disk'[q] = disk[q]
  BY <1>2, <1>9 DEF Holds
<1> HIDE DEF fs, l
<1>4. Holds(fs, l, disk')
  BY <1>2, <1>3, <1>10 DEF Holds
<1>5. Holds(frames, List, disk)'
  BY <1>1, <1>4, HoldsNext
<1>6. \A q \in Pages \ (lost \cup {tail}) : SeenIn(fs, disk', q) = written[q]
  BY <1>2, <1>3, <1>10 DEF SeenIn
<1>7. Cardinality(DOMAIN fs) <= MaxPages
  <2>1. Cardinality(DOMAIN fs) \in Nat
    BY <1>3, FS_CardinalityType
  <2> QED
    BY <1>3, <2>1, PoolAssumption
<1>8. lost \cup {tail} \subseteq Pages
  BY <1>2, <1>3 DEF Holds
<1> QED
  BY <1>1, <1>2, <1>5, <1>6, <1>7, <1>8 DEF PoolInv, SeenIn

\* A load that fails, in the eviction or in the read, brings no page in.
LEMMA LoadFailsStep ==
  ASSUME PoolInv, NEW r \in Readers, LoadFails(r)
  PROVE  PoolInv'
<1>1. pc' \in [Readers -> Pages \cup {Nil}] /\ written' = written
  BY DEF LoadFails, PoolInv
<1>2. CASE EvictionFails
  BY <1>1, <1>2, EvictionFailsStep
<1>3. CASE /\ frames' = MakeRoom.frames /\ disk' = MakeRoom.disk
           /\ SetList(MakeRoom.list) /\ UNCHANGED lost
  <2> DEFINE fs == MakeRoom.frames
             d == MakeRoom.disk
  <2>1. /\ Holds(fs, MakeRoom.list, d) /\ Cardinality(DOMAIN fs) < MaxPages
        /\ \A q \in Pages : SeenIn(fs, d, q) = SeenIn(frames, disk, q)
    BY RoomHolds
  <2>2. /\ \A q \in Pages \ lost : SeenIn(frames, disk, q) = written[q]
        /\ written \in [Pages -> Values] /\ lost \subseteq Pages
    BY DEF PoolInv
  <2>3. frames' = fs /\ disk' = d /\ SetList(MakeRoom.list) /\ lost' = lost
    BY <1>3
  <2> HIDE DEF fs, d
  <2>4. Cardinality(DOMAIN fs) <= MaxPages
    <3>1. Cardinality(DOMAIN fs) \in Nat
      BY <2>1, FS_CardinalityType DEF Holds
    <3> QED
      BY <2>1, <3>1, PoolAssumption
  <2>5. Holds(frames, List, disk)'
    BY <2>1, <2>3, HoldsNext
  <2>6. \A q \in Pages \ lost : SeenIn(fs, d, q) = written[q]
    BY <2>1, <2>2
  <2> QED
    BY <1>1, <2>2, <2>3, <2>4, <2>5, <2>6 DEF PoolInv, SeenIn
<1> QED
  BY <1>2, <1>3 DEF LoadFails

\* A write is in the pool, dirty, and the page is no longer lost.
LEMMA PutPageStep ==
  ASSUME PoolInv, NEW p \in Pages, NEW v \in Values, PutPage(p, v)
  PROVE  PoolInv'
<1> DEFINE f == [data |-> v, dirty |-> TRUE]
<1>1. /\ Holds(frames, List, disk) /\ Cardinality(DOMAIN frames) <= MaxPages
      /\ \A q \in Pages \ lost : SeenIn(frames, disk, q) = written[q]
      /\ written \in [Pages -> Values] /\ lost \subseteq Pages
      /\ pc \in [Readers -> Pages \cup {Nil}]
  BY DEF PoolInv
<1>2. /\ written' = [written EXCEPT ![p] = v] /\ lost' = lost \ {p} /\ pc' = pc
  BY DEF PutPage
<1>3. written' \in [Pages -> Values] /\ written'[p] = v /\ \A q \in Pages \ {p} : written'[q] = written[q]
  BY <1>1, <1>2
<1>4. f \in Frame /\ f.dirty /\ f.data = v
  BY DEF Frame
<1>5. CASE p \in DOMAIN frames
  <2> DEFINE g == [frames EXCEPT ![p] = f]
  <2>1. frames' = g /\ SetList(Touch(List, p)) /\ disk' = disk
    BY <1>5 DEF PutPage
  <2>2. DOMAIN g = DOMAIN frames /\ g[p] = f /\ \A q \in DOMAIN frames \ {p} : g[q] = frames[q]
    BY <1>5
  <2> HIDE DEF g, f
  <2>3. Holds(g, List, disk)
    <3> HIDE DEF List
    <3> QED
      BY <1>1, <1>4, <2>2 DEF Holds
  <2>4. Holds(g, Touch(List, p), disk)
    <3>1. p \in DOMAIN g
      BY <1>5, <2>2
    <3> HIDE DEF List
    <3> QED
      BY <2>3, <3>1, TouchHolds
  <2>5. Holds(frames, List, disk)'
    BY <2>1, <2>4, HoldsNext
  <2>6. \A q \in Pages \ (lost \ {p}) : SeenIn(g, disk, q) = written'[q]
    BY <1>1, <1>3, <1>4, <1>5, <2>2 DEF SeenIn
  <2>7. Cardinality(DOMAIN g) <= MaxPages /\ lost \ {p} \subseteq Pages
    BY <1>1, <2>2
  <2> QED
    BY <1>1, <1>2, <1>3, <2>1, <2>5, <2>6, <2>7 DEF PoolInv, SeenIn
<1>6. CASE p \notin DOMAIN frames
  <2> DEFINE fs == MakeRoom.frames
             d == MakeRoom.disk
             m == PushFront(MakeRoom.list, p)
  <2>1. frames' = Insert(fs, p, f) /\ disk' = d /\ SetList(m)
    BY <1>6 DEF PutPage
  <2>2. /\ Holds(fs, MakeRoom.list, d) /\ Cardinality(DOMAIN fs) < MaxPages
        /\ DOMAIN fs \subseteq DOMAIN frames
        /\ \A q \in Pages : SeenIn(fs, d, q) = SeenIn(frames, disk, q)
    BY RoomHolds
  <2>3. p \notin DOMAIN fs
    BY <1>6, <2>2
  <2>4. GoodList(m) /\ DOMAIN m.node = DOMAIN MakeRoom.list.node \cup {p}
    <3>1. GoodList(MakeRoom.list) /\ p \notin DOMAIN MakeRoom.list.node
      BY <2>2, <2>3 DEF Holds
    <3> QED
      BY <3>1, PushFrontIsList
  <2>41. f \in Frame /\ (f.dirty \/ f.data = d[p])
    BY <1>4
  <2> HIDE DEF f, fs, d, m
  <2>5. /\ Holds(Insert(fs, p, f), m, d)
        /\ Cardinality(DOMAIN Insert(fs, p, f)) <= MaxPages
        /\ SeenIn(Insert(fs, p, f), d, p) = f.data
        /\ \A q \in Pages \ {p} : SeenIn(Insert(fs, p, f), d, q) = SeenIn(fs, d, q)
    BY <2>2, <2>3, <2>4, <2>41, InsertHolds
  <2>6. Holds(frames, List, disk)'
    BY <2>1, <2>5, HoldsNext
  <2>7. \A q \in Pages \ (lost \ {p}) : SeenIn(Insert(fs, p, f), d, q) = written'[q]
    BY <1>1, <1>3, <1>4, <2>2, <2>5
  <2>8. lost \ {p} \subseteq Pages
    BY <1>1
  <2> QED
    BY <1>1, <1>2, <1>3, <2>1, <2>5, <2>6, <2>7, <2>8 DEF PoolInv, SeenIn
<1> QED
  BY <1>5, <1>6

\* What is written becomes clean; a page whose write fails stays dirty, so what
\* its file holds does not matter.
LEMMA FlushFileStep ==
  ASSUME PoolInv, FlushFile
  PROVE  PoolInv'
<1> DEFINE dirty == {p \in DOMAIN frames : frames[p].dirty}
<1>1. PICK done \in SUBSET dirty, v \in Values : \E bad \in (dirty \ done) \cup {Nil} :
        /\ disk' = [p \in Pages |-> IF p \in done THEN frames[p].data ELSE IF p = bad THEN v ELSE disk[p]]
        /\ frames' = [p \in DOMAIN frames |-> IF p \in done THEN [frames[p] EXCEPT !.dirty = FALSE]
                                              ELSE frames[p]]
        /\ UNCHANGED <<node, head, tail, pc, written, lost>>
  BY DEF FlushFile
<1>0. PICK bad \in (dirty \ done) \cup {Nil} :
        disk' = [p \in Pages |-> IF p \in done THEN frames[p].data ELSE IF p = bad THEN v ELSE disk[p]]
  BY <1>1
<1>2. List' = List /\ pc' = pc /\ written' = written /\ lost' = lost
  BY <1>1 DEF List
<1>3. /\ Holds(frames, List, disk) /\ Cardinality(DOMAIN frames) <= MaxPages
      /\ \A q \in Pages \ lost : SeenIn(frames, disk, q) = written[q]
      /\ written \in [Pages -> Values] /\ lost \subseteq Pages
      /\ pc \in [Readers -> Pages \cup {Nil}]
  BY DEF PoolInv
<1>4. /\ DOMAIN frames \subseteq Pages /\ disk \in [Pages -> Values] /\ done \subseteq DOMAIN frames
      /\ \A q \in DOMAIN frames : frames[q] \in Frame
      /\ \A q \in DOMAIN frames : frames[q].dirty \/ frames[q].data = disk[q]
  BY <1>3 DEF Holds
<1>5. DOMAIN frames' = DOMAIN frames
  BY <1>1
<1>6. ASSUME NEW q \in DOMAIN frames
      PROVE  /\ frames'[q] \in Frame /\ frames'[q].data = frames[q].data
             /\ frames'[q].dirty \/ frames'[q].data = disk'[q]
  <2>1. CASE q \in done
    <3>1. frames'[q] = [frames[q] EXCEPT !.dirty = FALSE] /\ disk'[q] = frames[q].data
      BY <1>0, <1>1, <1>4, <2>1
    <3>2. frames[q] \in Frame
      BY <1>4
    <3> QED
      BY <3>1, <3>2 DEF Frame
  <2>2. CASE q \notin done
    <3>1. frames'[q] = frames[q]
      BY <1>1, <2>2
    <3>2. CASE q = bad
      <4>1. frames[q].dirty
        BY <1>0, <1>4, <3>2, PoolAssumption
      <4> QED
        BY <1>4, <3>1, <4>1
    <3>3. CASE q # bad
      <4>1. disk'[q] = disk[q]
        BY <1>0, <1>4, <2>2, <3>3
      <4> QED
        BY <1>4, <3>1, <4>1
    <3> QED
      BY <3>2, <3>3
  <2> QED
    BY <2>1, <2>2
<1>7. ASSUME NEW q \in Pages PROVE disk'[q] \in Values /\ (q \notin DOMAIN frames => disk'[q] = disk[q])
  <2>1. q \in done => frames[q].data \in Values
    BY <1>4 DEF Frame
  <2>2. q = bad => q \in DOMAIN frames
    BY <1>0, PoolAssumption
  <2>3. disk'[q] = IF q \in done THEN frames[q].data ELSE IF q = bad THEN v ELSE disk[q]
    BY <1>0
  <2> QED
    BY <1>4, <2>1, <2>2, <2>3
<1>8. disk' \in [Pages -> Values]
  BY <1>0, <1>7
<1> HIDE DEF List
<1>9. Holds(frames', List', disk')
  BY <1>2, <1>3, <1>4, <1>5, <1>6, <1>8 DEF Holds
<1>10. \A q \in Pages : SeenIn(frames', disk', q) = SeenIn(frames, disk, q)
  BY <1>5, <1>6, <1>7 DEF SeenIn
<1>11. \A q \in Pages \ lost : SeenIn(frames', disk', q) = written[q]
  BY <1>3, <1>10
<1> QED
  BY <1>2, <1>3, <1>5, <1>9, <1>11 DEF PoolInv, SeenIn, Holds, GoodList, IsList

\* The empty pool.
LEMMA InitHolds == InitPool => PoolInv
<1> SUFFICES ASSUME InitPool PROVE PoolInv
  OBVIOUS
<1>1. /\ frames = Nothing /\ node = Nothing /\ head = Nil /\ tail = Nil /\ lost = {}
      /\ disk = [p \in Pages |-> ZeroValue] /\ written = [p \in Pages |-> ZeroValue]
      /\ pc = [r \in Readers |-> Nil]
  BY DEF InitPool
<1>2. DOMAIN frames = {} /\ DOMAIN node = {}
  BY <1>1 DEF Nothing
<1>3. IsFiniteSet({}) /\ Cardinality({}) = 0
  BY FS_EmptySet
<1>4. List.node = node /\ List.head = Nil /\ List.tail = Nil
  BY <1>1 DEF List
<1>5. node \in [{} -> Links]
  BY <1>1 DEF Nothing
<1> HIDE DEF List
<1>6. GoodList(List)
  BY <1>2, <1>4, <1>5 DEF GoodList, IsList
<1>7. Holds(frames, List, disk)
  BY <1>1, <1>2, <1>3, <1>4, <1>6, PoolAssumption DEF Holds
<1>8. Cardinality(DOMAIN frames) <= MaxPages
  BY <1>2, <1>3, PoolAssumption
<1> QED
  BY <1>1, <1>2, <1>7, <1>8, PoolAssumption DEF PoolInv, SeenIn

\* Whatever readers, writers, flushes and failing files do in whatever order,
\* the pool (buffer_pool.rs) stays within its limit, its eviction list links
\* exactly the cached pages into one chain, and a read returns the last write
\* of every page whose own eviction has not failed since.
THEOREM PoolHolds == SpecPool => []PoolIsSound
<1>1. PoolInv /\ [NextPool]_poolVars => PoolInv'
  <2> SUFFICES ASSUME PoolInv, [NextPool]_poolVars PROVE PoolInv'
    OBVIOUS
  <2>1. ASSUME NEW r \in Readers, NEW p \in Pages, GetMiss(r, p) PROVE PoolInv'
    BY <2>1, GetMissStep
  <2>2. ASSUME NEW r \in Readers, Load(r) PROVE PoolInv'
    BY <2>2, LoadStep
  <2>3. ASSUME NEW r \in Readers, LoadFails(r) PROVE PoolInv'
    BY <2>3, LoadFailsStep
  <2>4. ASSUME NEW p \in Pages, PutFails(p) PROVE PoolInv'
    <3>1. EvictionFails /\ written' = written /\ pc' = pc
      BY <2>4 DEF PutFails
    <3>2. pc' \in [Readers -> Pages \cup {Nil}]
      BY <3>1 DEF PoolInv
    <3> QED
      BY <3>1, <3>2, EvictionFailsStep
  <2>5. ASSUME NEW p \in Pages, NEW v \in Values, PutPage(p, v) PROVE PoolInv'
    BY <2>5, PutPageStep
  <2>6. CASE FlushFile
    BY <2>6, FlushFileStep
  <2>7. CASE UNCHANGED poolVars
    <3>1. List' = List /\ frames' = frames /\ disk' = disk /\ pc' = pc /\ written' = written /\ lost' = lost
      BY <2>7 DEF poolVars, pool, List
    <3> HIDE DEF List
    <3> QED
      BY <3>1 DEF PoolInv
  <2> QED
    BY <2>1, <2>2, <2>3, <2>4, <2>5, <2>6, <2>7 DEF NextPool
<1>2. PoolInv => PoolIsSound
  <2> SUFFICES ASSUME PoolInv PROVE PoolIsSound
    OBVIOUS
  <2>1. LruIsList
    <3>1. DOMAIN List.node = DOMAIN frames /\ IsList(List)
      BY DEF PoolInv, Holds, GoodList
    <3> QED
      BY <3>1 DEF LruIsList, List
  <2> QED
    BY <2>1 DEF PoolInv, PoolIsSound, PoolIsBounded, PoolIsMemory, PageSeen, SeenIn
<1> QED
  BY InitHolds, <1>1, <1>2, PTL DEF SpecPool

-----------------------------------------------------------------------------
(* Backup and restore.                                                     *)

\* What a directory, a call and a result can be.
File == [ver : Nat, ok : BOOLEAN]
DirType == [there : BOOLEAN, files : [FileNames -> File]]
Ops == {"none", "restore", "snapshot", "reconcile"}
Lefts == {<<"db", "meta", "schema">>, <<"meta", "schema">>, <<"schema">>, <<>>}
CopyPlaces == {"copyStart", "clearStaging", "stage", "copyFile", "dropStaging", "clearDest",
               "install", "fsyncDest"}
RestorePlaces ==
  (CopyPlaces \ {"clearDest"}) \cup
  {"clearBak", "aside", "fsyncAside", "undoAside", "fsyncFiles", "open", "commit", "dropLive",
   "moveLive", "moveBack", "dropFailed"}
ReconcilePlaces ==
  {"staging", "failed", "decide", "dropBak", "movePartial", "dropPartial", "back", "up"}
PlacesOf(op) ==
  CASE op = "none" -> {"-"} [] op = "restore" -> RestorePlaces
    [] op = "snapshot" -> CopyPlaces [] op = "reconcile" -> ReconcilePlaces
Failures == {"CopyFailed", "ValidationFailed"}

Places == {"-"} \cup CopyPlaces \cup RestorePlaces \cup ReconcilePlaces

CallType ==
  [op : Ops, at : Places,
   from : {"-", "snap", "live"}, to : {"-", "snap", "live"}, had : BOOLEAN, left : Lefts,
   before : DirType, source : DirType, clean : BOOLEAN, outcome : {"-"} \cup Failures]

\* What is remembered of a restore.
ResultType ==
  [outcome : {"none", "Ok", "cut", "SourceInvalid", "RollbackFailed"} \cup Failures,
   before : DirType, source : DirType, clean : BOOLEAN]

SpentType == [changes : Nat, calls : Nat, errors : Nat, kills : Nat]

BackupType ==
  /\ dir \in [DirNames -> DirType] /\ call \in CallType /\ running \in BOOLEAN
  /\ result \in ResultType
  /\ spent \in SpentType

\* A directory that is not there has no files.
AbsentIsEmpty == \A d \in DirNames : ~dir[d].there => dir[d] = Absent

\* Where each kind of call can be, and what it works on.
CallsAreSound ==
  /\ call.at \in PlacesOf(call.op)
  /\ call.op = "none" => call = Idle
  /\ call.op = "restore" => call.from = "snap" /\ call.to = "live"
  /\ call.op = "snapshot" => call.from = "live" /\ call.to = "snap"
  /\ call.op \in {"restore", "snapshot"} => running
  /\ call.op = "reconcile" => ~running
  /\ ~running => result.outcome \in {"none", "cut"}
  /\ call.op \in {"restore", "snapshot"} => result.outcome = "none"
  /\ call.op = "reconcile" => result.outcome \in {"none", "cut"}

\* The original, at every place of a restore: in the live directory, or in .bak.
OriginalIsKept ==
  call.op = "restore" =>
    /\ call.at \in {"clearBak", "aside"} => ~call.had /\ dir["live"] = call.before
    /\ call.at \in {"fsyncAside", "undoAside", "commit", "moveLive", "moveBack", "dropFailed"} => call.had
    /\ call.at = "dropLive" => ~call.had
    /\ call.at \notin {"clearBak", "aside"} => call.had = call.before.there
    /\ (call.had /\ call.at \notin {"commit", "dropFailed"}) => dir["bak"] = call.before
    /\ call.at = "dropFailed" => dir["live"] = call.before
    /\ call.at \in {"moveLive", "dropLive", "dropFailed"} => call.outcome \in Failures
    /\ call.at = "moveBack" => call.outcome \in Failures

\* The files still to be copied.
Left(l) == { l[i] : i \in DOMAIN l }

\* The copy, at every place of a restore.
CopyIsSound ==
  call.op = "restore" =>
    /\ dir["snap"] = call.source /\ ValidSource(call.source)
    /\ call.at \in {"fsyncAside", "undoAside", "copyStart", "clearStaging", "stage", "copyFile",
                    "dropStaging", "install", "moveBack"} => ~dir["live"].there
    /\ call.at = "stage" /\ call.clean => ~dir["staging"].there
    /\ call.at = "copyFile" =>
         /\ dir["staging"].there
         /\ \A f \in Has(call.source) \ Left(call.left) :
              dir["staging"].files[f] = call.source.files[f]
         /\ call.clean => Has(dir["staging"]) = Has(call.source) \ Left(call.left)
    /\ call.at = "install" => IsCopy(dir["staging"], call.source, call.clean)
    /\ call.at \in {"fsyncDest", "fsyncFiles", "open", "commit"} => IsCopy(dir["live"], call.source, call.clean)
    /\ call.at = "moveLive" => ~dir["live"].there \/ IsCopy(dir["live"], call.source, call.clean)
    /\ call.at = "commit" => Opens(dir["live"])

\* What a restore that was cut short left behind, and what a start that clears
\* up after it has found out so far.
CutIsRecoverable ==
  (result.outcome = "cut" /\ ValidSource(result.before) /\ Opens(result.source)) =>
    /\ \/ dir["live"] = result.before
       \/ IsCopy(dir["live"], result.source, result.clean)
       \/ ~dir["live"].there /\ dir["bak"] = result.before
    /\ running \/ call.at = "up" => dir["live"].there

StartsAreSound ==
  call.op = "reconcile" =>
    /\ call.at = "dropBak" => ValidSource(dir["live"])
    /\ call.at = "movePartial" => dir["live"].there /\ ~ValidSource(dir["live"])
    /\ call.at \in {"dropPartial", "back"} => ~dir["live"].there

\* The staging directory of a snapshot is there while files go into it.
SnapshotStages ==
  (call.op = "snapshot" /\ call.at = "copyFile") => dir["snap-staging"].there

\* The inductive invariant.
BackupInv ==
  /\ BackupType /\ AbsentIsEmpty /\ CallsAreSound /\ SnapshotStages /\ OriginalIsKept /\ CopyIsSound
  /\ CutIsRecoverable /\ StartsAreSound /\ RestoreIsAllOrNothing

\* The directory that is not there.
LEMMA AbsentIs == Absent \in DirType /\ ~Absent.there /\ Has(Absent) = {}
<1>1. [f \in FileNames |-> NoFile] \in [FileNames -> File] BY DEF NoFile, File
<1> QED BY <1>1 DEF DirType, Absent, Has

\* What the copy of a database is.
LEMMA CopyFacts ==
  ASSUME NEW d, NEW s, NEW c
  PROVE  /\ ValidSource(d) => d.there
         /\ Opens(d) => ValidSource(d)
         /\ IsCopy(d, s, c) => d.there
         /\ ValidSource(s) /\ IsCopy(d, s, c) => ValidSource(d)
<1>1. ASSUME ValidSource(s), IsCopy(d, s, c) PROVE ValidSource(d)
  BY <1>1 DEF ValidSource, IsCopy, Has, RequiredFiles, FileNames
<1> QED BY <1>1 DEF ValidSource, IsCopy, Opens

\* Between calls, and before the first restore.
LEMMA IdleIs ==
  /\ Idle \in CallType /\ Idle.op = "none" /\ Idle.at = "-"
  /\ NoResult \in ResultType /\ NoResult.outcome = "none"
<1>1. Absent \in DirType BY AbsentIs
<1>2. Idle.op = "none" /\ Idle.at = "-" /\ NoResult.outcome = "none" BY DEF Idle, NoResult
<1>3. <<>> \in Lefts BY DEF Lefts
<1>4. Idle \in CallType BY <1>1, <1>3 DEF Idle, CallType, Ops, Places
<1>5. NoResult \in ResultType BY <1>1 DEF NoResult, ResultType
<1> QED BY <1>2, <1>4, <1>5

\* The directories after a rename.
LEMMA RenamedIs ==
  ASSUME dir \in [DirNames -> DirType], AbsentIsEmpty,
         NEW from \in DirNames, NEW to \in DirNames, from # to,
         dir' = Renamed(from, to)
  PROVE  /\ dir' \in [DirNames -> DirType] /\ dir'[to] = dir[from] /\ dir'[from] = Absent
         /\ \A d \in DirNames \ {from, to} : dir'[d] = dir[d]
         /\ AbsentIsEmpty'
<1> Absent \in DirType BY AbsentIs
<1>1. /\ dir' \in [DirNames -> DirType] /\ dir'[to] = dir[from] /\ dir'[from] = Absent
      /\ \A d \in DirNames \ {from, to} : dir'[d] = dir[d]
  BY DEF Renamed
<1> QED BY <1>1 DEF AbsentIsEmpty

\* The directories while one of them is being removed.
LEMMA RemovedIs ==
  ASSUME dir \in [DirNames -> DirType], AbsentIsEmpty, NEW d \in DirNames, RemoveSome(d)
  PROVE  /\ dir' \in [DirNames -> DirType]
         /\ \A e \in DirNames \ {d} : dir'[e] = dir[e]
         /\ Has(dir[d]) = {} => dir'[d] = Absent
         /\ Has(dir[d]) # {} => dir[d].there /\ dir'[d].there
         /\ AbsentIsEmpty'
<1>1. CASE Has(dir[d]) = {}
  <2>1. dir' = [dir EXCEPT ![d] = Absent] BY <1>1 DEF RemoveSome
  <2> QED BY <1>1, <2>1, AbsentIs DEF AbsentIsEmpty
<1>2. CASE Has(dir[d]) # {}
  <2>1. PICK f \in Has(dir[d]) : dir' = [dir EXCEPT ![d].files[f] = NoFile]
    BY <1>2 DEF RemoveSome
  <2>2. dir[d] # Absent BY <1>2 DEF Has, Absent
  <2>3. dir[d].there BY <2>2 DEF AbsentIsEmpty
  <2>4. f \in FileNames /\ NoFile \in File BY DEF Has, NoFile, File
  <2>5. /\ dir'[d] = [dir[d] EXCEPT !.files[f] = NoFile]
        /\ \A e \in DirNames \ {d} : dir'[e] = dir[e]
        /\ dir' = [e \in DirNames |-> dir'[e]]
    BY <2>1
  <2>6. dir'[d] \in DirType /\ dir'[d].there
    <3> DEFINE g == [dir[d].files EXCEPT ![f] = NoFile]
    <3>1. dir[d] \in DirType OBVIOUS
    <3>2. g \in [FileNames -> File] BY <3>1, <2>4 DEF DirType
    <3>3. dir'[d] = [dir[d] EXCEPT !.files = g] BY <2>5
    <3> HIDE DEF g
    <3> QED BY <3>1, <3>2, <3>3, <2>3 DEF DirType
  <2>7. dir' \in [DirNames -> DirType] BY <2>5, <2>6
  <2> QED BY <1>2, <2>3, <2>5, <2>6, <2>7 DEF AbsentIsEmpty
<1> QED BY <1>1, <1>2

\* What of a call a change of its place leaves alone.
Fields(c) ==
  <<c.op, c.from, c.to, c.had, c.before, c.source, c.clean, c.outcome, c.left>>

\* Only the place of a call changes.
LEMMA GotoIs ==
  ASSUME call \in CallType, NEW p \in Places, call' = [call EXCEPT !.at = p]
  PROVE  call' \in CallType /\ call'.at = p /\ Fields(call') = Fields(call)
BY DEF CallType, Fields

\* The history stays four numbers.
LEMMA SpendIs ==
  ASSUME spent \in SpentType,
         Spend("errors") \/ Spend("calls") \/ Spend("kills") \/ Spend("changes")
  PROVE  spent' \in SpentType
BY DEF Spend, SpentType

\* A step inside a restore has only the original and the copy to keep.
LEMMA RestoreGoesOn ==
  ASSUME BackupInv, call.op = "restore", call'.op = "restore", call' \in CallType,
         dir' \in [DirNames -> DirType], AbsentIsEmpty', spent' \in SpentType,
         call'.at \in RestorePlaces, call'.from = call.from, call'.to = call.to,
         UNCHANGED <<running, result>>, OriginalIsKept', CopyIsSound'
  PROVE  BackupInv'
<1> USE DEF BackupInv
<1>1. BackupType' BY DEF BackupType
<1>2. CallsAreSound' BY DEF CallsAreSound, PlacesOf
<1>3. CutIsRecoverable' BY DEF CutIsRecoverable, CallsAreSound
<1>4. StartsAreSound' BY DEF StartsAreSound
<1>5. RestoreIsAllOrNothing' BY DEF RestoreIsAllOrNothing, Idle
<1>6. SnapshotStages' BY DEF SnapshotStages
<1> QED BY <1>1, <1>2, <1>3, <1>4, <1>5, <1>6

\* A step that ends a restore.
LEMMA RestoreAnswers ==
  ASSUME BackupInv, call.op = "restore", NEW o, Ended(o),
         dir' \in [DirNames -> DirType], AbsentIsEmpty', spent' \in SpentType,
         o \in {"Ok", "RollbackFailed", "SourceInvalid", "CopyFailed", "ValidationFailed"},
         o = "Ok" => IsCopy(dir'["live"], call.source, call.clean) /\ Opens(dir'["live"]),
         o = "RollbackFailed" => dir'["bak"] = call.before,
         (o = "CopyFailed" /\ call.before.there) =>
           \/ dir'["live"] = call.before
           \/ ~dir'["live"].there /\ dir'["bak"] = call.before,
         (o \in {"SourceInvalid", "ValidationFailed"} /\ call.before.there) =>
           dir'["live"] = call.before
  PROVE  BackupInv'
<1> USE DEF BackupInv
<1>1. /\ call' = Idle /\ running' = running
      /\ result' = [outcome |-> o, before |-> call.before, source |-> call.source, clean |-> call.clean]
  BY DEF Ended, Outcome
<1>2. /\ Idle \in CallType /\ Idle.op = "none" /\ Idle.at = "-" BY IdleIs
<1>3. /\ call.before \in DirType /\ call.source \in DirType /\ call.clean \in BOOLEAN
  BY DEF BackupType, CallType
<1>4. result' \in ResultType BY <1>1, <1>3 DEF ResultType, Failures
<1>5. BackupType' BY <1>1, <1>2, <1>4 DEF BackupType
<1>6. running BY DEF CallsAreSound
<1>7. CallsAreSound' BY <1>1, <1>2, <1>6 DEF CallsAreSound, PlacesOf
<1>8. /\ OriginalIsKept' /\ CopyIsSound' /\ StartsAreSound' /\ SnapshotStages'
  BY <1>1, <1>2 DEF OriginalIsKept, CopyIsSound, StartsAreSound, SnapshotStages
<1>9. CutIsRecoverable' BY <1>1 DEF CutIsRecoverable
<1>10. RestoreIsAllOrNothing' BY <1>1 DEF RestoreIsAllOrNothing
<1> QED BY <1>5, <1>7, <1>8, <1>9, <1>10

\* A step of a snapshot: no restore is remembered, so the directories are free.
LEMMA SnapshotGoesOn ==
  ASSUME BackupInv, call.op = "snapshot", call' \in CallType,
         dir' \in [DirNames -> DirType], AbsentIsEmpty', spent' \in SpentType,
         \/ call' = Idle
         \/ call'.op = "snapshot" /\ call'.at \in CopyPlaces /\ call'.from = call.from /\ call'.to = call.to,
         call'.at = "copyFile" => dir'["snap-staging"].there,
         running' = running, result' = result \/ result' = NoResult
  PROVE  BackupInv'
<1> USE DEF BackupInv
<1>1. result'.outcome = "none" /\ result' \in ResultType
  BY IdleIs DEF CallsAreSound, BackupType
<1>2. /\ Idle.op = "none" /\ Idle.at = "-" BY IdleIs
<1>3. BackupType' BY <1>1 DEF BackupType
<1>4. CallsAreSound' BY <1>1, <1>2 DEF CallsAreSound, PlacesOf
<1>5. call'.op # "restore" /\ call'.op # "reconcile" BY <1>2
<1>6. /\ OriginalIsKept' /\ CopyIsSound' /\ StartsAreSound' /\ SnapshotStages'
  BY <1>5 DEF OriginalIsKept, CopyIsSound, StartsAreSound, SnapshotStages
<1>7. CutIsRecoverable' BY <1>1 DEF CutIsRecoverable
<1>8. RestoreIsAllOrNothing' BY <1>1 DEF RestoreIsAllOrNothing
<1> QED BY <1>3, <1>4, <1>6, <1>7, <1>8

\* A restore goes on at another place, with the directories as they are.
LEMMA RestoreMoves ==
  ASSUME BackupInv, call.op = "restore", NEW p \in RestorePlaces, call' = [call EXCEPT !.at = p]
  PROVE  call' \in CallType /\ call'.at = p /\ Fields(call') = Fields(call)
<1>1. p \in Places BY DEF Places
<1> QED BY <1>1, GotoIs DEF BackupInv, BackupType

\* Step 1 of a restore.
LEMMA RestoreKeeps ==
  ASSUME BackupInv, Restore
  PROVE  BackupInv'
<1> USE DEF BackupInv
<1>1. spent' \in SpentType BY SpendIs DEF Restore, BackupType
<1>2. UNCHANGED <<dir, running>> /\ running /\ call = Idle BY DEF Restore
<1>3. AbsentIsEmpty' BY <1>2 DEF AbsentIsEmpty
<1>4. dir["live"] \in DirType /\ dir["snap"] \in DirType BY DEF BackupType, DirNames
<1>5. CASE ValidSource(dir["snap"])
  <2> DEFINE p == IF dir["bak"].there THEN "clearBak" ELSE "aside"
  <2>1. /\ call' = [Idle EXCEPT !.op = "restore", !.from = "snap", !.to = "live", !.at = p,
                                !.before = dir["live"], !.source = dir["snap"]]
        /\ result' = NoResult
    BY <1>5 DEF Restore
  <2>2. p \in {"clearBak", "aside"} OBVIOUS
  <2> HIDE DEF p
  <2>3. /\ call'.op = "restore" /\ call'.from = "snap" /\ call'.to = "live" /\ call'.at = p
        /\ call'.before = dir["live"] /\ call'.source = dir["snap"] /\ ~call'.had
    BY <2>1 DEF Idle
  <2>4. p \in Places BY <2>2 DEF Places, RestorePlaces
  <2>5. call' \in CallType BY <2>1, <2>4, <1>4, IdleIs DEF CallType, Ops
  <2>6. result' \in ResultType /\ result'.outcome = "none" BY <2>1, IdleIs
  <2>7. BackupType' BY <1>1, <1>2, <2>5, <2>6 DEF BackupType
  <2>8. CallsAreSound'
    <3>1. p \in RestorePlaces BY <2>2 DEF RestorePlaces
    <3> QED BY <1>2, <2>3, <2>6, <3>1 DEF CallsAreSound, PlacesOf
  <2>9. OriginalIsKept' BY <1>2, <2>2, <2>3 DEF OriginalIsKept
  <2>10. CopyIsSound' BY <1>2, <1>5, <2>2, <2>3 DEF CopyIsSound
  <2>11. CutIsRecoverable' /\ StartsAreSound' /\ RestoreIsAllOrNothing' /\ SnapshotStages'
    BY <2>3, <2>6 DEF CutIsRecoverable, StartsAreSound, RestoreIsAllOrNothing, SnapshotStages
  <2> QED BY <1>3, <2>7, <2>8, <2>9, <2>10, <2>11
<1>6. CASE ~ValidSource(dir["snap"])
  <2>1. /\ call' = Idle
        /\ result' = [NoResult EXCEPT !.outcome = "SourceInvalid", !.before = dir["live"],
                                      !.source = dir["snap"]]
    BY <1>6 DEF Restore
  <2>2. result' \in ResultType /\ result'.outcome = "SourceInvalid" /\ result'.before = dir["live"]
    BY <2>1, <1>4, IdleIs DEF ResultType
  <2>3. BackupType' BY <1>1, <1>2, <2>1, <2>2, IdleIs DEF BackupType
  <2>4. CallsAreSound' BY <1>2, <2>1, IdleIs DEF CallsAreSound, PlacesOf
  <2>5. OriginalIsKept' /\ CopyIsSound' /\ StartsAreSound' /\ SnapshotStages'
    BY <2>1, IdleIs DEF OriginalIsKept, CopyIsSound, StartsAreSound, SnapshotStages
  <2>6. CutIsRecoverable' BY <2>2 DEF CutIsRecoverable
  <2>7. RestoreIsAllOrNothing' BY <1>2, <2>2 DEF RestoreIsAllOrNothing
  <2> QED BY <1>3, <2>3, <2>4, <2>5, <2>6, <2>7
<1> QED BY <1>5, <1>6

\* A step that changes only the place of a restore and counts an error or not.
LEMMA MoveKeeps ==
  ASSUME BackupInv, call.op = "restore", NEW p \in RestorePlaces, call' = [call EXCEPT !.at = p],
         UNCHANGED <<dir, running, result>>, spent' = spent \/ Spend("errors"),
         OriginalIsKept', CopyIsSound'
  PROVE  BackupInv'
<1>1. call' \in CallType /\ call'.at = p /\ Fields(call') = Fields(call) BY RestoreMoves
<1>2. spent' \in SpentType BY SpendIs DEF BackupInv, BackupType
<1>3. dir' \in [DirNames -> DirType] /\ AbsentIsEmpty' BY DEF BackupInv, BackupType, AbsentIsEmpty
<1> QED BY <1>1, <1>2, <1>3, RestoreGoesOn DEF Fields

\* A directory that a restore removes, other than the live one and the snapshot.
LEMMA RemovalKeeps ==
  ASSUME BackupInv, call.op = "restore", NEW d \in DirNames, NEW p \in RestorePlaces,
         RemoveAll(d, p), OriginalIsKept', CopyIsSound'
  PROVE  BackupInv'
<1>1. call' = [call EXCEPT !.at = p] \/ call' = call BY DEF RemoveAll
<1>2. /\ call' \in CallType /\ call'.at \in RestorePlaces /\ Fields(call') = Fields(call)
  <2>1. call.at \in RestorePlaces BY DEF BackupInv, CallsAreSound, PlacesOf
  <2> QED BY <1>1, <2>1, RestoreMoves DEF BackupInv, BackupType
<1>3. dir' \in [DirNames -> DirType] /\ AbsentIsEmpty'
  BY RemovedIs DEF RemoveAll, BackupInv, BackupType
<1>4. UNCHANGED <<running, result>> /\ spent' \in SpentType
  BY DEF RemoveAll, Quiet, BackupInv, BackupType
<1> QED BY <1>2, <1>3, <1>4, RestoreGoesOn DEF Fields

\* An answer that touches nothing more.
LEMMA AnswerKeeps ==
  ASSUME BackupInv, call.op = "restore", NEW o, Finish(o) \/ FinishFailing(o),
         o \in {"Ok", "RollbackFailed", "SourceInvalid", "CopyFailed", "ValidationFailed"},
         o = "Ok" => IsCopy(dir["live"], call.source, call.clean) /\ Opens(dir["live"]),
         o = "RollbackFailed" => dir["bak"] = call.before,
         (o = "CopyFailed" /\ call.before.there) =>
           \/ dir["live"] = call.before
           \/ ~dir["live"].there /\ dir["bak"] = call.before,
         (o \in {"SourceInvalid", "ValidationFailed"} /\ call.before.there) =>
           dir["live"] = call.before
  PROVE  BackupInv'
<1>1. Ended(o) /\ UNCHANGED dir /\ (spent' = spent \/ Spend("errors")) BY DEF Finish, FinishFailing
<1>2. spent' \in SpentType BY <1>1, SpendIs DEF BackupInv, BackupType
<1>3. dir' \in [DirNames -> DirType] /\ AbsentIsEmpty'
  BY <1>1 DEF BackupInv, BackupType, AbsentIsEmpty
<1> QED BY <1>1, <1>2, <1>3, RestoreAnswers

\* Clearing a stale .bak, or refusing.
LEMMA ClearBakKeeps ==
  ASSUME BackupInv, ClearBak
  PROVE  BackupInv'
<1> USE DEF BackupInv
<1>0. call.op = "restore" /\ call.at = "clearBak" BY DEF ClearBak, At
<1>1. CASE RemoveAll("bak", "aside")
  <2>1. \A e \in DirNames \ {"bak"} : dir'[e] = dir[e]
    BY <1>1, RemovedIs DEF RemoveAll, BackupType, DirNames
  <2>2. dir'["live"] = dir["live"] /\ dir'["snap"] = dir["snap"] /\ dir'["staging"] = dir["staging"]
    BY <2>1 DEF DirNames
  <2>3. Fields(call') = Fields(call) /\ call'.at \in {"clearBak", "aside"}
    BY <1>0, <1>1, RestoreMoves DEF RemoveAll, RestorePlaces
  <2>4. OriginalIsKept' BY <1>0, <2>2, <2>3 DEF OriginalIsKept, Fields
  <2>5. CopyIsSound' BY <1>0, <2>2, <2>3 DEF CopyIsSound, Fields
  <2>6. "bak" \in DirNames /\ "aside" \in RestorePlaces BY DEF DirNames, RestorePlaces
  <2> QED BY <1>0, <1>1, <2>4, <2>5, <2>6, RemovalKeeps
<1>2. CASE FinishFailing("SourceInvalid")
  BY <1>0, <1>2, AnswerKeeps DEF OriginalIsKept
<1> QED BY <1>1, <1>2 DEF ClearBak

\* The live directory becomes .bak.
LEMMA SetAsideKeeps ==
  ASSUME BackupInv, SetAside
  PROVE  BackupInv'
<1> USE DEF BackupInv
<1>0. call.op = "restore" /\ call.at = "aside" /\ ~call.had /\ dir["live"] = call.before
  BY DEF SetAside, At, OriginalIsKept
<1>1. CASE ~dir["live"].there /\ Goto("copyStart") /\ UNCHANGED dir /\ Quiet
  <2>1. "copyStart" \in RestorePlaces BY DEF RestorePlaces, CopyPlaces
  <2>2. call' = [call EXCEPT !.at = "copyStart"] BY <1>1 DEF Goto
  <2>3. call'.at = "copyStart" /\ Fields(call') = Fields(call) BY <1>0, <2>1, <2>2, RestoreMoves
  <2>4. OriginalIsKept' BY <1>0, <1>1, <2>3 DEF OriginalIsKept, Fields, BackupType, CallType, DirType
  <2>5. CopyIsSound' BY <1>0, <1>1, <2>3 DEF CopyIsSound, Fields
  <2> QED BY <1>0, <1>1, <2>1, <2>2, <2>4, <2>5, MoveKeeps DEF Quiet
<1>2. CASE /\ dir["live"].there /\ dir' = Renamed("live", "bak")
           /\ call' = [call EXCEPT !.at = "fsyncAside", !.had = TRUE] /\ Quiet
  <2>1. /\ dir' \in [DirNames -> DirType] /\ AbsentIsEmpty'
        /\ dir'["bak"] = dir["live"] /\ dir'["live"] = Absent
        /\ \A d \in DirNames \ {"live", "bak"} : dir'[d] = dir[d]
    BY <1>2, RenamedIs DEF BackupType, DirNames
  <2>2. dir'["snap"] = dir["snap"] BY <2>1 DEF DirNames
  <2>3. "fsyncAside" \in RestorePlaces /\ "fsyncAside" \in Places BY DEF RestorePlaces, Places
  <2>4. /\ call' \in CallType /\ call'.op = "restore" /\ call'.at = "fsyncAside" /\ call'.had
        /\ call'.from = call.from /\ call'.to = call.to /\ call'.before = call.before
        /\ call'.source = call.source
    BY <1>0, <1>2, <2>3 DEF CallType, BackupType
  <2>5. OriginalIsKept' BY <1>0, <1>2, <2>1, <2>4 DEF OriginalIsKept
  <2>6. CopyIsSound' BY <1>0, <2>1, <2>2, <2>4, AbsentIs DEF CopyIsSound
  <2>7. spent' \in SpentType /\ UNCHANGED <<running, result>> BY <1>2 DEF Quiet, BackupType
  <2> QED BY <1>0, <2>1, <2>3, <2>4, <2>5, <2>6, <2>7, RestoreGoesOn
<1>3. CASE dir["live"].there /\ FinishFailing("CopyFailed")
  BY <1>0, <1>3, AnswerKeeps
<1> QED BY <1>1, <1>2, <1>3 DEF SetAside

\* The parent directory is synced.
LEMMA FsyncAsideKeeps ==
  ASSUME BackupInv, FsyncAside
  PROVE  BackupInv'
<1> USE DEF BackupInv
<1>0. call.op = "restore" /\ call.at = "fsyncAside" BY DEF FsyncAside, At
<1>1. ASSUME NEW p \in {"copyStart", "undoAside"}, call' = [call EXCEPT !.at = p],
             UNCHANGED <<dir, running, result>>, spent' = spent \/ Spend("errors")
      PROVE  BackupInv'
  <2>1. p \in RestorePlaces BY <1>1 DEF RestorePlaces, CopyPlaces
  <2>2. call'.at = p /\ Fields(call') = Fields(call) BY <1>0, <1>1, <2>1, RestoreMoves
  <2>3. OriginalIsKept' BY <1>0, <1>1, <2>2 DEF OriginalIsKept, Fields
  <2>4. CopyIsSound' BY <1>0, <1>1, <2>2 DEF CopyIsSound, Fields
  <2> QED BY <1>0, <1>1, <2>1, <2>3, <2>4, MoveKeeps
<1> QED BY <1>1 DEF FsyncAside, Goto, Quiet, Failing

\* The rename back, or its failure that nobody looks at.
LEMMA UndoAsideKeeps ==
  ASSUME BackupInv, UndoAside
  PROVE  BackupInv'
<1> USE DEF BackupInv
<1>0. /\ call.op = "restore" /\ call.at = "undoAside" /\ dir["bak"] = call.before
      /\ ~dir["live"].there
  BY DEF UndoAside, At, OriginalIsKept, CopyIsSound
<1>1. CASE dir' = Renamed("bak", "live") /\ Ended("CopyFailed") /\ UNCHANGED spent
  <2>1. dir' \in [DirNames -> DirType] /\ AbsentIsEmpty' /\ dir'["live"] = dir["bak"]
    BY <1>1, RenamedIs DEF BackupType, DirNames
  <2>2. spent' \in SpentType BY <1>1 DEF BackupType
  <2> QED BY <1>0, <1>1, <2>1, <2>2, RestoreAnswers
<1>2. CASE FinishFailing("CopyFailed") BY <1>0, <1>2, AnswerKeeps
<1> QED BY <1>1, <1>2 DEF UndoAside

\* finish_with_rollback, from a place where the original is in .bak and the live
\* directory is gone or a copy.
LEMMA RollbackKeeps ==
  ASSUME BackupInv, call.op = "restore", NEW o \in Failures, Rollback(o),
         UNCHANGED <<dir, running, result>>, spent' = spent \/ Spend("errors"),
         call.at \in {"copyStart", "dropStaging", "install", "fsyncDest", "fsyncFiles", "open"}
  PROVE  BackupInv'
<1> USE DEF BackupInv
<1> DEFINE p == IF call.had THEN "moveLive" ELSE "dropLive"
<1>1. call' = [call EXCEPT !.at = p, !.outcome = o] BY DEF Rollback
<1>2. p \in {"moveLive", "dropLive"} /\ p \in Places /\ p \in RestorePlaces
  BY DEF Places, RestorePlaces
<1>3. (p = "moveLive" => call.had) /\ (p = "dropLive" => ~call.had) OBVIOUS
<1> HIDE DEF p
<1>4. /\ call' \in CallType /\ call'.op = "restore" /\ call'.at = p /\ call'.outcome = o
      /\ call'.from = call.from /\ call'.to = call.to /\ call'.before = call.before
      /\ call'.source = call.source /\ call'.had = call.had /\ call'.clean = call.clean
  BY <1>1, <1>2 DEF CallType, BackupType
<1>5. OriginalIsKept' BY <1>2, <1>3, <1>4 DEF OriginalIsKept
<1>6. CopyIsSound' BY <1>2, <1>4 DEF CopyIsSound
<1>7. spent' \in SpentType BY SpendIs DEF BackupType
<1>8. dir' \in [DirNames -> DirType] /\ AbsentIsEmpty' BY DEF BackupType, AbsentIsEmpty
<1> QED BY <1>2, <1>4, <1>5, <1>6, <1>7, <1>8, RestoreGoesOn

\* copy_db_files_atomic fails.
LEMMA CopyErrorKeeps ==
  ASSUME BackupInv, call.op \in {"restore", "snapshot"}, CopyError, UNCHANGED dir,
         spent' = spent \/ Spend("errors"),
         call.op = "restore" => call.at \in {"copyStart", "dropStaging", "install", "fsyncDest"}
  PROVE  BackupInv'
<1>1. CASE call.op = "restore"
  <2>1. Rollback("CopyFailed") /\ UNCHANGED <<running, result>> BY <1>1 DEF CopyError
  <2>2. "CopyFailed" \in Failures BY DEF Failures
  <2> QED BY <1>1, <2>1, <2>2, RollbackKeeps
<1>2. CASE call.op = "snapshot"
  <2>1. call' = Idle /\ UNCHANGED <<running, result>> BY <1>2 DEF CopyError
  <2>2. spent' \in SpentType BY SpendIs DEF BackupInv, BackupType
  <2>3. dir' \in [DirNames -> DirType] /\ AbsentIsEmpty' BY DEF BackupInv, BackupType, AbsentIsEmpty
  <2> QED BY <1>2, <2>1, <2>2, <2>3, IdleIs, SnapshotGoesOn
<1> QED BY <1>1, <1>2

\* A snapshot goes on at another place.
LEMMA SnapshotMoves ==
  ASSUME BackupInv, call.op = "snapshot", NEW p \in CopyPlaces, p # "copyFile",
         call' = [call EXCEPT !.at = p] \/ (call' = call /\ call.at # "copyFile"),
         dir' \in [DirNames -> DirType], AbsentIsEmpty',
         UNCHANGED <<running, result>>, spent' = spent \/ Spend("errors")
  PROVE  BackupInv'
<1>1. p \in Places BY DEF Places
<1>2. call \in CallType /\ call.at \in CopyPlaces
  BY DEF BackupInv, BackupType, CallsAreSound, PlacesOf
<1>3. /\ call' \in CallType /\ call'.at \in CopyPlaces /\ call'.at # "copyFile"
      /\ Fields(call') = Fields(call)
  BY <1>1, <1>2, GotoIs
<1>4. spent' \in SpentType BY SpendIs DEF BackupInv, BackupType
<1> QED BY <1>3, <1>4, SnapshotGoesOn DEF Fields

\* A snapshot begins.
LEMMA SnapshotKeeps ==
  ASSUME BackupInv, Snapshot
  PROVE  BackupInv'
<1> USE DEF BackupInv
<1>1. /\ call' = [Idle EXCEPT !.op = "snapshot", !.at = "copyStart", !.from = "live", !.to = "snap"]
      /\ result' = NoResult /\ UNCHANGED <<dir, running>> /\ running
  BY DEF Snapshot
<1>2. "copyStart" \in Places BY DEF Places, CopyPlaces
<1>3. /\ call' \in CallType /\ call'.op = "snapshot" /\ call'.at = "copyStart"
      /\ call'.from = "live" /\ call'.to = "snap"
  BY <1>1, <1>2, IdleIs DEF CallType, Ops
<1>4. spent' \in SpentType BY SpendIs DEF Snapshot, BackupType
<1>5. BackupType' BY <1>1, <1>3, <1>4, IdleIs DEF BackupType
<1>6. AbsentIsEmpty' BY <1>1 DEF AbsentIsEmpty
<1>7. "copyStart" \in CopyPlaces BY DEF CopyPlaces
<1>8. CallsAreSound' BY <1>1, <1>3, <1>7, IdleIs DEF CallsAreSound, PlacesOf
<1>9. OriginalIsKept' /\ CopyIsSound' /\ StartsAreSound' /\ SnapshotStages'
  BY <1>3 DEF OriginalIsKept, CopyIsSound, StartsAreSound, SnapshotStages
<1>10. CutIsRecoverable' /\ RestoreIsAllOrNothing'
  BY <1>1, IdleIs DEF CutIsRecoverable, RestoreIsAllOrNothing
<1> QED BY <1>5, <1>6, <1>8, <1>9, <1>10

\* The source is looked at.
LEMMA CopyStartKeeps ==
  ASSUME BackupInv, CopyStart
  PROVE  BackupInv'
<1> USE DEF BackupInv
<1>0. call.op \in {"restore", "snapshot"} /\ call.at = "copyStart" /\ UNCHANGED dir
  BY DEF CopyStart, At
<1>1. CASE dir[call.from].there /\ "meta" \in Has(dir[call.from])
  <2> DEFINE p == IF dir[StagingFor(call.to)].there THEN "clearStaging" ELSE "stage"
  <2>1. call' = [call EXCEPT !.at = p] /\ UNCHANGED <<running, result, spent>>
    BY <1>1 DEF CopyStart, Goto, Quiet
  <2>2. p \in {"clearStaging", "stage"} /\ p \in CopyPlaces /\ p \in RestorePlaces
    BY DEF CopyPlaces, RestorePlaces
  <2>3. p = "stage" => ~dir[StagingFor(call.to)].there OBVIOUS
  <2> HIDE DEF p
  <2>4. CASE call.op = "restore"
    <3>1. call'.at = p /\ Fields(call') = Fields(call) BY <2>1, <2>2, <2>4, RestoreMoves
    <3>2. OriginalIsKept' BY <1>0, <2>2, <2>4, <3>1 DEF OriginalIsKept, Fields
    <3>3. StagingFor(call.to) = "staging" BY <2>4 DEF StagingFor, CallsAreSound
    <3>4. CopyIsSound' BY <1>0, <2>2, <2>3, <2>4, <3>1, <3>3 DEF CopyIsSound, Fields
    <3> QED BY <1>0, <2>1, <2>2, <2>4, <3>2, <3>4, MoveKeeps
  <2>5. CASE call.op = "snapshot"
    <3>1. dir' \in [DirNames -> DirType] /\ AbsentIsEmpty' BY <1>0 DEF BackupType, AbsentIsEmpty
    <3> QED BY <2>1, <2>2, <2>5, <3>1, SnapshotMoves
  <2> QED BY <1>0, <2>4, <2>5
<1>2. CASE ~(dir[call.from].there /\ "meta" \in Has(dir[call.from]))
  <2>1. CopyError /\ UNCHANGED spent BY <1>2 DEF CopyStart
  <2> QED BY <1>0, <2>1, CopyErrorKeeps
<1> QED BY <1>1, <1>2

\* A leftover staging directory goes, or stays and the copy is not clean.
LEMMA ClearStagingKeeps ==
  ASSUME BackupInv, ClearStaging
  PROVE  BackupInv'
<1> USE DEF BackupInv
<1>0. call.op \in {"restore", "snapshot"} /\ call.at = "clearStaging" BY DEF ClearStaging, At
<1> DEFINE d == StagingFor(call.to)
<1>1. "staging" \in DirNames /\ "snap-staging" \in DirNames /\ d \in {"staging", "snap-staging"}
  BY DEF DirNames, StagingFor
<1>2. "stage" \in CopyPlaces /\ "stage" \in RestorePlaces /\ "stage" \in Places
  BY DEF CopyPlaces, RestorePlaces, Places
<1>3. call.op = "restore" => d = "staging" BY DEF StagingFor, CallsAreSound
<1> HIDE DEF d
<1>4. CASE RemoveAll(d, "stage")
  <2>1. /\ dir' \in [DirNames -> DirType] /\ AbsentIsEmpty'
        /\ \A e \in DirNames \ {d} : dir'[e] = dir[e]
        /\ Has(dir[d]) = {} => dir'[d] = Absent
    BY <1>1, <1>4, RemovedIs DEF RemoveAll, BackupType
  <2>2. /\ Has(dir[d]) = {} => call' = [call EXCEPT !.at = "stage"]
        /\ Has(dir[d]) # {} => call' = call
        /\ UNCHANGED <<running, result, spent>>
    BY <1>4 DEF RemoveAll, Quiet
  <2>3. CASE call.op = "restore"
    <3>1. /\ Fields(call') = Fields(call) /\ call'.at \in {"clearStaging", "stage"}
          /\ call'.at = "stage" => dir'["staging"] = Absent
      BY <1>0, <1>2, <1>3, <2>1, <2>2, <2>3, RestoreMoves
    <3>2. dir'["live"] = dir["live"] /\ dir'["bak"] = dir["bak"] /\ dir'["snap"] = dir["snap"]
      BY <1>3, <2>1, <2>3 DEF DirNames
    <3>3. OriginalIsKept' BY <1>0, <2>3, <3>1, <3>2 DEF OriginalIsKept, Fields
    <3>4. CopyIsSound' BY <1>0, <2>3, <3>1, <3>2, AbsentIs DEF CopyIsSound, Fields
    <3> QED BY <1>1, <1>2, <1>4, <2>3, <3>3, <3>4, RemovalKeeps
  <2>4. CASE call.op = "snapshot" BY <1>0, <1>2, <2>1, <2>2, <2>4, SnapshotMoves
  <2> QED BY <1>0, <2>3, <2>4
<1>5. CASE /\ MayFail /\ Spend("errors") /\ call' = [call EXCEPT !.at = "stage", !.clean = FALSE]
           /\ UNCHANGED <<dir, running, result>>
  <2>1. dir' \in [DirNames -> DirType] /\ AbsentIsEmpty' /\ spent' \in SpentType
    BY <1>5, SpendIs DEF BackupType, AbsentIsEmpty
  <2>2. /\ call' \in CallType /\ call'.op = call.op /\ call'.at = "stage" /\ ~call'.clean
        /\ call'.from = call.from /\ call'.to = call.to /\ call'.before = call.before
        /\ call'.source = call.source /\ call'.had = call.had
    BY <1>2, <1>5 DEF CallType, BackupType
  <2>3. CASE call.op = "restore"
    <3>1. OriginalIsKept' BY <1>0, <1>5, <2>2, <2>3 DEF OriginalIsKept
    <3>2. CopyIsSound' BY <1>0, <1>5, <2>2, <2>3 DEF CopyIsSound
    <3> QED BY <1>2, <1>5, <2>1, <2>2, <2>3, <3>1, <3>2, RestoreGoesOn
  <2>4. CASE call.op = "snapshot"
    BY <1>2, <1>5, <2>1, <2>2, <2>4, SnapshotGoesOn
  <2> QED BY <1>0, <2>3, <2>4
<1> QED BY <1>4, <1>5 DEF ClearStaging, d

\* The list of files still to be copied.
LEMMA LeftFacts ==
  ASSUME NEW l \in Lefts
  PROVE  /\ Left(<<>>) = {} /\ CopyOrder \in Lefts /\ Left(CopyOrder) = FileNames
         /\ l # <<>> => /\ Tail(l) \in Lefts /\ Head(l) \in FileNames
                        /\ Left(l) = Left(Tail(l)) \cup {Head(l)} /\ Head(l) \notin Left(Tail(l))
<1>1. CopyOrder \in Lefts BY DEF CopyOrder, Lefts
<1>2. Left(<<>>) = {} BY DEF Left
<1>3. \A a, b, c : /\ Left(<<a, b, c>>) = {a, b, c} /\ Left(<<a, b>>) = {a, b} /\ Left(<<a>>) = {a}
  <2> TAKE a, b, c
  <2>1. DOMAIN <<a, b, c>> = {1, 2, 3} /\ DOMAIN <<a, b>> = {1, 2} /\ DOMAIN <<a>> = {1} OBVIOUS
  <2> QED BY <2>1 DEF Left
<1>4. Left(CopyOrder) = FileNames BY <1>3 DEF CopyOrder, FileNames, RequiredFiles
<1>5. ASSUME l # <<>> PROVE /\ Tail(l) \in Lefts /\ Head(l) \in FileNames
                            /\ Left(l) = Left(Tail(l)) \cup {Head(l)}
                            /\ Head(l) \notin Left(Tail(l))
  <2>1. CASE l = <<"db", "meta", "schema">>
    <3>1. Tail(l) = <<"meta", "schema">> /\ Head(l) = "db" BY <2>1
    <3> QED BY <1>3, <2>1, <3>1 DEF Lefts, FileNames, RequiredFiles
  <2>2. CASE l = <<"meta", "schema">>
    <3>1. Tail(l) = <<"schema">> /\ Head(l) = "meta" BY <2>2
    <3> QED BY <1>3, <2>2, <3>1 DEF Lefts, FileNames, RequiredFiles
  <2>3. CASE l = <<"schema">>
    <3>1. Tail(l) = <<>> /\ Head(l) = "schema" BY <2>3
    <3> QED BY <1>2, <1>3, <2>3, <3>1 DEF Lefts, FileNames, RequiredFiles
  <2> QED BY <1>5, <2>1, <2>2, <2>3 DEF Lefts
<1> QED BY <1>1, <1>2, <1>4, <1>5

\* A file put into the staging directory.
LEMMA PutIs ==
  ASSUME dir \in [DirNames -> DirType], AbsentIsEmpty, NEW d \in DirNames, dir[d].there,
         NEW f \in FileNames, NEW x \in File, x # NoFile, dir' = [dir EXCEPT ![d].files[f] = x]
  PROVE  /\ dir' \in [DirNames -> DirType] /\ AbsentIsEmpty'
         /\ \A e \in DirNames \ {d} : dir'[e] = dir[e]
         /\ dir'[d].there /\ dir'[d].files[f] = x
         /\ \A g \in FileNames \ {f} : dir'[d].files[g] = dir[d].files[g]
         /\ Has(dir'[d]) = Has(dir[d]) \cup {f}
<1> DEFINE g == [dir[d].files EXCEPT ![f] = x]
<1>1. dir[d] \in DirType /\ dir[d].files \in [FileNames -> File] BY DEF DirType
<1>2. g \in [FileNames -> File] /\ g[f] = x /\ \A h \in FileNames \ {f} : g[h] = dir[d].files[h]
  BY <1>1
<1>3. /\ dir'[d] = [dir[d] EXCEPT !.files = g]
      /\ \A e \in DirNames \ {d} : dir'[e] = dir[e]
      /\ dir' = [e \in DirNames |-> dir'[e]]
  OBVIOUS
<1> HIDE DEF g
<1>4. dir'[d] \in DirType /\ dir'[d].there /\ dir'[d].files = g BY <1>1, <1>2, <1>3 DEF DirType
<1>5. dir' \in [DirNames -> DirType] BY <1>3, <1>4
<1>6. Has(dir'[d]) = Has(dir[d]) \cup {f} BY <1>2, <1>4 DEF Has
<1>7. AbsentIsEmpty' BY <1>3, <1>4 DEF AbsentIsEmpty
<1> QED BY <1>2, <1>3, <1>4, <1>5, <1>6, <1>7

\* Directories with the same files are the same.
LEMMA SameFiles ==
  ASSUME NEW d \in DirType, NEW e \in DirType, d.there, e.there, Has(d) = Has(e),
         \A f \in Has(e) : d.files[f] = e.files[f]
  PROVE  d = e
<1>1. d.files \in [FileNames -> File] /\ e.files \in [FileNames -> File] BY DEF DirType
<1>2. \A f \in FileNames : d.files[f] = e.files[f] BY DEF Has
<1>3. d.files = e.files BY <1>1, <1>2
<1>4. d = [there |-> d.there, files |-> d.files] /\ e = [there |-> e.there, files |-> e.files]
  BY DEF DirType
<1>5. d.there = TRUE /\ e.there = TRUE BY DEF DirType
<1> QED BY <1>3, <1>4, <1>5

\* The staging directory is made.
LEMMA StageKeeps ==
  ASSUME BackupInv, Stage
  PROVE  BackupInv'
<1> USE DEF BackupInv
<1>0. call.op \in {"restore", "snapshot"} /\ call.at = "stage" BY DEF Stage, At
<1> DEFINE d == StagingFor(call.to)
<1>1. "staging" \in DirNames /\ "snap-staging" \in DirNames /\ d \in {"staging", "snap-staging"}
  BY DEF DirNames, StagingFor
<1>2. call.op = "restore" => d = "staging" BY DEF StagingFor, CallsAreSound
<1>3. \A p \in {"copyFile", "dropStaging"} : p \in CopyPlaces /\ p \in RestorePlaces /\ p \in Places
  BY DEF CopyPlaces, RestorePlaces, Places
<1> HIDE DEF d
<1>4. CASE /\ dir' = [dir EXCEPT ![d].there = TRUE]
           /\ call' = [call EXCEPT !.at = "copyFile", !.left = CopyOrder] /\ Quiet
  <2>1. dir[d] \in DirType /\ d \in DirNames BY <1>1 DEF BackupType
  <2>2. /\ dir'[d] = [dir[d] EXCEPT !.there = TRUE]
        /\ \A e \in DirNames \ {d} : dir'[e] = dir[e]
        /\ dir' = [e \in DirNames |-> dir'[e]]
    BY <1>4, <2>1 DEF BackupType
  <2>3. dir'[d] \in DirType /\ dir'[d].there /\ dir'[d].files = dir[d].files
    BY <2>1, <2>2 DEF DirType
  <2>4. dir' \in [DirNames -> DirType] BY <2>2, <2>3 DEF BackupType
  <2>5. AbsentIsEmpty' BY <2>2, <2>3 DEF AbsentIsEmpty
  <2>6. CopyOrder \in Lefts /\ Left(CopyOrder) = FileNames BY LeftFacts DEF CopyOrder, Lefts
  <2>7. /\ call' \in CallType /\ call'.op = call.op /\ call'.at = "copyFile"
        /\ call'.left = CopyOrder /\ call'.clean = call.clean
        /\ call'.from = call.from /\ call'.to = call.to /\ call'.before = call.before
        /\ call'.source = call.source /\ call'.had = call.had
    BY <1>3, <1>4, <2>6 DEF CallType, BackupType
  <2>8. UNCHANGED <<running, result, spent>> /\ spent' \in SpentType BY <1>4 DEF Quiet, BackupType
  <2>9. CASE call.op = "restore"
    <3>1. dir'["live"] = dir["live"] /\ dir'["bak"] = dir["bak"] /\ dir'["snap"] = dir["snap"]
      BY <1>2, <2>2, <2>9 DEF DirNames
    <3>2. OriginalIsKept' BY <1>0, <2>7, <2>9, <3>1 DEF OriginalIsKept
    <3>3. Has(call.source) \ FileNames = {} BY DEF Has
    <3>4. Has(dir'["staging"]) = Has(dir["staging"]) BY <1>2, <2>3, <2>9 DEF Has
    <3>5. call.clean => Has(dir["staging"]) = {}
      <4>1. call.clean => dir["staging"] = Absent
        BY <1>0, <1>1, <2>9 DEF CopyIsSound, AbsentIsEmpty
      <4> QED BY <4>1, AbsentIs
    <3>6. CopyIsSound'
      BY <1>0, <1>2, <2>3, <2>6, <2>7, <2>9, <3>1, <3>3, <3>4, <3>5 DEF CopyIsSound
    <3> QED BY <1>3, <2>4, <2>5, <2>7, <2>8, <2>9, <3>2, <3>6, RestoreGoesOn
  <2>10. CASE call.op = "snapshot"
    <3>1. d = "snap-staging" BY <2>10 DEF d, StagingFor, CallsAreSound
    <3> QED BY <1>3, <2>3, <2>4, <2>5, <2>7, <2>8, <2>10, <3>1, SnapshotGoesOn
  <2> QED BY <1>0, <2>9, <2>10
<1>5. CASE Failing("dropStaging")
  <2>1. /\ call' = [call EXCEPT !.at = "dropStaging"] /\ UNCHANGED <<dir, running, result>>
        /\ Spend("errors")
    BY <1>5 DEF Failing, Goto
  <2>2. CASE call.op = "restore"
    <3>1. call'.at = "dropStaging" /\ Fields(call') = Fields(call) BY <1>3, <2>1, <2>2, RestoreMoves
    <3>2. OriginalIsKept' BY <1>0, <2>1, <2>2, <3>1 DEF OriginalIsKept, Fields
    <3>3. CopyIsSound' BY <1>0, <2>1, <2>2, <3>1 DEF CopyIsSound, Fields
    <3> QED BY <1>3, <2>1, <2>2, <3>2, <3>3, MoveKeeps
  <2>3. CASE call.op = "snapshot"
    <3>1. dir' \in [DirNames -> DirType] /\ AbsentIsEmpty' BY <2>1 DEF BackupType, AbsentIsEmpty
    <3> QED BY <1>3, <2>1, <2>3, <3>1, SnapshotMoves
  <2> QED BY <1>0, <2>2, <2>3
<1> QED BY <1>4, <1>5 DEF Stage, d

\* One file is copied, passed over or fails; after the last the copy is complete.
LEMMA CopyFileKeeps ==
  ASSUME BackupInv, CopyFile
  PROVE  BackupInv'
<1> USE DEF BackupInv
<1>0. call.op \in {"restore", "snapshot"} /\ call.at = "copyFile" BY DEF CopyFile, At
<1> DEFINE d == StagingFor(call.to)
<1> DEFINE src == dir[call.from]
<1> DEFINE f == Head(call.left)
<1>1. "staging" \in DirNames /\ "snap-staging" \in DirNames /\ d \in {"staging", "snap-staging"}
  BY DEF DirNames, StagingFor
<1>2. /\ call.op = "restore" => d = "staging" /\ src = call.source
      /\ call.op = "snapshot" => d = "snap-staging"
  BY DEF StagingFor, CallsAreSound, CopyIsSound
<1>3. \A p \in {"copyFile", "dropStaging", "install"} :
        p \in CopyPlaces /\ p \in RestorePlaces /\ p \in Places
  BY DEF CopyPlaces, RestorePlaces, Places
<1>4. call.left \in Lefts /\ call \in CallType BY DEF BackupType, CallType
<1>5. src \in DirType
  <2>1. call.from \in DirNames BY <1>0 DEF CallsAreSound, DirNames
  <2> QED BY <2>1 DEF BackupType
<1>6. dir[d].there BY <1>0, <1>2 DEF CopyIsSound, SnapshotStages
<1> HIDE DEF d, src
<1>7. ASSUME call.left # <<>>
      PROVE  /\ f \in FileNames /\ Tail(call.left) \in Lefts /\ f \notin Left(Tail(call.left))
             /\ Left(call.left) = Left(Tail(call.left)) \cup {f}
  BY <1>4, <1>7, LeftFacts
<1> HIDE DEF f
<1>8. ASSUME call.left # <<>>, call' = [call EXCEPT !.left = Tail(@)]
      PROVE  /\ call' \in CallType /\ call'.op = call.op /\ call'.at = call.at
             /\ call'.left = Tail(call.left) /\ call'.clean = call.clean
             /\ call'.from = call.from /\ call'.to = call.to /\ call'.before = call.before
             /\ call'.source = call.source /\ call'.had = call.had
  BY <1>4, <1>7, <1>8 DEF CallType
<1>9. CASE /\ call.left # <<>> /\ f \in Has(src) /\ dir' = [dir EXCEPT ![d].files[f] = src.files[f]]
           /\ call' = [call EXCEPT !.left = Tail(@)] /\ Quiet
  <2>1. src.files[f] \in File /\ src.files[f] # NoFile BY <1>5, <1>7, <1>9 DEF DirType, Has
  <2>2. UNCHANGED <<running, result, spent>> /\ spent' \in SpentType BY <1>9 DEF Quiet, BackupType
  <2> DEFINE x == src.files[f]
  <2>3. dir' = [dir EXCEPT ![d].files[f] = x] /\ x \in File /\ x # NoFile BY <1>9, <2>1
  <2> HIDE DEF x
  <2>4. dir \in [DirNames -> DirType] /\ AbsentIsEmpty /\ d \in DirNames /\ f \in FileNames
    BY <1>1, <1>7, <1>9 DEF BackupType
  <2>5. /\ dir' \in [DirNames -> DirType] /\ AbsentIsEmpty'
        /\ \A e \in DirNames \ {d} : dir'[e] = dir[e]
        /\ dir'[d].there /\ dir'[d].files[f] = x
        /\ \A g \in FileNames \ {f} : dir'[d].files[g] = dir[d].files[g]
        /\ Has(dir'[d]) = Has(dir[d]) \cup {f}
    BY <1>6, <2>3, <2>4, PutIs
  <2>6. CASE call.op = "restore"
    <3>1. dir'["live"] = dir["live"] /\ dir'["bak"] = dir["bak"] /\ dir'["snap"] = dir["snap"]
      BY <1>2, <2>6, <2>5 DEF DirNames
    <3>2. OriginalIsKept' BY <1>0, <1>8, <1>9, <2>6, <3>1 DEF OriginalIsKept
    <3>3. \A g \in Has(call.source) : g \in FileNames BY DEF Has
    <3>4. /\ \A g \in Has(call.source) \ Left(call.left) : dir["staging"].files[g] = call.source.files[g]
          /\ call.clean => Has(dir["staging"]) = Has(call.source) \ Left(call.left)
      BY <1>0, <2>6 DEF CopyIsSound
    <3>5. x = call.source.files[f] /\ f \in Has(call.source) BY <1>2, <1>9, <2>6 DEF x
    <3>6. \A g \in Has(call.source) \ Left(Tail(call.left)) :
            dir'["staging"].files[g] = call.source.files[g]
      BY <1>2, <1>7, <1>9, <2>5, <2>6, <3>3, <3>4, <3>5
    <3>7. call.clean => Has(dir'["staging"]) = Has(call.source) \ Left(Tail(call.left))
      BY <1>2, <1>7, <1>9, <2>5, <2>6, <3>4, <3>5
    <3>8. CopyIsSound'
      BY <1>0, <1>2, <1>8, <1>9, <2>5, <2>6, <3>1, <3>6, <3>7 DEF CopyIsSound
    <3>9. call'.at \in RestorePlaces BY <1>0, <1>3, <1>8, <1>9
    <3> QED BY <1>8, <1>9, <2>2, <2>5, <2>6, <3>2, <3>8, <3>9, RestoreGoesOn
  <2>7. CASE call.op = "snapshot"
    <3>1. call'.at \in CopyPlaces BY <1>0, <1>3, <1>8, <1>9
    <3> QED BY <1>2, <1>8, <1>9, <2>2, <2>5, <2>7, <3>1, SnapshotGoesOn
  <2> QED BY <1>0, <2>6, <2>7
<1>10. CASE /\ call.left # <<>> /\ f \notin Has(src) /\ f \notin RequiredFiles
            /\ call' = [call EXCEPT !.left = Tail(@)] /\ UNCHANGED dir /\ Quiet
  <2>1. UNCHANGED <<running, result, spent>> /\ spent' \in SpentType BY <1>10 DEF Quiet, BackupType
  <2>2. dir' \in [DirNames -> DirType] /\ AbsentIsEmpty' BY <1>10 DEF BackupType, AbsentIsEmpty
  <2>3. CASE call.op = "restore"
    <3>1. OriginalIsKept' BY <1>0, <1>8, <1>10, <2>3 DEF OriginalIsKept
    <3>2. /\ \A g \in Has(call.source) \ Left(call.left) : dir["staging"].files[g] = call.source.files[g]
          /\ call.clean => Has(dir["staging"]) = Has(call.source) \ Left(call.left)
          /\ dir["staging"].there
      BY <1>0, <2>3 DEF CopyIsSound
    <3>3. Has(call.source) \ Left(call.left) = Has(call.source) \ Left(Tail(call.left))
      BY <1>2, <1>7, <1>10, <2>3
    <3>4. CopyIsSound' BY <1>0, <1>8, <1>10, <2>3, <3>2, <3>3 DEF CopyIsSound
    <3>5. call'.at \in RestorePlaces BY <1>0, <1>3, <1>8, <1>10
    <3> QED BY <1>8, <1>10, <2>1, <2>2, <2>3, <3>1, <3>4, <3>5, RestoreGoesOn
  <2>4. CASE call.op = "snapshot"
    <3>1. call'.at \in CopyPlaces BY <1>0, <1>3, <1>8, <1>10
    <3> QED BY <1>2, <1>6, <1>8, <1>10, <2>1, <2>2, <2>4, <3>1, SnapshotGoesOn
  <2> QED BY <1>0, <2>3, <2>4
<1>11. ASSUME NEW p \in {"dropStaging", "install"}, call' = [call EXCEPT !.at = p],
              UNCHANGED <<dir, running, result>>, spent' = spent \/ Spend("errors"),
              p = "install" => call.left = <<>>
       PROVE  BackupInv'
  <2>1. CASE call.op = "restore"
    <3>1. p \in RestorePlaces BY <1>3, <1>11
    <3>2. call'.at = p /\ Fields(call') = Fields(call) BY <1>11, <2>1, <3>1, RestoreMoves
    <3>3. OriginalIsKept' BY <1>0, <1>11, <2>1, <3>2 DEF OriginalIsKept, Fields
    <3>4. p = "install" => IsCopy(dir["staging"], call.source, call.clean)
      <4>1. SUFFICES ASSUME p = "install" PROVE IsCopy(dir["staging"], call.source, call.clean)
        OBVIOUS
      <4>2. Left(call.left) = {} BY <1>11, <4>1, LeftFacts, <1>4
      <4>3. /\ \A g \in Has(call.source) : dir["staging"].files[g] = call.source.files[g]
            /\ call.clean => Has(dir["staging"]) = Has(call.source)
            /\ dir["staging"].there
        BY <1>0, <2>1, <4>2 DEF CopyIsSound
      <4>4. call.source.there BY <2>1, CopyFacts DEF CopyIsSound
      <4>5. dir["staging"] \in DirType /\ call.source \in DirType
        BY <1>1, <1>4 DEF BackupType, CallType
      <4>6. call.clean => dir["staging"] = call.source BY <4>3, <4>4, <4>5, SameFiles
      <4> QED BY <4>3, <4>6 DEF IsCopy
    <3>5. CopyIsSound' BY <1>0, <1>11, <2>1, <3>2, <3>4 DEF CopyIsSound, Fields
    <3> QED BY <1>11, <2>1, <3>1, <3>3, <3>5, MoveKeeps
  <2>2. CASE call.op = "snapshot"
    <3>1. dir' \in [DirNames -> DirType] /\ AbsentIsEmpty' BY <1>11 DEF BackupType, AbsentIsEmpty
    <3>2. p \in CopyPlaces /\ p # "copyFile" BY <1>3, <1>11
    <3> QED BY <1>11, <2>2, <3>1, <3>2, SnapshotMoves
  <2> QED BY <1>0, <2>1, <2>2
<1>12. CASE call.left = <<>> /\ Goto("clearDest") /\ UNCHANGED dir /\ Quiet /\ dir[call.to].there
  <2>1. call.op = "snapshot" BY <1>0, <1>12 DEF CopyIsSound, CallsAreSound
  <2>2. dir' \in [DirNames -> DirType] /\ AbsentIsEmpty' BY <1>12 DEF BackupType, AbsentIsEmpty
  <2>3. "clearDest" \in CopyPlaces BY DEF CopyPlaces
  <2> QED BY <1>12, <2>1, <2>2, <2>3, SnapshotMoves DEF Goto, Quiet
<1>13. CASE Failing("dropStaging") BY <1>11, <1>13 DEF Failing, Goto
<1>14. \/ /\ call.left # <<>> /\ f \in Has(src)
          /\ dir' = [dir EXCEPT ![d].files[f] = src.files[f]]
          /\ call' = [call EXCEPT !.left = Tail(@)] /\ Quiet
       \/ /\ call.left # <<>> /\ f \notin Has(src)
          /\ call' = IF f \in RequiredFiles THEN [call EXCEPT !.at = "dropStaging"]
                     ELSE [call EXCEPT !.left = Tail(@)]
          /\ UNCHANGED dir /\ Quiet
       \/ /\ call.left = <<>>
          /\ Goto(IF dir[call.to].there THEN "clearDest" ELSE "install")
          /\ UNCHANGED dir /\ Quiet
       \/ call.left # <<>> /\ Failing("dropStaging")
  BY DEF CopyFile, f, src, d
<1>15. CASE /\ call.left # <<>> /\ f \notin Has(src) /\ f \in RequiredFiles
            /\ call' = [call EXCEPT !.at = "dropStaging"] /\ UNCHANGED dir /\ Quiet
  BY <1>11, <1>15 DEF Quiet
<1>16. CASE call.left = <<>> /\ Goto("install") /\ UNCHANGED dir /\ Quiet
  BY <1>11, <1>16 DEF Quiet, Goto
<1> QED BY <1>9, <1>10, <1>12, <1>13, <1>14, <1>15, <1>16

\* A failed copy clears its staging directory.
LEMMA DropStagingKeeps ==
  ASSUME BackupInv, DropStaging
  PROVE  BackupInv'
<1> USE DEF BackupInv
<1>0. call.op \in {"restore", "snapshot"} /\ call.at = "dropStaging" BY DEF DropStaging, At
<1> DEFINE d == StagingFor(call.to)
<1>1. "staging" \in DirNames /\ "snap-staging" \in DirNames /\ d \in {"staging", "snap-staging"}
  BY DEF DirNames, StagingFor
<1>2. "dropStaging" \in CopyPlaces /\ "dropStaging" \in RestorePlaces
  BY DEF CopyPlaces, RestorePlaces
<1>3. call.op = "restore" => d = "staging" BY DEF StagingFor, CallsAreSound
<1> HIDE DEF d
<1>4. CASE RemoveAll(d, "dropStaging")
  <2>1. /\ dir' \in [DirNames -> DirType] /\ AbsentIsEmpty'
        /\ \A e \in DirNames \ {d} : dir'[e] = dir[e]
    BY <1>1, <1>4, RemovedIs DEF RemoveAll, BackupType
  <2>2. /\ call' = [call EXCEPT !.at = "dropStaging"] \/ call' = call
        /\ UNCHANGED <<running, result, spent>>
    BY <1>4 DEF RemoveAll, Quiet
  <2>3. CASE call.op = "restore"
    <3>1. Fields(call') = Fields(call) /\ call'.at = "dropStaging"
      BY <1>0, <1>2, <2>2, <2>3, RestoreMoves
    <3>2. dir'["live"] = dir["live"] /\ dir'["bak"] = dir["bak"] /\ dir'["snap"] = dir["snap"]
      BY <1>3, <2>1, <2>3 DEF DirNames
    <3>3. OriginalIsKept' BY <1>0, <2>3, <3>1, <3>2 DEF OriginalIsKept, Fields
    <3>4. CopyIsSound' BY <1>0, <2>3, <3>1, <3>2 DEF CopyIsSound, Fields
    <3> QED BY <1>1, <1>2, <1>4, <2>3, <3>3, <3>4, RemovalKeeps
  <2>4. CASE call.op = "snapshot" BY <1>0, <1>2, <2>1, <2>2, <2>4, SnapshotMoves
  <2> QED BY <1>0, <2>3, <2>4
<1>5. CASE CopyError /\ UNCHANGED <<dir, spent>> BY <1>0, <1>5, CopyErrorKeeps
<1>6. CASE CopyFailing BY <1>0, <1>6, CopyErrorKeeps DEF CopyFailing
<1> QED BY <1>4, <1>5, <1>6 DEF DropStaging, d

\* A restore's destination is never there.
LEMMA ClearDestKeeps ==
  ASSUME BackupInv, ClearDest
  PROVE  BackupInv'
<1> USE DEF BackupInv
<1>0. call.op = "snapshot" /\ call.at = "clearDest" /\ call.to = "snap"
  BY DEF ClearDest, At, CallsAreSound, PlacesOf, RestorePlaces
<1>1. CASE RemoveAll(call.to, "install")
  <2>1. dir' \in [DirNames -> DirType] /\ AbsentIsEmpty'
    BY <1>0, <1>1, RemovedIs DEF RemoveAll, BackupType, DirNames
  <2>2. /\ call' = [call EXCEPT !.at = "install"] \/ call' = call
        /\ UNCHANGED <<running, result, spent>>
    BY <1>1 DEF RemoveAll, Quiet
  <2>3. "install" \in CopyPlaces BY DEF CopyPlaces
  <2> QED BY <1>0, <2>1, <2>2, <2>3, SnapshotMoves
<1>2. CASE CopyFailing BY <1>0, <1>2, CopyErrorKeeps DEF CopyFailing
<1> QED BY <1>1, <1>2 DEF ClearDest

\* The staged copy takes the name of its destination.
LEMMA InstallKeeps ==
  ASSUME BackupInv, Install
  PROVE  BackupInv'
<1> USE DEF BackupInv
<1>0. call.op \in {"restore", "snapshot"} /\ call.at = "install" BY DEF Install, At
<1>1. "fsyncDest" \in CopyPlaces /\ "fsyncDest" \in RestorePlaces
  BY DEF CopyPlaces, RestorePlaces
<1>2. CASE dir' = Renamed(StagingFor(call.to), call.to) /\ Goto("fsyncDest") /\ Quiet
  <2>1. call' = [call EXCEPT !.at = "fsyncDest"] /\ UNCHANGED <<running, result, spent>>
    BY <1>2 DEF Goto, Quiet
  <2>2. CASE call.op = "restore"
    <3>1. dir' = Renamed("staging", "live") BY <1>2, <2>2 DEF StagingFor, CallsAreSound
    <3>2. /\ dir' \in [DirNames -> DirType] /\ AbsentIsEmpty' /\ dir'["live"] = dir["staging"]
          /\ \A d \in DirNames \ {"staging", "live"} : dir'[d] = dir[d]
      BY <3>1, RenamedIs DEF BackupType, DirNames
    <3>3. dir'["bak"] = dir["bak"] /\ dir'["snap"] = dir["snap"] BY <3>2 DEF DirNames
    <3>4. call' \in CallType /\ call'.at = "fsyncDest" /\ Fields(call') = Fields(call)
      BY <1>1, <2>1, <2>2, RestoreMoves
    <3>5. OriginalIsKept' BY <1>0, <2>2, <3>3, <3>4 DEF OriginalIsKept, Fields
    <3>6. CopyIsSound' BY <1>0, <2>2, <3>2, <3>3, <3>4 DEF CopyIsSound, Fields
    <3>7. spent' \in SpentType BY <2>1 DEF BackupType
    <3> QED BY <1>1, <2>1, <2>2, <3>2, <3>4, <3>5, <3>6, <3>7, RestoreGoesOn DEF Fields
  <2>3. CASE call.op = "snapshot"
    <3>1. dir' = Renamed("snap-staging", "snap") BY <1>2, <2>3 DEF StagingFor, CallsAreSound
    <3>2. dir' \in [DirNames -> DirType] /\ AbsentIsEmpty'
      BY <3>1, RenamedIs DEF BackupType, DirNames
    <3> QED BY <1>1, <2>1, <2>3, <3>2, SnapshotMoves
  <2> QED BY <1>0, <2>2, <2>3
<1>3. CASE CopyFailing BY <1>0, <1>3, CopyErrorKeeps DEF CopyFailing
<1> QED BY <1>2, <1>3 DEF Install

\* The rename is synced.
LEMMA FsyncDestKeeps ==
  ASSUME BackupInv, FsyncDest
  PROVE  BackupInv'
<1> USE DEF BackupInv
<1>0. call.op \in {"restore", "snapshot"} /\ call.at = "fsyncDest" BY DEF FsyncDest, At
<1>1. CASE call.op = "restore" /\ Goto("fsyncFiles") /\ UNCHANGED dir /\ Quiet
  <2>1. call' = [call EXCEPT !.at = "fsyncFiles"] /\ UNCHANGED <<dir, running, result, spent>>
    BY <1>1 DEF Goto, Quiet
  <2>2. "fsyncFiles" \in RestorePlaces BY DEF RestorePlaces
  <2>3. call'.at = "fsyncFiles" /\ Fields(call') = Fields(call) BY <1>1, <2>1, <2>2, RestoreMoves
  <2>4. OriginalIsKept' BY <1>0, <1>1, <2>1, <2>3 DEF OriginalIsKept, Fields
  <2>5. CopyIsSound' BY <1>0, <1>1, <2>1, <2>3 DEF CopyIsSound, Fields
  <2> QED BY <1>1, <2>1, <2>2, <2>4, <2>5, MoveKeeps
<1>2. CASE call.op = "snapshot" /\ Finish("Ok")
  <2>1. call' = Idle /\ result' = NoResult /\ UNCHANGED <<dir, running, spent>>
    BY <1>2 DEF Finish, Ended
  <2>2. dir' \in [DirNames -> DirType] /\ AbsentIsEmpty' /\ spent' \in SpentType
    BY <2>1 DEF BackupType, AbsentIsEmpty
  <2> QED BY <1>2, <2>1, <2>2, IdleIs, SnapshotGoesOn
<1>3. CASE CopyFailing BY <1>0, <1>3, CopyErrorKeeps DEF CopyFailing
<1> QED BY <1>0, <1>1, <1>2, <1>3 DEF FsyncDest

\* The copied files are synced.
LEMMA FsyncFilesKeeps ==
  ASSUME BackupInv, FsyncFiles
  PROVE  BackupInv'
<1> USE DEF BackupInv
<1>0. call.op = "restore" /\ call.at = "fsyncFiles" BY DEF FsyncFiles, At
<1>1. CASE Goto("open") /\ UNCHANGED dir /\ Quiet
  <2>1. call' = [call EXCEPT !.at = "open"] /\ UNCHANGED <<dir, running, result, spent>>
    BY <1>1 DEF Goto, Quiet
  <2>2. "open" \in RestorePlaces BY DEF RestorePlaces
  <2>3. call'.at = "open" /\ Fields(call') = Fields(call) BY <1>0, <2>1, <2>2, RestoreMoves
  <2>4. OriginalIsKept' BY <1>0, <2>1, <2>3 DEF OriginalIsKept, Fields
  <2>5. CopyIsSound' BY <1>0, <2>1, <2>3 DEF CopyIsSound, Fields
  <2> QED BY <1>0, <2>1, <2>2, <2>4, <2>5, MoveKeeps
<1>2. CASE Spend("errors") /\ Rollback("CopyFailed") /\ UNCHANGED <<dir, running, result>>
  <2>1. "CopyFailed" \in Failures BY DEF Failures
  <2> QED BY <1>0, <1>2, <2>1, RollbackKeeps
<1> QED BY <1>1, <1>2 DEF FsyncFiles

\* The copy is opened: it commits or is rolled back.
LEMMA OpenRestoredKeeps ==
  ASSUME BackupInv, OpenRestored
  PROVE  BackupInv'
<1> USE DEF BackupInv
<1>0. /\ call.op = "restore" /\ call.at = "open" /\ IsCopy(dir["live"], call.source, call.clean)
  BY DEF OpenRestored, At, CopyIsSound
<1>1. CASE Rollback("ValidationFailed") /\ UNCHANGED dir /\ Quiet
  <2>1. "ValidationFailed" \in Failures BY DEF Failures
  <2> QED BY <1>0, <1>1, <2>1, RollbackKeeps DEF Quiet
<1>2. CASE Opens(dir["live"]) /\ call.had /\ Goto("commit") /\ UNCHANGED dir /\ Quiet
  <2>1. call' = [call EXCEPT !.at = "commit"] /\ UNCHANGED <<dir, running, result, spent>>
    BY <1>2 DEF Goto, Quiet
  <2>2. "commit" \in RestorePlaces BY DEF RestorePlaces
  <2>3. call'.at = "commit" /\ Fields(call') = Fields(call) BY <1>0, <2>1, <2>2, RestoreMoves
  <2>4. OriginalIsKept' BY <1>0, <1>2, <2>1, <2>3 DEF OriginalIsKept, Fields
  <2>5. CopyIsSound' BY <1>0, <1>2, <2>1, <2>3 DEF CopyIsSound, Fields
  <2> QED BY <1>0, <2>1, <2>2, <2>4, <2>5, MoveKeeps
<1>3. CASE Opens(dir["live"]) /\ Finish("Ok") BY <1>0, <1>3, AnswerKeeps
<1> QED BY <1>1, <1>2, <1>3 DEF OpenRestored

\* .bak goes once the copy has opened.
LEMMA CommitKeeps ==
  ASSUME BackupInv, Commit
  PROVE  BackupInv'
<1> USE DEF BackupInv
<1>0. /\ call.op = "restore" /\ call.at = "commit" /\ IsCopy(dir["live"], call.source, call.clean)
      /\ Opens(dir["live"])
  BY DEF Commit, At, CopyIsSound
<1>1. CASE RemoveAll("bak", "commit")
  <2>1. \A e \in DirNames \ {"bak"} : dir'[e] = dir[e]
    BY <1>1, RemovedIs DEF RemoveAll, BackupType, DirNames
  <2>2. dir'["live"] = dir["live"] /\ dir'["snap"] = dir["snap"] BY <2>1 DEF DirNames
  <2>3. "bak" \in DirNames /\ "commit" \in RestorePlaces BY DEF DirNames, RestorePlaces
  <2>4. Fields(call') = Fields(call) /\ call'.at = "commit"
    BY <1>0, <1>1, <2>3, RestoreMoves DEF RemoveAll
  <2>5. OriginalIsKept' BY <1>0, <2>2, <2>4 DEF OriginalIsKept, Fields
  <2>6. CopyIsSound' BY <1>0, <2>2, <2>4 DEF CopyIsSound, Fields
  <2> QED BY <1>0, <1>1, <2>3, <2>5, <2>6, RemovalKeeps
<1>2. CASE Finish("Ok") \/ FinishFailing("Ok") BY <1>0, <1>2, AnswerKeeps
<1> QED BY <1>1, <1>2 DEF Commit

\* Rolling back without an original.
LEMMA DropLiveKeeps ==
  ASSUME BackupInv, DropLive
  PROVE  BackupInv'
<1> USE DEF BackupInv
<1>0. /\ call.op = "restore" /\ call.at = "dropLive" /\ ~call.had /\ ~call.before.there
      /\ call.outcome \in Failures
  BY DEF DropLive, At, OriginalIsKept
<1>1. CASE RemoveAll("live", "dropLive")
  <2>1. \A e \in DirNames \ {"live"} : dir'[e] = dir[e]
    BY <1>1, RemovedIs DEF RemoveAll, BackupType, DirNames
  <2>2. dir'["bak"] = dir["bak"] /\ dir'["snap"] = dir["snap"] BY <2>1 DEF DirNames
  <2>3. "live" \in DirNames /\ "dropLive" \in RestorePlaces BY DEF DirNames, RestorePlaces
  <2>4. Fields(call') = Fields(call) /\ call'.at = "dropLive"
    BY <1>0, <1>1, <2>3, RestoreMoves DEF RemoveAll
  <2>5. OriginalIsKept' BY <1>0, <2>2, <2>4 DEF OriginalIsKept, Fields
  <2>6. CopyIsSound' BY <1>0, <2>2, <2>4 DEF CopyIsSound, Fields
  <2> QED BY <1>0, <1>1, <2>3, <2>5, <2>6, RemovalKeeps
<1>2. CASE Finish(call.outcome) \/ FinishFailing(call.outcome)
  BY <1>0, <1>2, AnswerKeeps DEF Failures
<1> QED BY <1>1, <1>2 DEF DropLive

\* Rolling back: the copy is moved aside.
LEMMA MoveLiveKeeps ==
  ASSUME BackupInv, MoveLive
  PROVE  BackupInv'
<1> USE DEF BackupInv
<1>0. /\ call.op = "restore" /\ call.at = "moveLive" /\ call.had /\ dir["bak"] = call.before
      /\ call.outcome \in Failures
  BY DEF MoveLive, At, OriginalIsKept
<1>1. "moveBack" \in RestorePlaces BY DEF RestorePlaces
<1>2. CASE ~dir["live"].there /\ Goto("moveBack") /\ UNCHANGED dir /\ Quiet
  <2>1. call' = [call EXCEPT !.at = "moveBack"] /\ UNCHANGED <<dir, running, result, spent>>
    BY <1>2 DEF Goto, Quiet
  <2>2. call'.at = "moveBack" /\ Fields(call') = Fields(call) BY <1>0, <1>1, <2>1, RestoreMoves
  <2>3. OriginalIsKept' BY <1>0, <2>1, <2>2 DEF OriginalIsKept, Fields
  <2>4. CopyIsSound' BY <1>0, <1>2, <2>1, <2>2 DEF CopyIsSound, Fields
  <2> QED BY <1>0, <1>1, <2>1, <2>3, <2>4, MoveKeeps
<1>3. CASE dir' = Renamed("live", "failed") /\ Goto("moveBack") /\ Quiet
  <2>1. call' = [call EXCEPT !.at = "moveBack"] /\ UNCHANGED <<running, result, spent>>
    BY <1>3 DEF Goto, Quiet
  <2>2. /\ dir' \in [DirNames -> DirType] /\ AbsentIsEmpty' /\ dir'["live"] = Absent
        /\ \A d \in DirNames \ {"live", "failed"} : dir'[d] = dir[d]
    BY <1>3, RenamedIs DEF BackupType, DirNames
  <2>3. dir'["bak"] = dir["bak"] /\ dir'["snap"] = dir["snap"] BY <2>2 DEF DirNames
  <2>4. call' \in CallType /\ call'.at = "moveBack" /\ Fields(call') = Fields(call)
    BY <1>0, <1>1, <2>1, RestoreMoves
  <2>5. OriginalIsKept' BY <1>0, <2>3, <2>4 DEF OriginalIsKept, Fields
  <2>6. CopyIsSound' BY <1>0, <2>2, <2>3, <2>4, AbsentIs DEF CopyIsSound, Fields
  <2>7. spent' \in SpentType BY <2>1 DEF BackupType
  <2> QED BY <1>0, <1>1, <2>1, <2>2, <2>4, <2>5, <2>6, <2>7, RestoreGoesOn DEF Fields
<1>4. CASE FinishFailing("RollbackFailed") BY <1>0, <1>4, AnswerKeeps
<1> QED BY <1>2, <1>3, <1>4 DEF MoveLive

\* Rolling back: .bak takes its name again.
LEMMA MoveBackKeeps ==
  ASSUME BackupInv, MoveBack
  PROVE  BackupInv'
<1> USE DEF BackupInv
<1>0. /\ call.op = "restore" /\ call.at = "moveBack" /\ call.had /\ dir["bak"] = call.before
      /\ call.outcome \in Failures
  BY DEF MoveBack, At, OriginalIsKept
<1>1. "dropFailed" \in RestorePlaces BY DEF RestorePlaces
<1>2. CASE dir' = Renamed("bak", "live") /\ Goto("dropFailed") /\ Quiet
  <2>1. call' = [call EXCEPT !.at = "dropFailed"] /\ UNCHANGED <<running, result, spent>>
    BY <1>2 DEF Goto, Quiet
  <2>2. /\ dir' \in [DirNames -> DirType] /\ AbsentIsEmpty' /\ dir'["live"] = dir["bak"]
        /\ \A d \in DirNames \ {"bak", "live"} : dir'[d] = dir[d]
    BY <1>2, RenamedIs DEF BackupType, DirNames
  <2>3. dir'["snap"] = dir["snap"] BY <2>2 DEF DirNames
  <2>4. call' \in CallType /\ call'.at = "dropFailed" /\ Fields(call') = Fields(call)
    BY <1>0, <1>1, <2>1, RestoreMoves
  <2>5. OriginalIsKept' BY <1>0, <2>2, <2>4 DEF OriginalIsKept, Fields
  <2>6. CopyIsSound' BY <1>0, <2>3, <2>4 DEF CopyIsSound, Fields
  <2>7. spent' \in SpentType BY <2>1 DEF BackupType
  <2> QED BY <1>0, <1>1, <2>1, <2>2, <2>4, <2>5, <2>6, <2>7, RestoreGoesOn DEF Fields
<1>3. CASE FinishFailing("RollbackFailed") BY <1>0, <1>3, AnswerKeeps
<1> QED BY <1>2, <1>3 DEF MoveBack

\* Rolling back: the copy is removed.
LEMMA DropFailedKeeps ==
  ASSUME BackupInv, DropFailed
  PROVE  BackupInv'
<1> USE DEF BackupInv
<1>0. /\ call.op = "restore" /\ call.at = "dropFailed" /\ dir["live"] = call.before
      /\ call.outcome \in Failures
  BY DEF DropFailed, At, OriginalIsKept
<1>1. CASE RemoveAll("failed", "dropFailed")
  <2>1. \A e \in DirNames \ {"failed"} : dir'[e] = dir[e]
    BY <1>1, RemovedIs DEF RemoveAll, BackupType, DirNames
  <2>2. dir'["live"] = dir["live"] /\ dir'["snap"] = dir["snap"] /\ dir'["bak"] = dir["bak"]
    BY <2>1 DEF DirNames
  <2>3. "failed" \in DirNames /\ "dropFailed" \in RestorePlaces BY DEF DirNames, RestorePlaces
  <2>4. Fields(call') = Fields(call) /\ call'.at = "dropFailed"
    BY <1>0, <1>1, <2>3, RestoreMoves DEF RemoveAll
  <2>5. OriginalIsKept' BY <1>0, <2>2, <2>4 DEF OriginalIsKept, Fields
  <2>6. CopyIsSound' BY <1>0, <2>2, <2>4 DEF CopyIsSound, Fields
  <2> QED BY <1>0, <1>1, <2>3, <2>5, <2>6, RemovalKeeps
<1>2. CASE Finish(call.outcome) \/ FinishFailing(call.outcome)
  BY <1>0, <1>2, AnswerKeeps DEF Failures
<1> QED BY <1>1, <1>2 DEF DropFailed

\* The process is killed: what a restore leaves behind can be put in order.
LEMMA KillKeeps ==
  ASSUME BackupInv, Kill
  PROVE  BackupInv'
<1> USE DEF BackupInv
<1>1. running' = FALSE /\ call' = Idle /\ UNCHANGED dir BY DEF Kill
<1>2. spent' \in SpentType BY SpendIs DEF Kill, BackupType
<1>3. AbsentIsEmpty' BY <1>1 DEF AbsentIsEmpty
<1>4. OriginalIsKept' /\ CopyIsSound' /\ StartsAreSound' /\ SnapshotStages'
  BY <1>1, IdleIs DEF OriginalIsKept, CopyIsSound, StartsAreSound, SnapshotStages
<1>5. SUFFICES /\ result' \in ResultType /\ result'.outcome \in {"none", "cut"} /\ CutIsRecoverable'
  <2> SUFFICES ASSUME result' \in ResultType, result'.outcome \in {"none", "cut"}, CutIsRecoverable'
               PROVE  BackupInv'
    OBVIOUS
  <2>1. BackupType' BY <1>1, <1>2, IdleIs DEF BackupType
  <2>2. CallsAreSound' BY <1>1, IdleIs DEF CallsAreSound, PlacesOf
  <2>3. RestoreIsAllOrNothing' BY DEF RestoreIsAllOrNothing
  <2> QED BY <1>3, <1>4, <2>1, <2>2, <2>3
<1>6. CASE call.op = "restore"
  <2>1. result' = [outcome |-> "cut", before |-> call.before, source |-> call.source,
                   clean |-> call.clean]
    BY <1>6 DEF Kill, Outcome
  <2>2. call.before \in DirType /\ call.source \in DirType /\ call.clean \in BOOLEAN
    BY DEF BackupType, CallType
  <2>3. result' \in ResultType /\ result'.outcome = "cut" BY <2>1, <2>2 DEF ResultType
  <2>4. call.at \in RestorePlaces BY <1>6 DEF CallsAreSound, PlacesOf
  <2>5. ASSUME ValidSource(call.before)
        PROVE  \/ dir["live"] = call.before
               \/ IsCopy(dir["live"], call.source, call.clean)
               \/ ~dir["live"].there /\ dir["bak"] = call.before
    <3>1. call.before.there BY <2>5, CopyFacts
    <3>2. CASE call.at \in {"clearBak", "aside", "dropFailed"} BY <1>6, <3>2 DEF OriginalIsKept
    <3>3. CASE call.at \in {"fsyncAside", "undoAside", "copyStart", "clearStaging", "stage",
                            "copyFile", "dropStaging", "install", "moveBack"}
      <4>1. ~dir["live"].there BY <1>6, <3>3 DEF CopyIsSound
      <4>2. call.had /\ dir["bak"] = call.before BY <1>6, <3>1, <3>3 DEF OriginalIsKept
      <4> QED BY <4>1, <4>2
    <3>4. CASE call.at \in {"fsyncDest", "fsyncFiles", "open", "commit"}
      BY <1>6, <3>4 DEF CopyIsSound
    <3>5. CASE call.at = "moveLive" BY <1>6, <3>5 DEF CopyIsSound, OriginalIsKept
    <3>6. CASE call.at = "dropLive" BY <1>6, <3>1, <3>6 DEF OriginalIsKept
    <3> QED BY <2>4, <3>2, <3>3, <3>4, <3>5, <3>6 DEF RestorePlaces, CopyPlaces
  <2>6. CutIsRecoverable' BY <1>1, <2>1, <2>5, IdleIs DEF CutIsRecoverable
  <2> QED BY <2>3, <2>6
<1>7. CASE call.op # "restore"
  <2>1. (result' = result /\ result.outcome = "cut") \/ result' = NoResult BY <1>7 DEF Kill
  <2>2. result' \in ResultType /\ result'.outcome \in {"none", "cut"} BY <2>1, IdleIs DEF BackupType
  <2>3. CutIsRecoverable' BY <1>1, <2>1, IdleIs DEF CutIsRecoverable
  <2> QED BY <2>2, <2>3
<1> QED BY <1>6, <1>7

\* The server starts.
LEMMA StartKeeps ==
  ASSUME BackupInv, Start
  PROVE  BackupInv'
<1> USE DEF BackupInv
<1>1. /\ ~running /\ call' = [Idle EXCEPT !.op = "reconcile", !.at = "staging"]
      /\ UNCHANGED <<dir, running, result, spent>>
  BY DEF Start
<1>2. "staging" \in Places /\ "staging" \in ReconcilePlaces BY DEF Places, ReconcilePlaces
<1>3. call' \in CallType /\ call'.op = "reconcile" /\ call'.at = "staging"
  BY <1>1, <1>2, IdleIs DEF CallType, Ops
<1>4. BackupType' BY <1>1, <1>3 DEF BackupType
<1>5. AbsentIsEmpty' BY <1>1 DEF AbsentIsEmpty
<1>6. CallsAreSound' BY <1>1, <1>2, <1>3 DEF CallsAreSound, PlacesOf
<1>7. OriginalIsKept' /\ CopyIsSound' /\ StartsAreSound' /\ SnapshotStages'
  BY <1>3 DEF OriginalIsKept, CopyIsSound, StartsAreSound, SnapshotStages
<1>8. CutIsRecoverable' BY <1>1, <1>3 DEF CutIsRecoverable
<1>9. RestoreIsAllOrNothing' BY <1>3, IdleIs DEF RestoreIsAllOrNothing
<1> QED BY <1>4, <1>5, <1>6, <1>7, <1>8, <1>9

\* A step of a start has only what was cut short to keep.
LEMMA ReconcileGoesOn ==
  ASSUME BackupInv, call.op = "reconcile", UNCHANGED <<running, result>>,
         \/ call' = Idle
         \/ call' = call
         \/ \E p \in ReconcilePlaces : call' = [call EXCEPT !.at = p],
         dir' \in [DirNames -> DirType], AbsentIsEmpty', spent' \in SpentType,
         StartsAreSound', CutIsRecoverable'
  PROVE  BackupInv'
<1> USE DEF BackupInv
<1>1. ~running /\ result.outcome \in {"none", "cut"} /\ call.at \in ReconcilePlaces
  BY DEF CallsAreSound, PlacesOf
<1>2. /\ call' \in CallType
      /\ \/ call' = Idle
         \/ call'.op = "reconcile" /\ call'.at \in ReconcilePlaces
  <2>1. ASSUME NEW p \in ReconcilePlaces, call' = [call EXCEPT !.at = p]
        PROVE  call' \in CallType /\ call'.op = "reconcile" /\ call'.at \in ReconcilePlaces
    <3>1. p \in Places BY DEF Places
    <3> QED BY <2>1, <3>1, GotoIs DEF BackupType, Fields
  <2> QED BY <1>1, <2>1, IdleIs DEF BackupType
<1>3. BackupType' BY <1>2 DEF BackupType
<1>4. CallsAreSound' BY <1>1, <1>2, IdleIs DEF CallsAreSound, PlacesOf
<1>5. OriginalIsKept' /\ CopyIsSound' /\ SnapshotStages'
  BY <1>2, IdleIs DEF OriginalIsKept, CopyIsSound, SnapshotStages
<1>6. RestoreIsAllOrNothing' BY <1>1 DEF RestoreIsAllOrNothing
<1> QED BY <1>3, <1>4, <1>5, <1>6

\* The place of a start changes.
LEMMA ReconcileMoves ==
  ASSUME BackupInv, call.op = "reconcile", NEW p \in ReconcilePlaces, call' = [call EXCEPT !.at = p]
  PROVE  call'.at = p /\ call'.op = "reconcile"
<1>1. p \in Places BY DEF Places
<1> QED BY <1>1, GotoIs DEF BackupInv, BackupType, Fields

\* A directory that a start removes.
LEMMA ReconcileRemoves ==
  ASSUME BackupInv, call.op = "reconcile", NEW d \in {"staging", "failed", "partial"},
         NEW p \in ReconcilePlaces, p \in {"failed", "decide", "back"}, RemoveAll(d, p),
         call.at \notin {"dropBak", "movePartial", "up"},
         p = "back" => call.at = "dropPartial"
  PROVE  BackupInv'
<1> USE DEF BackupInv
<1>1. call' = [call EXCEPT !.at = p] \/ call' = call BY DEF RemoveAll
<1>2. d \in DirNames BY DEF DirNames
<1>3. /\ dir' \in [DirNames -> DirType] /\ AbsentIsEmpty'
      /\ \A e \in DirNames \ {d} : dir'[e] = dir[e]
  BY <1>2, RemovedIs DEF RemoveAll, BackupType
<1>4. dir'["live"] = dir["live"] /\ dir'["bak"] = dir["bak"] BY <1>3 DEF DirNames
<1>5. UNCHANGED <<running, result, spent>> /\ spent' \in SpentType
  BY DEF RemoveAll, Quiet, BackupType
<1>6. (call'.at = p \/ call'.at = call.at) /\ call'.op = "reconcile" BY <1>1, ReconcileMoves
<1>7. StartsAreSound' BY <1>4, <1>6 DEF StartsAreSound
<1>8. CutIsRecoverable' BY <1>4, <1>5, <1>6 DEF CutIsRecoverable
<1> QED BY <1>1, <1>3, <1>5, <1>7, <1>8, ReconcileGoesOn

\* A start removes partial copies.
LEMMA ReconcileCopiesKeeps ==
  ASSUME BackupInv, ReconcileCopies
  PROVE  BackupInv'
<1> USE DEF BackupInv
<1>0. call.op = "reconcile" /\ call.at \in {"staging", "failed"} BY DEF ReconcileCopies, At
<1>1. "failed" \in ReconcilePlaces /\ "decide" \in ReconcilePlaces BY DEF ReconcilePlaces
<1>2. CASE RemoveAll("staging", "failed") BY <1>0, <1>1, <1>2, ReconcileRemoves
<1>3. CASE RemoveAll("failed", "decide") BY <1>0, <1>1, <1>3, ReconcileRemoves
<1>4. ASSUME NEW p \in {"failed", "decide"}, Goto(p), UNCHANGED dir, Quiet
      PROVE  BackupInv'
  <2>1. /\ call' = [call EXCEPT !.at = p] /\ UNCHANGED <<dir, running, result, spent>>
        /\ p \in ReconcilePlaces
    BY <1>1, <1>4 DEF Goto, Quiet
  <2>2. call'.at = p /\ call'.op = "reconcile" BY <1>0, <2>1, ReconcileMoves
  <2>3. /\ dir' \in [DirNames -> DirType] /\ AbsentIsEmpty' /\ spent' \in SpentType
    BY <2>1 DEF BackupType, AbsentIsEmpty
  <2>4. StartsAreSound' BY <2>2, <1>4 DEF StartsAreSound
  <2>5. CutIsRecoverable' BY <1>4, <2>1, <2>2 DEF CutIsRecoverable
  <2> QED BY <1>0, <2>1, <2>3, <2>4, <2>5, ReconcileGoesOn
<1> QED BY <1>2, <1>3, <1>4 DEF ReconcileCopies

\* A start decides what .bak is.
LEMMA ReconcileDecideKeeps ==
  ASSUME BackupInv, ReconcileDecide
  PROVE  BackupInv'
<1> USE DEF BackupInv
<1>0. call.op = "reconcile" /\ ~running BY DEF ReconcileDecide, At, CallsAreSound
<1> DEFINE p == IF ~dir["bak"].there THEN "up"
                ELSE IF ValidSource(dir["live"]) THEN "dropBak"
                ELSE IF dir["live"].there THEN "movePartial" ELSE "back"
<1>1. call' = [call EXCEPT !.at = p] /\ UNCHANGED <<dir, running, result, spent>>
  BY DEF ReconcileDecide, Goto, Quiet
<1>2. /\ p \in {"up", "dropBak", "movePartial", "back"}
      /\ p = "up" => ~dir["bak"].there
      /\ p = "dropBak" => ValidSource(dir["live"])
      /\ p = "movePartial" => dir["live"].there /\ ~ValidSource(dir["live"])
      /\ p = "back" => ~dir["live"].there
  OBVIOUS
<1>3. p \in ReconcilePlaces BY <1>2 DEF ReconcilePlaces
<1> HIDE DEF p
<1>4. call'.at = p /\ call'.op = "reconcile" BY <1>0, <1>1, <1>3, ReconcileMoves
<1>5. /\ dir' \in [DirNames -> DirType] /\ AbsentIsEmpty' /\ spent' \in SpentType
  BY <1>1 DEF BackupType, AbsentIsEmpty
<1>6. StartsAreSound' BY <1>1, <1>2, <1>4 DEF StartsAreSound
<1>7. CutIsRecoverable'
  <2>1. \A d : ValidSource(d) => d.there BY CopyFacts
  <2>2. \A d, s, c : IsCopy(d, s, c) => d.there BY CopyFacts
  <2> QED BY <1>0, <1>1, <1>2, <1>4, <2>1, <2>2 DEF CutIsRecoverable
<1> QED BY <1>0, <1>1, <1>3, <1>5, <1>6, <1>7, ReconcileGoesOn

\* A start removes the .bak of a committed restore.
LEMMA ReconcileDropBakKeeps ==
  ASSUME BackupInv, ReconcileDropBak
  PROVE  BackupInv'
<1> USE DEF BackupInv
<1>0. /\ call.op = "reconcile" /\ call.at = "dropBak" /\ ValidSource(dir["live"])
  BY DEF ReconcileDropBak, At, StartsAreSound
<1>1. RemoveAll("bak", "up") BY DEF ReconcileDropBak
<1>2. call' = [call EXCEPT !.at = "up"] \/ call' = call BY <1>1 DEF RemoveAll
<1>3. "bak" \in DirNames /\ "up" \in ReconcilePlaces BY DEF DirNames, ReconcilePlaces
<1>4. /\ dir' \in [DirNames -> DirType] /\ AbsentIsEmpty'
      /\ \A e \in DirNames \ {"bak"} : dir'[e] = dir[e]
  BY <1>1, <1>3, RemovedIs DEF RemoveAll, BackupType
<1>5. dir'["live"] = dir["live"] BY <1>4 DEF DirNames
<1>6. UNCHANGED <<running, result, spent>> /\ spent' \in SpentType
  BY <1>1 DEF RemoveAll, Quiet, BackupType
<1>7. call'.at \in {"up", "dropBak"} /\ call'.op = "reconcile"
  BY <1>0, <1>2, <1>3, ReconcileMoves
<1>8. dir["live"].there BY <1>0, CopyFacts
<1>9. StartsAreSound' BY <1>0, <1>5, <1>7 DEF StartsAreSound
<1>10. CutIsRecoverable' BY <1>5, <1>6, <1>8 DEF CutIsRecoverable
<1> QED BY <1>0, <1>2, <1>3, <1>4, <1>6, <1>9, <1>10, ReconcileGoesOn

\* A start puts the original back.
LEMMA ReconcileReinstateKeeps ==
  ASSUME BackupInv, ReconcileReinstate
  PROVE  BackupInv'
<1> USE DEF BackupInv
<1>0. call.op = "reconcile" BY DEF ReconcileReinstate, At
<1>1. /\ "dropPartial" \in ReconcilePlaces /\ "back" \in ReconcilePlaces /\ "up" \in ReconcilePlaces
  BY DEF ReconcilePlaces
<1>2. CASE call.at = "movePartial" /\ dir' = Renamed("live", "partial") /\ Goto("dropPartial") /\ Quiet
  <2>1. call' = [call EXCEPT !.at = "dropPartial"] /\ UNCHANGED <<running, result, spent>>
    BY <1>2 DEF Goto, Quiet
  <2>2. call'.at = "dropPartial" /\ call'.op = "reconcile" BY <1>0, <1>1, <2>1, ReconcileMoves
  <2>3. /\ dir' \in [DirNames -> DirType] /\ AbsentIsEmpty' /\ dir'["live"] = Absent
    BY <1>2, RenamedIs DEF BackupType, DirNames
  <2>4. StartsAreSound' BY <2>2, <2>3, AbsentIs DEF StartsAreSound
  <2>5. dir["live"].there /\ ~ValidSource(dir["live"]) BY <1>0, <1>2 DEF StartsAreSound
  <2>6. \A d, s, c : /\ Opens(s) => ValidSource(s)
                     /\ ValidSource(s) /\ IsCopy(d, s, c) => ValidSource(d)
    BY CopyFacts
  <2>7. CutIsRecoverable' BY <2>1, <2>5, <2>6 DEF CutIsRecoverable
  <2>8. spent' \in SpentType BY <2>1 DEF BackupType
  <2> QED BY <1>0, <1>1, <2>1, <2>3, <2>4, <2>7, <2>8, ReconcileGoesOn
<1>3. CASE call.at = "dropPartial" /\ RemoveAll("partial", "back")
  BY <1>0, <1>1, <1>3, ReconcileRemoves
<1>4. CASE call.at = "back" /\ dir' = Renamed("bak", "live") /\ Goto("up") /\ Quiet
  <2>1. call' = [call EXCEPT !.at = "up"] /\ UNCHANGED <<running, result, spent>>
    BY <1>4 DEF Goto, Quiet
  <2>2. call'.at = "up" /\ call'.op = "reconcile" BY <1>0, <1>1, <2>1, ReconcileMoves
  <2>3. /\ dir' \in [DirNames -> DirType] /\ AbsentIsEmpty' /\ dir'["live"] = dir["bak"]
    BY <1>4, RenamedIs DEF BackupType, DirNames
  <2>4. StartsAreSound' BY <2>2 DEF StartsAreSound
  <2>5. ~dir["live"].there BY <1>0, <1>4 DEF StartsAreSound
  <2>6. \A d, s, c : (ValidSource(d) => d.there) /\ (IsCopy(d, s, c) => d.there) BY CopyFacts
  <2>7. CutIsRecoverable' BY <2>1, <2>3, <2>5, <2>6 DEF CutIsRecoverable
  <2>8. spent' \in SpentType BY <2>1 DEF BackupType
  <2> QED BY <1>0, <1>1, <2>1, <2>3, <2>4, <2>7, <2>8, ReconcileGoesOn
<1> QED BY <1>2, <1>3, <1>4 DEF ReconcileReinstate, At

\* A start fails.
LEMMA ReconcileFailsKeeps ==
  ASSUME BackupInv, ReconcileFails
  PROVE  BackupInv'
<1> USE DEF BackupInv
<1>0. /\ call.op = "reconcile" /\ ~running /\ UNCHANGED <<dir, running, result>> /\ Spend("errors")
  BY DEF ReconcileFails, CallsAreSound
<1>1. spent' \in SpentType BY <1>0, SpendIs DEF BackupType
<1>2. dir' \in [DirNames -> DirType] /\ AbsentIsEmpty' BY <1>0 DEF BackupType, AbsentIsEmpty
<1>3. CASE call.at = "dropPartial" /\ call' = [call EXCEPT !.at = "back"]
  <2>1. "back" \in ReconcilePlaces BY DEF ReconcilePlaces
  <2>2. call'.at = "back" /\ call'.op = "reconcile" BY <1>0, <1>3, <2>1, ReconcileMoves
  <2>3. StartsAreSound' BY <1>0, <1>3, <2>2 DEF StartsAreSound
  <2>4. CutIsRecoverable' BY <1>0, <2>2 DEF CutIsRecoverable
  <2> QED BY <1>0, <1>1, <1>2, <1>3, <2>1, <2>3, <2>4, ReconcileGoesOn
<1>4. CASE call' = Idle
  <2>1. StartsAreSound' BY <1>4, IdleIs DEF StartsAreSound
  <2>2. CutIsRecoverable' BY <1>0, <1>4, IdleIs DEF CutIsRecoverable
  <2> QED BY <1>0, <1>1, <1>2, <1>4, <2>1, <2>2, ReconcileGoesOn
<1> QED BY <1>3, <1>4 DEF ReconcileFails

\* A start ends: the database is there.
LEMMA UpKeeps ==
  ASSUME BackupInv, Up
  PROVE  BackupInv'
<1> USE DEF BackupInv
<1>1. /\ call.op = "reconcile" /\ call.at = "up" /\ running' = TRUE /\ call' = Idle
      /\ UNCHANGED <<dir, result, spent>>
  BY DEF Up, At
<1>2. result.outcome \in {"none", "cut"} BY <1>1 DEF CallsAreSound
<1>3. BackupType' BY <1>1, IdleIs DEF BackupType
<1>4. AbsentIsEmpty' BY <1>1 DEF AbsentIsEmpty
<1>5. CallsAreSound' BY <1>1, IdleIs DEF CallsAreSound, PlacesOf
<1>6. OriginalIsKept' /\ CopyIsSound' /\ StartsAreSound' /\ SnapshotStages'
  BY <1>1, IdleIs DEF OriginalIsKept, CopyIsSound, StartsAreSound, SnapshotStages
<1>7. CutIsRecoverable' BY <1>1 DEF CutIsRecoverable
<1>8. RestoreIsAllOrNothing' BY <1>1, <1>2 DEF RestoreIsAllOrNothing
<1> QED BY <1>3, <1>4, <1>5, <1>6, <1>7, <1>8

\* The database of one version is a directory.
LEMMA DatabaseIs ==
  ASSUME NEW v \in Nat, NEW names
  PROVE  Database(v, names) \in DirType /\ Database(v, names).there
<1> DEFINE g == [f \in FileNames |-> IF f \in names THEN [ver |-> v, ok |-> TRUE] ELSE NoFile]
<1>1. g \in [FileNames -> File] BY DEF NoFile, File
<1>2. Database(v, names) = [there |-> TRUE, files |-> g] BY DEF Database
<1> HIDE DEF g
<1> QED BY <1>1, <1>2 DEF DirType

\* A file of a directory is changed or lost.
LEMMA FileChanged ==
  ASSUME dir \in [DirNames -> DirType], AbsentIsEmpty, NEW d \in DirNames, dir[d].there,
         NEW f \in FileNames, NEW x \in File, dir' = [dir EXCEPT ![d].files[f] = x]
  PROVE  dir' \in [DirNames -> DirType] /\ AbsentIsEmpty'
<1> DEFINE g == [dir[d].files EXCEPT ![f] = x]
<1>1. dir[d] \in DirType /\ dir[d].files \in [FileNames -> File] BY DEF DirType
<1>2. g \in [FileNames -> File] BY <1>1
<1>3. /\ dir'[d] = [dir[d] EXCEPT !.files = g]
      /\ \A e \in DirNames \ {d} : dir'[e] = dir[e]
      /\ dir' = [e \in DirNames |-> dir'[e]]
  OBVIOUS
<1> HIDE DEF g
<1>4. dir'[d] \in DirType /\ dir'[d].there BY <1>1, <1>2, <1>3 DEF DirType
<1>5. dir' \in [DirNames -> DirType] BY <1>3, <1>4
<1>6. AbsentIsEmpty' BY <1>3, <1>4 DEF AbsentIsEmpty
<1> QED BY <1>5, <1>6

\* Between the calls no restore is remembered.
LEMMA ChangeKeeps ==
  ASSUME BackupInv, Change, dir' \in [DirNames -> DirType], AbsentIsEmpty'
  PROVE  BackupInv'
<1> USE DEF BackupInv
<1>1. call = Idle /\ running /\ result' = NoResult /\ UNCHANGED <<call, running>> BY DEF Change
<1>2. spent' \in SpentType BY SpendIs DEF Change, BackupType
<1>3. BackupType' BY <1>1, <1>2, IdleIs DEF BackupType
<1>4. CallsAreSound' BY <1>1, IdleIs DEF CallsAreSound, PlacesOf
<1>5. OriginalIsKept' /\ CopyIsSound' /\ StartsAreSound' /\ SnapshotStages'
  BY <1>1, IdleIs DEF OriginalIsKept, CopyIsSound, StartsAreSound, SnapshotStages
<1>6. CutIsRecoverable' /\ RestoreIsAllOrNothing'
  BY <1>1, IdleIs DEF CutIsRecoverable, RestoreIsAllOrNothing
<1> QED BY <1>3, <1>4, <1>5, <1>6

\* The database is written, the snapshot rots, the live directory is lost.
LEMMA SurroundingsKeep ==
  ASSUME BackupInv, Write \/ Rot \/ Destroy
  PROVE  BackupInv'
<1> USE DEF BackupInv
<1>1. Change BY DEF Write, Rot, Destroy
<1>2. dir \in [DirNames -> DirType] /\ AbsentIsEmpty BY DEF BackupType
<1>3. "live" \in DirNames /\ "snap" \in DirNames BY DEF DirNames
<1>4. NoFile \in File BY DEF NoFile, File
<1>5. \A d \in DirType : Has(d) \subseteq FileNames BY DEF Has
<1>6. SUFFICES dir' \in [DirNames -> DirType] /\ AbsentIsEmpty' BY <1>1, ChangeKeeps
<1>7. CASE Write
  <2>1. PICK names \in {RequiredFiles, FileNames} :
          dir' = [dir EXCEPT !["live"] = Database(spent.changes + 3, names)]
    BY <1>7 DEF Write
  <2>2. spent.changes + 3 \in Nat BY DEF BackupType, SpentType
  <2> DEFINE x == Database(spent.changes + 3, names)
  <2>3. x \in DirType /\ x.there BY <2>2, DatabaseIs
  <2>4. dir' = [dir EXCEPT !["live"] = x] BY <2>1
  <2> HIDE DEF x
  <2> QED BY <1>2, <1>3, <2>3, <2>4 DEF AbsentIsEmpty
<1>8. CASE Rot
  <2>0. dir["snap"].there BY <1>8 DEF Rot
  <2>1. PICK f \in Has(dir["snap"]) :
          \/ dir' = [dir EXCEPT !["snap"].files[f].ok = FALSE]
          \/ dir' = [dir EXCEPT !["snap"].files[f] = NoFile]
    BY <1>8 DEF Rot
  <2>2. f \in FileNames BY DEF Has
  <2>3. CASE dir' = [dir EXCEPT !["snap"].files[f] = NoFile]
    BY <1>2, <1>3, <1>4, <2>0, <2>2, <2>3, FileChanged
  <2>4. CASE dir' = [dir EXCEPT !["snap"].files[f].ok = FALSE]
    <3> DEFINE x == [dir["snap"].files[f] EXCEPT !.ok = FALSE]
    <3>1. dir["snap"].files[f] \in File BY <1>2, <1>3, <2>2 DEF DirType
    <3>2. x \in File BY <3>1 DEF File
    <3>3. dir' = [dir EXCEPT !["snap"].files[f] = x] BY <2>4
    <3> HIDE DEF x
    <3> QED BY <1>2, <1>3, <2>0, <2>2, <3>2, <3>3, FileChanged
  <2> QED BY <2>1, <2>3, <2>4
<1>9. CASE Destroy
  <2>1. CASE dir' = [dir EXCEPT !["live"] = Absent]
    BY <1>2, <1>3, <2>1, AbsentIs DEF AbsentIsEmpty
  <2>2. ASSUME NEW f \in Has(dir["live"]), dir' = [dir EXCEPT !["live"].files[f] = NoFile]
        PROVE  dir' \in [DirNames -> DirType] /\ AbsentIsEmpty'
    <3>1. f \in FileNames BY DEF Has
    <3>2. dir["live"].there BY <1>9 DEF Destroy
    <3> QED BY <1>2, <1>3, <1>4, <2>2, <3>1, <3>2, FileChanged
  <2> QED BY <1>9, <2>1, <2>2 DEF Destroy
<1> QED BY <1>7, <1>8, <1>9

\* The first state.
LEMMA BackupStarts == InitBackup => BackupInv
<1> SUFFICES ASSUME InitBackup PROVE BackupInv OBVIOUS
<1>1. /\ call = Idle /\ running = TRUE /\ result = NoResult
      /\ spent = [changes |-> 0, calls |-> 0, errors |-> 0, kills |-> 0]
  BY DEF InitBackup
<1>2. Database(1, RequiredFiles) \in DirType /\ Database(1, RequiredFiles).there BY DatabaseIs
<1>3. Database(2, FileNames) \in DirType /\ Database(2, FileNames).there BY DatabaseIs
<1>4. /\ dir \in [DirNames -> {Database(1, RequiredFiles), Database(2, FileNames), Absent}]
  BY DEF InitBackup
<1>5. dir \in [DirNames -> DirType] BY <1>2, <1>3, <1>4, AbsentIs
<1>6. AbsentIsEmpty BY <1>2, <1>3, <1>4 DEF AbsentIsEmpty
<1>7. spent \in SpentType BY <1>1 DEF SpentType
<1>8. BackupType BY <1>1, <1>5, <1>7, IdleIs DEF BackupType
<1>9. CallsAreSound BY <1>1, IdleIs DEF CallsAreSound, PlacesOf
<1>10. OriginalIsKept /\ CopyIsSound /\ StartsAreSound /\ SnapshotStages
  BY <1>1, IdleIs DEF OriginalIsKept, CopyIsSound, StartsAreSound, SnapshotStages
<1>11. CutIsRecoverable /\ RestoreIsAllOrNothing
  BY <1>1, IdleIs DEF CutIsRecoverable, RestoreIsAllOrNothing
<1> QED BY <1>6, <1>8, <1>9, <1>10, <1>11 DEF BackupInv

\* Every step keeps the invariant.
LEMMA BackupSteps == BackupInv /\ [NextBackup]_backupVars => BackupInv'
<1> SUFFICES ASSUME BackupInv, [NextBackup]_backupVars PROVE BackupInv' OBVIOUS
<1>1. CASE RestoreStep
  BY <1>1, RestoreKeeps, ClearBakKeeps, SetAsideKeeps, FsyncAsideKeeps, UndoAsideKeeps,
     FsyncFilesKeeps, OpenRestoredKeeps, CommitKeeps, DropLiveKeeps, MoveLiveKeeps,
     MoveBackKeeps, DropFailedKeeps
  DEF RestoreStep
<1>2. CASE CopyStep
  BY <1>2, SnapshotKeeps, CopyStartKeeps, ClearStagingKeeps, StageKeeps, CopyFileKeeps,
     DropStagingKeeps, ClearDestKeeps, InstallKeeps, FsyncDestKeeps
  DEF CopyStep
<1>3. CASE Reconcile
  BY <1>3, ReconcileCopiesKeeps, ReconcileDecideKeeps, ReconcileDropBakKeeps,
     ReconcileReinstateKeeps, ReconcileFailsKeeps, UpKeeps
  DEF Reconcile
<1>4. CASE Kill \/ Start BY <1>4, KillKeeps, StartKeeps
<1>5. CASE Write \/ Rot \/ Destroy BY <1>5, SurroundingsKeep
<1>6. CASE UNCHANGED backupVars
  BY <1>6 DEF backupVars, BackupInv, BackupType, AbsentIsEmpty, CallsAreSound, OriginalIsKept,
     CopyIsSound, StartsAreSound, SnapshotStages, CutIsRecoverable, RestoreIsAllOrNothing
<1> QED BY <1>1, <1>2, <1>3, <1>4, <1>5, <1>6 DEF NextBackup

\* For any number of calls, failing file operations and kills: a restore that
\* answers (restore_db_files_atomic) leaves the copy, opened, or the database that
\* was there, and one that is cut short leaves, once the server has started again
\* (reconcile_restore_artifacts), the original or the whole copy.
THEOREM RestoresAreAtomic == SpecBackup => []RestoreIsAtomic
<1>1. BackupInv => RestoreIsAtomic
  <2>1. \A d, s, c : (ValidSource(d) => d.there) BY CopyFacts
  <2> QED BY <2>1 DEF BackupInv, RestoreIsAtomic, CutRestoreIsEither, CutIsRecoverable
<1> QED BY <1>1, BackupStarts, BackupSteps, PTL DEF SpecBackup

-----------------------------------------------------------------------------
(* The string heap: bytes by their place in the whole heap.                *)

\* The byte at place k of the heap, counted from 0 over the payloads.
ByteAt(pages, k) == pages[(k \div HeapPayload) + 1].bytes[(k % HeapPayload) + 1]

\* The length of an entry.
Extent(s) == HeaderLen + s.len

\* Pages are numbered from 1 without gaps.
IsHeap(pages) == pages = <<>> \/ (Len(pages) \in Nat \ {0} /\ DOMAIN pages = 1..Len(pages))

\* The header of the last page says where the next entry goes.
EndIsCounted ==
  /\ offset = RecalculatedOffset(heap)
  /\ heap # <<>> => Last(heap).used \in 1..HeapPayload

\* An entry handed out ends before the write offset, and its bytes are there.
EntriesStay ==
  \A g \in given :
    /\ g.str \in Strings /\ g.ref \in Nat /\ g.ref + Extent(g.str) <= offset
    /\ \A i \in 1..Extent(g.str) : ByteAt(heap, g.ref + i - 1) = EntryBytes(g.str)[i]

HeapInv ==
  /\ IsHeap(heap) /\ offset \in Nat /\ metaOffset \in Nat
  /\ EndIsCounted
  /\ replay = {} => metaOffset = offset
  /\ EntriesStay

\* Division with rest.
LEMMA DivMod ==
  ASSUME NEW k \in Nat, NEW b \in Nat \ {0}
  PROVE  /\ k \div b \in Nat /\ k % b \in 0..(b - 1)
         /\ k = (k \div b) * b + (k % b)
  OBVIOUS

\* One page more.
LEMMA Distributes ==
  ASSUME NEW a \in Nat, NEW b \in Nat
  PROVE  a * b \in Nat /\ (a + 1) * b = a * b + b
  OBVIOUS

\* A place is before the end of a page exactly if its page is not after it.
LEMMA DivLess ==
  ASSUME NEW k \in Nat, NEW b \in Nat \ {0}, NEW q \in Nat
  PROVE  (k \div b < q) <=> (k < q * b)
<1> DEFINE d == k \div b
           r == k % b
<1>1. d \in Nat /\ r \in 0..(b - 1) /\ k = d * b + r BY DivMod
<1> HIDE DEF d, r
<1>2. ASSUME d < q PROVE k < q * b
  <2>1. PICK e \in Nat : q = d + 1 + e BY <1>1, <1>2
  <2>2. q * b = d * b + b + e * b /\ e * b >= 0 BY <1>1, <2>1
  <2> QED BY <1>1, <2>2
<1>3. ASSUME d >= q PROVE k >= q * b
  <2>1. PICK e \in Nat : d = q + e BY <1>1, <1>3
  <2>2. d * b = q * b + e * b /\ e * b >= 0 BY <1>1, <2>1
  <2> QED BY <1>1, <2>2
<1> QED BY <1>1, <1>2, <1>3 DEF d

LEMMA DivMonotone ==
  ASSUME NEW k \in Nat, NEW m \in Nat, k <= m, NEW b \in Nat \ {0}
  PROVE  k \div b <= m \div b
<1>1. k \div b \in Nat /\ m \div b \in Nat BY DivMod
<1>2. m < ((m \div b) + 1) * b BY <1>1, DivLess
<1>3. k < ((m \div b) + 1) * b BY <1>1, <1>2
<1> QED BY <1>1, <1>3, DivLess

\* The greater and the smaller of two numbers.
LEMMA MaxOfTwo == ASSUME NEW a \in Int, NEW b \in Int
                  PROVE  Max({a, b}) = IF a >= b THEN a ELSE b
<1> DEFINE m == IF a >= b THEN a ELSE b
<1>1. \A x \in {a, b} : (\A y \in {a, b} : x >= y) <=> x = m OBVIOUS
<1> QED BY <1>1 DEF Max

LEMMA MinOfTwo == ASSUME NEW a \in Int, NEW b \in Int
                  PROVE  Min({a, b}) = IF a <= b THEN a ELSE b
<1> DEFINE m == IF a <= b THEN a ELSE b
<1>1. \A x \in {a, b} : (\A y \in {a, b} : x <= y) <=> x = m OBVIOUS
<1> QED BY <1>1 DEF Min

\* An entry is its header and then its bytes.
LEMMA EntryIs ==
  ASSUME NEW s \in Strings
  PROVE  /\ Extent(s) \in Nat \ {0} /\ HeaderLen \in Nat \ {0} /\ s.len \in Nat
         /\ Len(EntryBytes(s)) = Extent(s) /\ DOMAIN EntryBytes(s) = 1..Extent(s)
         /\ \A i \in 1..Extent(s) :
              EntryBytes(s)[i] = IF i <= HeaderLen THEN <<"header", s, i>>
                                 ELSE <<"byte", s, i - HeaderLen>>
<1> DEFINE h == [i \in 1..HeaderLen |-> <<"header", s, i>>]
           c == [i \in 1..s.len |-> <<"byte", s, i>>]
           H == {<<"header", s, i>> : i \in 1..HeaderLen}
           C == {<<"byte", s, i>> : i \in 1..s.len}
<1>1. HeaderLen \in Nat \ {0} /\ s.len \in Nat BY HeapAssumption
<1>2. h \in Seq(H \cup C) /\ Len(h) = HeaderLen BY <1>1
<1>3. c \in Seq(H \cup C) /\ Len(c) = s.len BY <1>1
<1>4. \A i \in 1..HeaderLen : h[i] = <<"header", s, i>> OBVIOUS
<1>5. \A i \in 1..s.len : c[i] = <<"byte", s, i>> OBVIOUS
<1>6. EntryBytes(s) = h \o c BY DEF EntryBytes
<1> HIDE DEF h, c, H, C
<1>7. /\ h \o c \in Seq(H \cup C) /\ Len(h \o c) = HeaderLen + s.len
      /\ \A i \in 1..(HeaderLen + s.len) : (h \o c)[i] = IF i <= HeaderLen THEN h[i] ELSE c[i - HeaderLen]
  BY <1>1, <1>2, <1>3
<1>8. DOMAIN (h \o c) = 1..(HeaderLen + s.len) BY <1>7
<1>9. ASSUME NEW i \in 1..(HeaderLen + s.len)
      PROVE  (h \o c)[i] = IF i <= HeaderLen THEN <<"header", s, i>> ELSE <<"byte", s, i - HeaderLen>>
  <2>1. CASE i <= HeaderLen
    <3>1. i \in 1..HeaderLen BY <1>1, <2>1
    <3> QED BY <2>1, <3>1, <1>4, <1>7
  <2>2. CASE ~(i <= HeaderLen)
    <3>1. i - HeaderLen \in 1..s.len BY <1>1, <2>2
    <3> QED BY <2>2, <3>1, <1>5, <1>7
  <2> QED BY <2>1, <2>2
<1>10. Extent(s) = HeaderLen + s.len /\ Extent(s) \in Nat \ {0} BY <1>1 DEF Extent
<1> QED BY <1>1, <1>6, <1>7, <1>8, <1>9, <1>10

\* A function over 1..n is a sequence of n elements.
LEMMA HeapIs ==
  ASSUME NEW pages, NEW n \in Nat \ {0}, pages = [p \in 1..n |-> pages[p]]
  PROVE  pages # <<>> /\ Len(pages) = n /\ DOMAIN pages = 1..n
<1>1. pages \in Seq({pages[p] : p \in 1..n}) /\ DOMAIN pages = 1..n OBVIOUS
<1>2. Len(pages) = n BY <1>1
<1>3. 1 \in DOMAIN pages BY <1>1
<1> QED BY <1>1, <1>2, <1>3

\* The bytes on the pages before a page.
Before(p) == (p - 1) * HeapPayload

LEMMA BeforeIs ==
  ASSUME NEW p \in Nat \ {0}
  PROVE  Before(p) \in Nat /\ Before(p + 1) = Before(p) + HeapPayload
<1>1. HeapPayload \in Nat /\ p - 1 \in Nat /\ (p - 1) + 1 = p /\ p + 1 - 1 = p BY HeapAssumption
<1>2. ((p - 1) + 1) * HeapPayload = (p - 1) * HeapPayload + HeapPayload
      /\ (p - 1) * HeapPayload \in Nat
  BY <1>1, Distributes, Zenon
<1> QED BY <1>1, <1>2 DEF Before

\* A page is before another if its places are.
LEMMA BeforeLess ==
  ASSUME NEW k \in Nat, NEW p \in Nat \ {0}
  PROVE  (k \div HeapPayload) + 1 < p <=> k < Before(p)
<1>1. HeapPayload \in Nat \ {0} /\ p - 1 \in Nat BY HeapAssumption
<1>2. k \div HeapPayload < p - 1 <=> k < Before(p) BY <1>1, DivLess, Zenon DEF Before
<1>3. k \div HeapPayload \in Nat BY <1>1, DivMod
<1> QED BY <1>1, <1>2, <1>3

\* The place of a byte, from its page and its place on it.
LEMMA PlaceIs ==
  ASSUME NEW k \in Nat, NEW p, NEW i, p = (k \div HeapPayload) + 1, i = (k % HeapPayload) + 1
  PROVE  p \in Nat \ {0} /\ i \in 1..HeapPayload /\ Before(p) + i = k + 1
<1> DEFINE q == k \div HeapPayload
           r == k % HeapPayload
<1>1. HeapPayload \in Nat \ {0} BY HeapAssumption
<1>2. q \in Nat /\ r \in 0..(HeapPayload - 1) /\ k = q * HeapPayload + r BY <1>1, DivMod
<1>3. p = q + 1 /\ i = r + 1 OBVIOUS
<1> HIDE DEF q, r
<1>4. Before(p) = q * HeapPayload /\ q * HeapPayload \in Nat BY <1>1, <1>2, <1>3 DEF Before
<1> DEFINE x == q * HeapPayload
<1>5. Before(p) = x /\ x \in Nat /\ k = x + r BY <1>2, <1>4
<1> HIDE DEF x
<1> QED BY <1>1, <1>2, <1>3, <1>5

\* One page after the write loop of append.
WrittenPage(pages, at, text, p) ==
  LET old == IF p \in DOMAIN pages THEN pages[p] ELSE BlankPage
  IN IF p \notin (at \div HeapPayload) + 1 .. ((at + Len(text) - 1) \div HeapPayload) + 1 THEN old
     ELSE [bytes |-> [i \in 1..HeapPayload |->
                        IF Before(p) + i - at \in DOMAIN text THEN text[Before(p) + i - at] ELSE old.bytes[i]],
           used |-> Min({HeapPayload, at + Len(text) - Before(p)})]

\* The write loop of append at the end of the heap: the bytes are at their
\* places, every earlier place keeps its byte, and the header of the last page
\* counts the bytes up to the new end.
LEMMA WriteIs ==
  ASSUME NEW pages, IsHeap(pages), NEW at \in Nat,
         at = RecalculatedOffset(pages), pages # <<>> => Last(pages).used \in 1..HeapPayload,
         NEW text, NEW n \in Nat \ {0}, n = Len(text), DOMAIN text = 1..n,
         NEW w, w = WriteBytes(pages, at, text)
  PROVE  /\ IsHeap(w) /\ w # <<>> /\ Last(w).used \in 1..HeapPayload
         /\ RecalculatedOffset(w) = at + n
         /\ (at \div HeapPayload) + 1 <= Len(w)
         /\ \A k \in 0..(at - 1) : ByteAt(w, k) = ByteAt(pages, k)
         /\ \A i \in 1..n : ByteAt(w, at + i - 1) = text[i]
<1> DEFINE m == at + n - 1
           last == (m \div HeapPayload) + 1
           first == (at \div HeapPayload) + 1
           N == Max({Len(pages), last})
<1>0. HeapPayload \in Nat \ {0} /\ m \in Nat /\ m >= at /\ m + 1 = at + n BY HeapAssumption
<1>1. last \in Nat \ {0} /\ first \in Nat \ {0} /\ first <= last
  <2>1. at \div HeapPayload \in Nat /\ m \div HeapPayload \in Nat BY <1>0, DivMod
  <2>2. at \div HeapPayload <= m \div HeapPayload BY <1>0, DivMonotone
  <2> QED BY <2>1, <2>2
<1>2. \A p \in Nat \ {0} : last < p <=> m < Before(p) BY <1>0, BeforeLess
<1>3. w = [p \in 1..N |-> WrittenPage(pages, at, text, p)]
  BY DEF WriteBytes, WrittenPage, Before
<1>4. \A p : p \in first..last =>
        /\ WrittenPage(pages, at, text, p).used = Min({HeapPayload, at + n - Before(p)})
        /\ \A i \in 1..HeapPayload :
             WrittenPage(pages, at, text, p).bytes[i]
               = IF Before(p) + i - at \in DOMAIN text THEN text[Before(p) + i - at]
                 ELSE (IF p \in DOMAIN pages THEN pages[p] ELSE BlankPage).bytes[i]
  BY DEF WrittenPage
<1>5. \A p \in DOMAIN pages : p \notin first..last => WrittenPage(pages, at, text, p) = pages[p]
  BY DEF WrittenPage
<1>6. \A k \in Nat : (k <= m => (k \div HeapPayload) + 1 <= last) /\ (k >= at => (k \div HeapPayload) + 1 >= first)
  <2> SUFFICES ASSUME NEW k \in Nat
               PROVE  (k <= m => (k \div HeapPayload) + 1 <= last) /\ (k >= at => (k \div HeapPayload) + 1 >= first)
    OBVIOUS
  <2>1. k \div HeapPayload \in Nat /\ at \div HeapPayload \in Nat /\ m \div HeapPayload \in Nat
    BY <1>0, DivMod
  <2>2. k <= m => k \div HeapPayload <= m \div HeapPayload BY <1>0, DivMonotone
  <2>3. at <= k => at \div HeapPayload <= k \div HeapPayload BY <1>0, DivMonotone
  <2> QED BY <2>1, <2>2, <2>3
<1> HIDE DEF m, last, first, N
<1>7. /\ Len(pages) \in Nat /\ Len(pages) <= last /\ DOMAIN pages = 1..Len(pages)
      /\ \A k \in Nat : k < at => (k \div HeapPayload) + 1 <= Len(pages)
  <2>1. CASE pages = <<>>
    <3>1. Len(pages) = 0 /\ DOMAIN pages = {} /\ at = 0 BY <2>1 DEF RecalculatedOffset
    <3> QED BY <3>1, <1>1
  <2>2. CASE pages # <<>>
    <3> DEFINE L == Len(pages)
               u == Last(pages).used
    <3>1. L \in Nat \ {0} /\ DOMAIN pages = 1..L BY <2>2 DEF IsHeap
    <3>2. at = Before(L) + u /\ u \in 1..HeapPayload BY <2>2 DEF RecalculatedOffset, Before
    <3> HIDE DEF L, u
    <3>3. Before(L) \in Nat /\ Before(L + 1) = Before(L) + HeapPayload /\ L + 1 \in Nat \ {0}
      BY <3>1, BeforeIs
    <3>4. ~(last < L)
      <4>1. Before(L) <= m BY ONLY <3>2, <3>3, <1>0
      <4>2. m \in Nat BY <1>0
      <4>3. ~(m < Before(L)) BY ONLY <3>3, <4>1, <4>2
      <4> QED BY ONLY <3>1, <4>3, <1>2
    <3>5. ASSUME NEW k \in Nat, k < at PROVE (k \div HeapPayload) + 1 <= L
      <4>1. k < Before(L + 1) BY <3>2, <3>3, <3>5, <1>0
      <4>2. (k \div HeapPayload) + 1 < L + 1 BY <4>1, <3>3, BeforeLess
      <4>3. k \div HeapPayload \in Nat BY <1>0, DivMod
      <4> QED BY <4>2, <4>3, <3>1
    <3> QED BY <3>1, <3>4, <3>5, <1>1 DEF L
  <2> QED BY <2>1, <2>2
<1>8. N = last BY <1>1, <1>7, MaxOfTwo DEF N
<1>9. w # <<>> /\ Len(w) = last /\ DOMAIN w = 1..last
  <2>1. w = [p \in 1..last |-> w[p]] BY <1>3, <1>8
  <2> QED BY <2>1, <1>1, HeapIs
<1>10. \A p \in 1..last : w[p] = WrittenPage(pages, at, text, p) BY <1>3, <1>8
<1>11. IsHeap(w) /\ first <= Len(w) BY <1>1, <1>9 DEF IsHeap
<1>12. Last(w).used = m + 1 - Before(last) /\ Last(w).used \in 1..HeapPayload
  <2> DEFINE e == m + 1 - Before(last)
  <2>1. Before(last) \in Nat /\ Before(last + 1) = Before(last) + HeapPayload
    BY <1>1, BeforeIs
  <2>2. last < last + 1 /\ ~(last < last) /\ last + 1 \in Nat \ {0} BY <1>1
  <2>3. m < Before(last + 1) /\ ~(m < Before(last)) BY <1>1, <1>2, <2>1, <2>2
  <2>4. e \in 1..HeapPayload BY <2>1, <2>3, <1>0
  <2>5. at + n - Before(last) = e BY <1>0, <2>1
  <2> HIDE DEF e
  <2>6. Min({HeapPayload, e}) = e BY <2>4, <1>0, MinOfTwo
  <2>7. last \in first..last /\ last \in 1..last BY <1>1
  <2>8. Last(w) = WrittenPage(pages, at, text, last) BY <2>7, <1>9, <1>10 DEF Last
  <2>9. Last(w).used = e BY <2>5, <2>6, <2>7, <2>8, <1>4
  <2> QED BY <2>4, <2>9 DEF e
<1>13. RecalculatedOffset(w) = at + n
  <2>1. Before(last) \in Nat BY <1>1, BeforeIs
  <2>2. RecalculatedOffset(w) = Before(last) + Last(w).used BY <1>9 DEF RecalculatedOffset, Before
  <2> QED BY <2>1, <2>2, <1>0, <1>12
<1>14. ASSUME NEW k \in Nat, k <= m
       PROVE  ByteAt(w, k) = IF k >= at THEN text[k + 1 - at] ELSE ByteAt(pages, k)
  <2> DEFINE p == (k \div HeapPayload) + 1
             i == (k % HeapPayload) + 1
  <2>1. p \in Nat \ {0} /\ i \in 1..HeapPayload /\ Before(p) + i = k + 1 BY PlaceIs
  <2>2. p <= last /\ (k >= at => p >= first) /\ (k < at => p <= Len(pages)) BY <1>6, <1>7, <1>14
  <2>3. ByteAt(w, k) = w[p].bytes[i] /\ ByteAt(pages, k) = pages[p].bytes[i] BY DEF ByteAt
  <2> HIDE DEF p, i
  <2>4. p \in 1..last BY <2>1, <2>2, <1>1
  <2>5. Before(p) \in Nat /\ Before(p) + i - at = k + 1 - at
    <3>1. Before(p) \in Nat BY <2>1, BeforeIs
    <3>2. (Before(p) + i) - at = (k + 1) - at BY <2>1, Zenon
    <3>3. (Before(p) + i) - at = Before(p) + (i - at) /\ (k + 1) - at = k + (1 - at) BY <3>1, <2>1
    <3> QED BY <3>1, <3>2, <3>3, Zenon
  <2>6. CASE k >= at
    <3>1. p \in first..last BY <2>1, <2>2, <2>6, <1>1
    <3>2. k + 1 - at \in DOMAIN text BY <2>6, <1>0, <1>14
    <3>3. WrittenPage(pages, at, text, p).bytes[i] = text[k + 1 - at] 
      <4> DEFINE b == Before(p) + i - at
                 c == k + 1 - at
      <4>1. b = c /\ c \in DOMAIN text BY <3>2, <2>5
      <4>2. WrittenPage(pages, at, text, p).bytes[i]
              = IF b \in DOMAIN text THEN text[b] ELSE (IF p \in DOMAIN pages THEN pages[p] ELSE BlankPage).bytes[i]
        BY <3>1, <2>1, <1>4, Zenon
      <4> HIDE DEF b, c
      <4>3. WrittenPage(pages, at, text, p).bytes[i] = text[c] BY <4>1, <4>2
      <4> QED BY <4>3 DEF c
    <3> QED BY <3>3, <2>3, <2>4, <2>6, <1>10
  <2>7. CASE ~(k >= at)
    <3>1. p \in DOMAIN pages BY <2>1, <2>2, <2>7, <1>7
    <3>2. k + 1 - at \notin DOMAIN text BY <2>7
    <3>3. CASE p \in first..last BY <3>1, <3>2, <3>3, <2>1, <2>3, <2>4, <2>5, <2>7, <1>4, <1>10
    <3>4. CASE p \notin first..last BY <3>1, <3>4, <2>3, <2>4, <2>7, <1>5, <1>10
    <3> QED BY <3>3, <3>4
  <2> QED BY <2>6, <2>7
<1>15. \A k \in 0..(at - 1) : ByteAt(w, k) = ByteAt(pages, k)
  <2>1. \A k \in 0..(at - 1) : k \in Nat /\ k <= m /\ ~(k >= at) BY <1>0
  <2> QED BY <2>1, <1>14
<1>16. \A i \in 1..n : ByteAt(w, at + i - 1) = text[i]
  <2>1. \A i \in 1..n : at + i - 1 \in Nat /\ at + i - 1 <= m /\ at + i - 1 >= at /\ at + i - 1 + 1 - at = i
    BY <1>0
  <2> QED BY <2>1, <1>14
<1> QED BY <1>9, <1>11, <1>12, <1>13, <1>15, <1>16 DEF first

\* Each operation of the heap keeps its invariant.
LEMMA HeapSteps == HeapInv /\ [NextHeap]_heapVars => HeapInv'
<1> SUFFICES ASSUME HeapInv, [NextHeap]_heapVars PROVE HeapInv' OBVIOUS
<1>0. IsHeap(heap) /\ offset \in Nat /\ metaOffset \in Nat /\ EndIsCounted /\ EntriesStay
  BY DEF HeapInv
<1>1. ASSUME NEW s \in Strings, AppendString(s) PROVE HeapInv'
  <2> DEFINE e == EntryBytes(s)
  <2>1. /\ heap' = WriteBytes(heap, offset, e) /\ offset' = offset + HeaderLen + s.len
        /\ given' = given \cup {[str |-> s, ref |-> offset]}
        /\ replay' = replay \cup (offset \div HeapPayload) + 1 .. Len(heap')
        /\ metaOffset' = metaOffset
    BY <1>1 DEF AppendString
  <2>2. Len(e) = Extent(s) /\ Extent(s) \in Nat \ {0} /\ DOMAIN e = 1..Extent(s) BY EntryIs
  <2>2a. offset' = offset + Extent(s)
    BY <2>1, <1>0, EntryIs DEF Extent
  <2>3. /\ IsHeap(heap') /\ heap' # <<>> /\ Last(heap').used \in 1..HeapPayload
        /\ RecalculatedOffset(heap') = offset + Extent(s)
        /\ (offset \div HeapPayload) + 1 <= Len(heap')
        /\ \A k \in 0..(offset - 1) : ByteAt(heap', k) = ByteAt(heap, k)
        /\ \A i \in 1..Extent(s) : ByteAt(heap', offset + i - 1) = e[i]
    <3> HIDE DEF e
    <3>1. offset = RecalculatedOffset(heap) /\ (heap # <<>> => Last(heap).used \in 1..HeapPayload)
      BY <1>0 DEF EndIsCounted
    <3>2. /\ IsHeap(heap) /\ offset \in Nat /\ Extent(s) \in Nat \ {0} /\ Extent(s) = Len(e)
          /\ DOMAIN e = 1..Extent(s) /\ heap' = WriteBytes(heap, offset, e)
      BY <1>0, <2>1, <2>2
    <3> HIDE <1>0, <2>1, <2>2
    <3> QED BY <3>1, <3>2, WriteIs
  <2>4. EndIsCounted' BY <2>2a, <2>3 DEF EndIsCounted, RecalculatedOffset
  <2>5. replay' # {}
    <3>1. offset \div HeapPayload \in Nat BY <1>0, HeapAssumption, DivMod
    <3>2. Len(heap') \in Nat BY <2>3 DEF IsHeap
    <3>3. (offset \div HeapPayload) + 1 \in (offset \div HeapPayload) + 1 .. Len(heap')
      BY <3>1, <3>2, <2>3
    <3> QED BY <3>3, <2>1
  <2>6. ASSUME NEW g \in given'
        PROVE  /\ g.str \in Strings /\ g.ref \in Nat /\ g.ref + Extent(g.str) <= offset'
               /\ \A i \in 1..Extent(g.str) : ByteAt(heap', g.ref + i - 1) = EntryBytes(g.str)[i]
    <3>1. CASE g \in given
      <4>1. /\ g.str \in Strings /\ g.ref \in Nat /\ g.ref + Extent(g.str) <= offset
            /\ \A i \in 1..Extent(g.str) : ByteAt(heap, g.ref + i - 1) = EntryBytes(g.str)[i]
        BY <3>1, <1>0 DEF EntriesStay
      <4>2. Extent(g.str) \in Nat BY <4>1, EntryIs
      <4>3. \A i \in 1..Extent(g.str) : g.ref + i - 1 \in 0..(offset - 1) BY <4>1, <4>2, <1>0
      <4>4. g.ref + Extent(g.str) <= offset' BY <4>1, <4>2, <2>2a, <2>2, <1>0
      <4> QED BY <4>1, <4>3, <4>4, <2>3
    <3>2. CASE g = [str |-> s, ref |-> offset]
      BY <3>2, <1>0, <2>2, <2>2a, <2>3
    <3> QED BY <3>1, <3>2, <2>1
  <2>7. EntriesStay' BY <2>6 DEF EntriesStay, ByteAt
  <2>8. offset' \in Nat BY <2>2, <2>2a, <1>0
  <2> QED BY <1>0, <2>1, <2>3, <2>4, <2>5, <2>7, <2>8 DEF HeapInv, IsHeap
<1>2. CASE FlushHeap
  BY <1>2 DEF FlushHeap, HeapInv, IsHeap, EndIsCounted, RecalculatedOffset, EntriesStay, ByteAt
<1>3. CASE OpenHeap
  <2>1. offset' = offset /\ metaOffset' = offset
    BY <1>3 DEF OpenHeap, HeapInv, EndIsCounted
  <2> QED BY <1>3, <2>1 DEF OpenHeap, HeapInv, IsHeap, EndIsCounted, RecalculatedOffset, EntriesStay, ByteAt
<1>4. CASE UNCHANGED heapVars
  BY <1>4 DEF heapVars, HeapInv, IsHeap, EndIsCounted, RecalculatedOffset, EntriesStay, ByteAt
<1> QED BY <1>1, <1>2, <1>3, <1>4 DEF NextHeap

\* resolve reads back an entry whose bytes are in their places.
LEMMA EntriesResolve == HeapInv => ReferencesStay
<1> SUFFICES ASSUME HeapInv, NEW g \in given PROVE Resolve(g.ref) = EntryBytes(g.str)
  BY DEF ReferencesStay
<1> DEFINE s == g.str
           h == ReadHeapBytes(g.ref, HeaderLen)
           c == ReadHeapBytes(g.ref + HeaderLen, s.len)
           H == {<<"header", s, i>> : i \in 1..HeaderLen}
           C == {<<"byte", s, i>> : i \in 1..s.len}
<1>1. /\ s \in Strings /\ g.ref \in Nat
      /\ \A i \in 1..Extent(s) : ByteAt(heap, g.ref + i - 1) = EntryBytes(s)[i]
  BY DEF HeapInv, EntriesStay
<1>2. /\ HeaderLen \in Nat \ {0} /\ s.len \in Nat /\ Extent(s) = HeaderLen + s.len
      /\ \A i \in 1..Extent(s) : EntryBytes(s)[i] = IF i <= HeaderLen THEN <<"header", s, i>>
                                                    ELSE <<"byte", s, i - HeaderLen>>
  BY <1>1, EntryIs DEF Extent
<1>3. \A i \in 1..HeaderLen : ByteAt(heap, g.ref + i - 1) = <<"header", s, i>>
  <2> SUFFICES ASSUME NEW i \in 1..HeaderLen PROVE ByteAt(heap, g.ref + i - 1) = <<"header", s, i>> OBVIOUS
  <2>1. i \in 1..Extent(s) /\ i <= HeaderLen BY <1>2
  <2> QED BY <2>1, <1>1, <1>2
<1>4. \A i \in 1..s.len : ByteAt(heap, g.ref + HeaderLen + i - 1) = <<"byte", s, i>>
  <2> SUFFICES ASSUME NEW i \in 1..s.len PROVE ByteAt(heap, g.ref + HeaderLen + i - 1) = <<"byte", s, i>> OBVIOUS
  <2>1. /\ HeaderLen + i \in 1..Extent(s) /\ ~(HeaderLen + i <= HeaderLen) /\ (HeaderLen + i) - HeaderLen = i
        /\ g.ref + (HeaderLen + i) - 1 = g.ref + HeaderLen + i - 1
    BY <1>1, <1>2
  <2>2. ByteAt(heap, g.ref + (HeaderLen + i) - 1) = EntryBytes(s)[HeaderLen + i] BY <2>1, <1>1, Zenon
  <2>3. EntryBytes(s)[HeaderLen + i] = <<"byte", s, (HeaderLen + i) - HeaderLen>> 
    <3> DEFINE j == HeaderLen + i
    <3>1. j \in 1..Extent(s) /\ ~(j <= HeaderLen) BY <2>1
    <3> HIDE DEF j
    <3>2. EntryBytes(s)[j] = <<"byte", s, j - HeaderLen>> BY <3>1, <1>2
    <3> QED BY <3>2, Zenon DEF j
  <2> QED BY <2>1, <2>2, <2>3, Zenon
<1>5. h = [i \in 1..HeaderLen |-> <<"header", s, i>>]
  <2>1. h = [i \in 1..HeaderLen |-> ByteAt(heap, g.ref + i - 1)] BY DEF ReadHeapBytes, ByteAt
  <2> QED BY <2>1, <1>3
<1>6. c = [i \in 1..s.len |-> <<"byte", s, i>>]
  <2>1. c = [i \in 1..s.len |-> ByteAt(heap, g.ref + HeaderLen + i - 1)] BY DEF ReadHeapBytes, ByteAt
  <2> QED BY <2>1, <1>4
<1>7. DOMAIN h = 1..HeaderLen /\ \A i \in DOMAIN h : h[i][1] = "header"
  <2>1. \A i \in 1..HeaderLen : <<"header", s, i>>[1] = "header" OBVIOUS
  <2> QED BY <1>5, <2>1
<1>8. h[1][2] = s
  <2>1. h[1] = <<"header", s, 1>> BY <1>2, <1>5
  <2> QED BY <2>1
<1>9. Resolve(g.ref) = h \o c
  <2> HIDE DEF h
  <2>1. ~ \E i \in DOMAIN h : h[i][1] # "header" BY <1>7
  <2>2. Resolve(g.ref) = IF \E i \in DOMAIN h : h[i][1] # "header" THEN <<>>
                         ELSE h \o ReadHeapBytes(g.ref + HeaderLen, h[1][2].len)
    BY DEF Resolve, h
  <2> QED BY <2>1, <2>2, <1>8
<1> QED BY <1>5, <1>6, <1>9 DEF EntryBytes

\* For strings and pages of any size, any number of entries and crashes: a
\* reference StringHeap::append handed out reads its own string for ever, across
\* page ends and the offset that recalculate_strings_write_offset finds at open.
THEOREM ReferencesAreKept == SpecHeap => []ReferencesStay
<1>1. InitHeap => HeapInv
  BY DEF InitHeap, HeapInv, IsHeap, EndIsCounted, RecalculatedOffset, EntriesStay
<1> QED BY <1>1, HeapSteps, EntriesResolve, PTL DEF SpecHeap

-----------------------------------------------------------------------------
(***************************************************************************)
(* WalFile: the reader finds all that is whole.  What a scan computes from *)
(* a place is proved by induction on the bytes that are left; the theorems *)
(* of induction are replaced by the least element of a set of numbers.     *)
(***************************************************************************)

\* Every set of naturals that is not empty has a least element.
LEMMA LeastOf ==
  ASSUME NEW T, T \subseteq Nat, T # {}
  PROVE  \E x \in T : \A y \in T : x <= y
<1>1. \A x, y \in Nat : <<x, y>> \in OpToRel(<, Nat) <=> x < y BY DEF OpToRel
<1>2. \E x \in T : \A y \in T : ~ (<<y, x>> \in OpToRel(<, Nat)) BY NatLessThanWellFounded, WFMin
<1>3. PICK x \in T : \A y \in T : ~ (<<y, x>> \in OpToRel(<, Nat)) BY <1>2, Zenon
<1>4. \A y \in T : ~ (y < x) BY <1>1, <1>3, Zenon
<1> QED BY <1>4

\* Induction, with a set in the place of a predicate.
LEMMA EveryNatural ==
  ASSUME NEW S, 0 \in S, \A n \in Nat : n \in S => n + 1 \in S
  PROVE  \A n \in Nat : n \in S
<1> DEFINE T == { n \in Nat : n \notin S }
<1>1. SUFFICES ASSUME T # {} PROVE FALSE OBVIOUS
<1>2. PICK x \in T : \A y \in T : x <= y BY <1>1, LeastOf
<1>3. x # 0 /\ x \in Nat OBVIOUS
<1>4. x - 1 \in Nat /\ x - 1 \notin T BY <1>2, <1>3
<1> QED BY <1>3, <1>4

-----------------------------------------------------------------------------
Byte(b) == b = [rec |-> b.rec, at |-> b.at, len |-> b.len, lsn |-> b.lsn]
Good(file, o) == file[o].rec # 0

\* The i-th byte of the record whose first one is b.
Follows(c, b, i) == c.rec = b.rec /\ c.at = i /\ c.len = b.len /\ c.lsn = b.lsn

\* What every byte says of itself.
BytesAre(file, n) ==
  /\ \E S : file \in Seq(S)
  /\ \A o \in 1..Len(file) :
       /\ Byte(file[o])
       /\ file[o] = BadByte \/ (/\ file[o].rec \in 1..n /\ file[o].len \in Nat \ {0}
                                /\ file[o].at \in 1..file[o].len /\ file[o].at <= o)

\* A record has one place, before it stands nothing younger, and from its start
\* to any byte of it there is nothing else but damage.
RecordsAre(file) ==
  /\ \A o, p \in 1..Len(file) :
       (Good(file, o) /\ Good(file, p) /\ file[o].rec = file[p].rec) =>
         o - file[o].at = p - file[p].at /\ file[o].len = file[p].len /\ file[o].lsn = file[p].lsn
  /\ \A o, p \in 1..Len(file) : (o < p /\ Good(file, o) /\ Good(file, p)) => file[o].rec <= file[p].rec
  /\ \A o, p \in 1..Len(file) :
       (Good(file, o) /\ Good(file, p) /\ o - file[o].at < p /\ p < o) => file[p].rec = file[o].rec

FileIs(file, n) == n \in Nat /\ BytesAre(file, n) /\ RecordsAre(file)

\* Decodes, field by field.
Starts(file, o) ==
  /\ file[o].at = 1 /\ o + file[o].len - 1 <= Len(file)
  /\ \A i \in 1..file[o].len : Follows(file[o + i - 1], file[o], i)

LEMMA DecodesIs ==
  ASSUME NEW file, NEW n, BytesAre(file, n), NEW o \in 1..Len(file)
  PROVE  /\ Decodes(file, o) <=> Starts(file, o)
         /\ Decodes(file, o) => Good(file, o) /\ file[o].len \in Nat \ {0} /\ file[o].rec \in 1..n
<1>0. Len(file) \in Nat
  <2>1. PICK S : file \in Seq(S) BY DEF BytesAre
  <2> QED BY <2>1
<1>1. \A p \in 1..Len(file) : Byte(file[p]) BY DEF BytesAre
<1>2. ASSUME file[o].at = 1 PROVE file[o].rec \in 1..n /\ file[o].len \in Nat \ {0}
  BY <1>2 DEF BytesAre, BadByte
<1>3. ASSUME file[o].at = 1, o + file[o].len - 1 <= Len(file), NEW i \in 1..file[o].len
      PROVE  file[o + i - 1] = [file[o] EXCEPT !.at = i] <=> Follows(file[o + i - 1], file[o], i)
  <2>1. o + i - 1 \in 1..Len(file) BY <1>0, <1>2, <1>3
  <2> DEFINE b == file[o]
             c == file[o + i - 1]
  <2>2. Byte(b) /\ Byte(c) BY <1>1, <2>1
  <2> HIDE DEF b, c
  <2>3. [b EXCEPT !.at = i] = [rec |-> b.rec, at |-> i, len |-> b.len, lsn |-> b.lsn] BY <2>2 DEF Byte
  <2>4. c = [b EXCEPT !.at = i] <=> Follows(c, b, i) BY <2>2, <2>3 DEF Byte, Follows
  <2> QED BY <2>4 DEF b, c
<1>4. Decodes(file, o) <=> Starts(file, o) BY <1>3 DEF Decodes, Starts
<1>5. Decodes(file, o) => file[o].at = 1 BY DEF Decodes
<1> QED BY <1>2, <1>4, <1>5 DEF Good

LEMMA FileLength ==
  ASSUME NEW file, NEW n, FileIs(file, n)
  PROVE  Len(file) \in Nat /\ DOMAIN file = 1..Len(file) /\ BytesAre(file, n) /\ RecordsAre(file)
<1>1. PICK S : file \in Seq(S) BY DEF FileIs, BytesAre
<1> QED BY <1>1 DEF FileIs

\* Records that decode do not overlap, and the later one is the younger one.
LEMMA DecodedApart ==
  ASSUME NEW file, NEW n, FileIs(file, n), NEW o \in 1..Len(file), NEW p \in 1..Len(file),
         Decodes(file, o), Decodes(file, p), o < p
  PROVE  o + file[o].len <= p /\ file[o].rec < file[p].rec
<1>0. Len(file) \in Nat /\ BytesAre(file, n) /\ RecordsAre(file) BY FileLength
<1>1. /\ Starts(file, o) /\ Starts(file, p) /\ Good(file, o) /\ Good(file, p)
      /\ file[o].len \in Nat \ {0} /\ file[o].rec \in 1..n /\ file[p].rec \in 1..n
  BY <1>0, DecodesIs
<1>n. n \in Nat BY DEF FileIs
<1>2. o + file[o].len <= p
  <2>1. SUFFICES ASSUME p < o + file[o].len PROVE FALSE BY <1>0, <1>1
  <2>2. p - o + 1 \in 1..file[o].len /\ o + (p - o + 1) - 1 = p BY <2>1, <1>0, <1>1
  <2>3. file[p].at = p - o + 1 BY <1>1, <2>2 DEF Starts, Follows
  <2> QED BY <1>1, <2>3 DEF Starts
<1>3. file[o].rec <= file[p].rec BY <1>0, <1>1 DEF RecordsAre
<1>4. file[o].rec # file[p].rec
  <2>1. SUFFICES ASSUME file[o].rec = file[p].rec PROVE FALSE OBVIOUS
  <2>2. o - file[o].at = p - file[p].at BY <1>0, <1>1, <2>1 DEF RecordsAre
  <2>3. file[o].at = 1 /\ file[p].at = 1 BY <1>1 DEF Starts
  <2> QED BY <2>2, <2>3, <1>0
<1> QED BY <1>1, <1>2, <1>3, <1>4, <1>n

IntactBytes(file) == { o \in DOMAIN file : file[o] # BadByte /\ Decodes(file, o - file[o].at + 1) }

\* An intact byte is one of a record that decodes.
LEMMA IntactIs ==
  ASSUME NEW file, NEW n, FileIs(file, n), NEW o \in 1..Len(file)
  PROVE  o \in IntactBytes(file) <=> \E s \in 1..o : Decodes(file, s) /\ o < s + file[s].len
<1>0. Len(file) \in Nat /\ DOMAIN file = 1..Len(file) /\ BytesAre(file, n) /\ RecordsAre(file) BY FileLength
<1>1. ASSUME o \in IntactBytes(file)
      PROVE  \E s \in 1..o : Decodes(file, s) /\ o < s + file[s].len
  <2> DEFINE s == o - file[o].at + 1
  <2>1. file[o] # BadByte /\ Decodes(file, s) BY <1>1 DEF IntactBytes
  <2>2. file[o].len \in Nat \ {0} /\ file[o].at \in 1..file[o].len /\ file[o].at <= o /\ file[o].rec \in 1..n
    BY <1>0, <2>1 DEF BytesAre
  <2>3. s \in 1..o /\ s \in 1..Len(file) BY <1>0, <2>2
  <2>4. Good(file, o) BY <2>2 DEF Good
  <2>5. Good(file, s) /\ file[s].len \in Nat \ {0} /\ file[s].at = 1 BY <1>0, <2>1, <2>3, DecodesIs DEF Starts
  <2>6. file[s].rec = file[o].rec
    <3>1. CASE s = o BY <3>1
    <3>2. CASE s # o
      <4>1. o - file[o].at < s /\ s < o BY <3>2, <2>2, <2>3
      <4> QED BY <1>0, <2>3, <2>4, <2>5, <4>1 DEF RecordsAre
    <3> QED BY <3>1, <3>2
  <2>7. file[s].len = file[o].len BY <1>0, <2>3, <2>4, <2>5, <2>6 DEF RecordsAre
  <2>8. o < s + file[s].len BY <2>2, <2>7
  <2> HIDE DEF s
  <2> QED BY <2>1, <2>3, <2>8
<1>2. ASSUME NEW s \in 1..o, Decodes(file, s), o < s + file[s].len
      PROVE  o \in IntactBytes(file)
  <2>1. s \in 1..Len(file) BY <1>0
  <2>2. Starts(file, s) /\ Good(file, s) /\ file[s].len \in Nat \ {0} BY <1>0, <1>2, <2>1, DecodesIs
  <2>a. o \in Nat /\ s \in Nat /\ 1 <= s /\ s <= o /\ file[s].len \in Nat BY <1>0, <2>2
  <2>b. \A x, y, l \in Nat : (1 <= x /\ x <= y /\ y < x + l) => (y - x + 1 \in 1..l /\ x + (y - x + 1) - 1 = y)
    OBVIOUS
  <2>3. o - s + 1 \in 1..file[s].len /\ s + (o - s + 1) - 1 = o BY <1>2, <2>a, <2>b, Zenon
  <2>4. Follows(file[o], file[s], o - s + 1) BY <2>2, <2>3 DEF Starts
  <2>5. file[o].at = o - s + 1 /\ file[o].rec # 0 BY <2>2, <2>4 DEF Follows, Good
  <2>6. o - file[o].at + 1 = s BY <2>5, <2>3
  <2>7. file[o] # BadByte BY <2>5 DEF BadByte
  <2> QED BY <1>0, <1>2, <2>6, <2>7 DEF IntactBytes
<1> QED BY <1>1, <1>2

-----------------------------------------------------------------------------
(* The scan: a recursive function, and what it computes from each place.   *)

AtPlace(file, f, o) ==
  [gap \in BOOLEAN |->
     IF o > Len(file) THEN [found |-> <<>>, skipped |-> 0]
     ELSE IF Decodes(file, o)
     THEN [found |-> <<file[o].rec>> \o f[o + file[o].len][FALSE].found, skipped |-> f[o + file[o].len][FALSE].skipped]
     ELSE [found |-> f[o + 1][TRUE].found, skipped |-> f[o + 1][TRUE].skipped + IF gap THEN 0 ELSE 1]]

ScanOf(file) == CHOOSE f : f = [o \in 1..Len(file) + 1 |-> AtPlace(file, f, o)]

LEMMA ReadAllIs == ASSUME NEW file PROVE ReadAll(file) = ScanOf(file)[1][FALSE]
BY DEF ReadAll, ScanOf, AtPlace

\* Where the scan goes next.
LEMMA ScanAdvances ==
  ASSUME NEW file, NEW n, FileIs(file, n), NEW o \in 1..Len(file), Decodes(file, o)
  PROVE  o + file[o].len \in (o + 1)..(Len(file) + 1)
<1>0. Len(file) \in Nat /\ BytesAre(file, n) BY FileLength
<1>1. Starts(file, o) /\ file[o].len \in Nat \ {0} BY <1>0, DecodesIs
<1> QED BY <1>0, <1>1 DEF Starts

LEMMA ScanIsDefined ==
  ASSUME NEW file, NEW n, FileIs(file, n)
  PROVE  ScanOf(file) = [o \in 1..Len(file) + 1 |-> AtPlace(file, ScanOf(file), o)]
<1> DEFINE L == Len(file)
           Upto(f, k) == \A o \in 1..L + 1 : o > L + 1 - k => f[o] = AtPlace(file, f, o)
           Done == { k \in Nat : k <= L + 1 => \E f : DOMAIN f = 1..L + 1 /\ f = [o \in 1..L + 1 |-> f[o]] /\ Upto(f, k) }
<1>0. L \in Nat BY FileLength
<1>1. 0 \in Done
  <2> DEFINE f == [o \in 1..L + 1 |-> 0]
  <2>1. DOMAIN f = 1..L + 1 /\ f = [o \in 1..L + 1 |-> f[o]] /\ Upto(f, 0) BY <1>0
  <2> HIDE DEF f, Upto
  <2> QED BY <2>1
<1>2. ASSUME NEW k \in Nat, k \in Done PROVE k + 1 \in Done
  <2>1. SUFFICES ASSUME k + 1 <= L + 1
        PROVE  \E f : DOMAIN f = 1..L + 1 /\ f = [o \in 1..L + 1 |-> f[o]] /\ Upto(f, k + 1)
    OBVIOUS
  <2>2. k <= L + 1 BY <2>1, <1>0
  <2>3. PICK f : DOMAIN f = 1..L + 1 /\ f = [o \in 1..L + 1 |-> f[o]] /\ Upto(f, k) BY <1>2, <2>2
  <2> DEFINE q == L + 1 - k
             g == [o \in 1..L + 1 |-> IF o = q THEN AtPlace(file, f, q) ELSE f[o]]
  <2>4. q \in 1..L + 1 BY <2>1, <1>0
  <2>5. \A o \in 1..L + 1 : o > q => g[o] = f[o] BY <2>4
  <2>6. ASSUME NEW o \in 1..L + 1, o >= q PROVE AtPlace(file, g, o) = AtPlace(file, f, o)
    <3>1. CASE o > L BY <3>1 DEF AtPlace
    <3>2. CASE ~(o > L) /\ Decodes(file, o)
      <4>1. o \in 1..L BY <3>2, <1>0
      <4>2. o + file[o].len \in (o + 1)..(L + 1) BY <3>2, <4>1, ScanAdvances
      <4>3. o + file[o].len \in 1..L + 1 /\ o + file[o].len > q BY <4>2, <2>6, <2>4, <1>0
      <4>4. g[o + file[o].len] = f[o + file[o].len] BY <4>3, <2>5
      <4> HIDE DEF g
      <4> QED BY <4>4, <3>2 DEF AtPlace
    <3>3. CASE ~(o > L) /\ ~Decodes(file, o)
      <4>1. o + 1 \in 1..L + 1 /\ o + 1 > q BY <3>3, <2>6, <2>4, <1>0
      <4>2. g[o + 1] = f[o + 1] BY <4>1, <2>5
      <4> HIDE DEF g
      <4> QED BY <4>2, <3>3 DEF AtPlace
    <3> QED BY <3>1, <3>2, <3>3
  <2>7. Upto(g, k + 1)
    <3> SUFFICES ASSUME NEW o \in 1..L + 1, o > L + 1 - (k + 1) PROVE g[o] = AtPlace(file, g, o) OBVIOUS
    <3>1. o >= q BY <1>0
    <3>2. CASE o = q BY <3>1, <3>2, <2>6
    <3>3. CASE o # q
      <4>1. o > L + 1 - k /\ o > q BY <3>1, <3>3, <1>0, <2>4
      <4>2. f[o] = AtPlace(file, f, o) BY <4>1, <2>3
      <4> QED BY <4>1, <4>2, <3>1, <2>5, <2>6
    <3> QED BY <3>2, <3>3
  <2>8. DOMAIN g = 1..L + 1 /\ g = [o \in 1..L + 1 |-> g[o]] OBVIOUS
  <2> HIDE DEF g, Upto
  <2> QED BY <2>7, <2>8
<1> HIDE DEF Done
<1>3. L + 1 \in Done BY <1>0, <1>1, <1>2, EveryNatural
<1>4. PICK f : DOMAIN f = 1..L + 1 /\ f = [o \in 1..L + 1 |-> f[o]] /\ Upto(f, L + 1) BY <1>3, <1>0 DEF Done
<1>5. \A o \in 1..L + 1 : f[o] = AtPlace(file, f, o) BY <1>4, <1>0
<1>6. f = [o \in 1..L + 1 |-> AtPlace(file, f, o)]
  <2> HIDE DEF Upto
  <2> QED BY <1>4, <1>5
<1> HIDE DEF L
<1>7. \E g : g = [o \in 1..Len(file) + 1 |-> AtPlace(file, g, o)] BY <1>6 DEF L
<1> QED BY <1>7 DEF ScanOf

\* What the scan answers at a place.
LEMMA ScanSteps ==
  ASSUME NEW file, NEW n, FileIs(file, n), NEW o \in 1..Len(file) + 1, NEW gap \in BOOLEAN
  PROVE  LET r == ScanOf(file)[o][gap]
             rest == ScanOf(file)[o + file[o].len][FALSE]
             next == ScanOf(file)[o + 1][TRUE]
         IN /\ o > Len(file) => r.found = <<>> /\ r.skipped = 0
            /\ (~(o > Len(file)) /\ Decodes(file, o)) =>
                  r.found = <<file[o].rec>> \o rest.found /\ r.skipped = rest.skipped
            /\ (~(o > Len(file)) /\ ~Decodes(file, o)) =>
                  r.found = next.found /\ r.skipped = next.skipped + IF gap THEN 0 ELSE 1
<1> DEFINE f == ScanOf(file)
<1>1. f[o] = AtPlace(file, f, o) BY ScanIsDefined
<1> HIDE DEF f
<1>2. f[o][gap] =
        IF o > Len(file) THEN [found |-> <<>>, skipped |-> 0]
        ELSE IF Decodes(file, o)
        THEN [found |-> <<file[o].rec>> \o f[o + file[o].len][FALSE].found, skipped |-> f[o + file[o].len][FALSE].skipped]
        ELSE [found |-> f[o + 1][TRUE].found, skipped |-> f[o + 1][TRUE].skipped + IF gap THEN 0 ELSE 1]
  BY <1>1, Zenon DEF AtPlace
<1> DEFINE a == f[o + file[o].len][FALSE]
           b == f[o + 1][TRUE]
           d == Decodes(file, o)
           u == <<file[o].rec>> \o a.found
           k == b.skipped + IF gap THEN 0 ELSE 1
           r == f[o][gap]
<1>3. r = IF o > Len(file) THEN [found |-> <<>>, skipped |-> 0]
          ELSE IF d THEN [found |-> u, skipped |-> a.skipped]
          ELSE [found |-> b.found, skipped |-> k]
  BY <1>2
<1> HIDE DEF a, b, d, u, k, r
<1>4. /\ o > Len(file) => r.found = <<>> /\ r.skipped = 0
      /\ (~(o > Len(file)) /\ d) => r.found = u /\ r.skipped = a.skipped
      /\ (~(o > Len(file)) /\ ~d) => r.found = b.found /\ r.skipped = k
  BY ONLY <1>3
<1> QED BY <1>4 DEF a, b, d, u, k, r, f

\* The numbers of the records that decode from place o on.
DecodedFrom(file, o) == { file[p].rec : p \in { x \in o..Len(file) : Decodes(file, x) } }

InOrderOf(t, R) ==
  /\ t \in Seq(Nat)
  /\ \A x \in R : \E i \in 1..Len(t) : t[i] = x
  /\ \A i \in 1..Len(t) : t[i] \in R
  /\ \A i, j \in 1..Len(t) : i < j => t[i] < t[j]

LEMMA InFront ==
  ASSUME NEW t, NEW R, InOrderOf(t, R), NEW x \in Nat, \A y \in R : x < y
  PROVE  InOrderOf(<<x>> \o t, R \cup {x})
<1> DEFINE u == <<x>> \o t
<1>1. t \in Seq(Nat) /\ Len(t) \in Nat BY DEF InOrderOf
<1>2. u \in Seq(Nat) /\ Len(u) = Len(t) + 1 /\ u[1] = x /\ \A i \in 1..Len(t) : u[i + 1] = t[i] BY <1>1
<1> HIDE DEF u
<1>3. ASSUME NEW i \in 1..Len(u), i # 1 PROVE i - 1 \in 1..Len(t) /\ u[i] = t[i - 1]
  <2>1. i - 1 \in 1..Len(t) /\ (i - 1) + 1 = i BY <1>1, <1>2, <1>3
  <2> QED BY <1>2, <2>1
<1>4. ASSUME NEW y \in R \cup {x} PROVE \E i \in 1..Len(u) : u[i] = y
  <2>1. CASE y = x
    <3>1. 1 \in 1..Len(u) BY <1>1, <1>2
    <3> QED BY <2>1, <3>1, <1>2
  <2>2. CASE y \in R
    <3>1. PICK i \in 1..Len(t) : t[i] = y BY <2>2 DEF InOrderOf
    <3>2. i + 1 \in 1..Len(u) BY <1>1, <1>2
    <3> QED BY <3>1, <3>2, <1>2
  <2> QED BY <2>1, <2>2
<1>5. ASSUME NEW i \in 1..Len(u) PROVE u[i] \in R \cup {x}
  <2>1. CASE i = 1 BY <2>1, <1>2
  <2>2. CASE i # 1 BY <2>2, <1>3 DEF InOrderOf
  <2> QED BY <2>1, <2>2
<1>6. ASSUME NEW i \in 1..Len(u), NEW j \in 1..Len(u), i < j PROVE u[i] < u[j]
  <2>1. j # 1 BY <1>1, <1>2, <1>6
  <2>2. j - 1 \in 1..Len(t) /\ u[j] = t[j - 1] BY <2>1, <1>3
  <2>3. CASE i = 1
    <3>1. t[j - 1] \in R BY <2>2 DEF InOrderOf
    <3> QED BY <2>2, <2>3, <3>1, <1>2
  <2>4. CASE i # 1
    <3>1. i - 1 \in 1..Len(t) /\ u[i] = t[i - 1] BY <2>4, <1>3
    <3>2. i - 1 < j - 1 BY <1>6, <1>1, <1>2
    <3> QED BY <2>2, <3>1, <3>2 DEF InOrderOf
  <2> QED BY <2>3, <2>4
<1> QED BY <1>2, <1>4, <1>5, <1>6 DEF InOrderOf, u

\* From every place the scan finds what decodes behind it, in order.
LEMMA ScanFinds ==
  ASSUME NEW file, NEW n, FileIs(file, n)
  PROVE  \A o \in 1..Len(file) + 1 : \A gap \in BOOLEAN :
           InOrderOf(ScanOf(file)[o][gap].found, DecodedFrom(file, o))
<1> DEFINE L == Len(file)
           f == ScanOf(file)
           Finds(o) == \A gap \in BOOLEAN : InOrderOf(f[o][gap].found, DecodedFrom(file, o))
           Done == { k \in Nat : \A o \in 1..L + 1 : o + k > L => Finds(o) }
<1>0. L \in Nat BY FileLength
<1>n. n \in Nat /\ BytesAre(file, n) BY FileLength DEF FileIs
<1> HIDE DEF f
<1>1. ASSUME NEW o \in 1..L + 1, o > L PROVE Finds(o)
  <2>1. \A gap \in BOOLEAN : f[o][gap].found = <<>> BY <1>1, ScanSteps DEF f
  <2>2. DecodedFrom(file, o) = {} BY <1>0, <1>1 DEF DecodedFrom
  <2>3. InOrderOf(<<>>, {}) BY DEF InOrderOf
  <2> QED BY <2>1, <2>2, <2>3
<1>2. ASSUME NEW o \in 1..L, ~Decodes(file, o), Finds(o + 1) PROVE Finds(o)
  <2>1. \A gap \in BOOLEAN : f[o][gap].found = f[o + 1][TRUE].found
    <3>1. o \in 1..L + 1 /\ ~(o > L) BY <1>0
    <3> QED BY <1>2, <3>1, ScanSteps DEF f
  <2>2. { x \in o..L : Decodes(file, x) } = { x \in (o + 1)..L : Decodes(file, x) } BY <1>0, <1>2
  <2>3. DecodedFrom(file, o) = DecodedFrom(file, o + 1) BY <2>2 DEF DecodedFrom
  <2> QED BY <1>2, <2>1, <2>3
<1>3. ASSUME NEW o \in 1..L, Decodes(file, o), Finds(o + file[o].len) PROVE Finds(o)
  <2> DEFINE q == o + file[o].len
             r == file[o].rec
  <2>1. \A gap \in BOOLEAN : f[o][gap].found = <<r>> \o f[q][FALSE].found
    <3>1. o \in 1..L + 1 /\ ~(o > L) BY <1>0
    <3> QED BY <1>3, <3>1, ScanSteps DEF f
  <2>2. q \in (o + 1)..(L + 1) BY <1>3, ScanAdvances
  <2>3. r \in Nat BY <1>n, <1>3, DecodesIs
  <2>4. { x \in o..L : Decodes(file, x) } = { x \in q..L : Decodes(file, x) } \cup {o}
    <3>1. ASSUME NEW x \in o..L, Decodes(file, x), x # o PROVE q <= x
      <4>1. x \in 1..L /\ o < x BY <1>0, <3>1
      <4> QED BY <1>3, <3>1, <4>1, DecodedApart
    <3>2. \A x \in q..L : x \in o..L BY <2>2, <1>0
    <3>3. \A x \in o..L : q <= x => x \in q..L BY <2>2, <1>0
    <3>4. o \in o..L BY <1>0
    <3> HIDE DEF q
    <3> QED BY <1>3, <3>1, <3>2, <3>3, <3>4
  <2>5. DecodedFrom(file, o) = DecodedFrom(file, q) \cup {r} BY <2>4 DEF DecodedFrom
  <2>6. \A y \in DecodedFrom(file, q) : r < y
    <3> SUFFICES ASSUME NEW x \in q..L, Decodes(file, x) PROVE r < file[x].rec BY DEF DecodedFrom
    <3>1. x \in 1..L /\ o < x BY <2>2, <1>0
    <3> QED BY <1>3, <3>1, DecodedApart
  <2>7. InOrderOf(f[q][FALSE].found, DecodedFrom(file, q)) BY <1>3
  <2> HIDE DEF q, r
  <2> DEFINE t == f[q][FALSE].found
             R == DecodedFrom(file, q)
  <2>h. InOrderOf(t, R) /\ \A y \in R : r < y BY <2>6, <2>7
  <2> HIDE DEF t, R
  <2>i. InOrderOf(<<r>> \o t, R \cup {r}) BY ONLY <2>3, <2>h, InFront
  <2>8. InOrderOf(<<r>> \o f[q][FALSE].found, DecodedFrom(file, o)) BY <2>5, <2>i DEF t, R
  <2> QED BY <2>1, <2>8
<1> HIDE DEF Finds
<1>4. 0 \in Done BY <1>0, <1>1
<1>5. ASSUME NEW k \in Nat, k \in Done PROVE k + 1 \in Done
  <2> SUFFICES ASSUME NEW o \in 1..L + 1, o + (k + 1) > L PROVE Finds(o) OBVIOUS
  <2>1. CASE o > L BY <2>1, <1>1
  <2>2. CASE ~(o > L) /\ Decodes(file, o)
    <3>1. o \in 1..L BY <2>2, <1>0
    <3>2. o + file[o].len \in (o + 1)..(L + 1) BY <2>2, <3>1, ScanAdvances
    <3>3. o + file[o].len \in 1..L + 1 /\ o + file[o].len + k > L BY <3>2, <1>0
    <3>4. Finds(o + file[o].len) BY <3>3, <1>5
    <3> QED BY <2>2, <3>1, <3>4, <1>3
  <2>3. CASE ~(o > L) /\ ~Decodes(file, o)
    <3>1. o \in 1..L /\ o + 1 \in 1..L + 1 /\ (o + 1) + k > L BY <2>3, <1>0
    <3>2. Finds(o + 1) BY <3>1, <1>5
    <3> QED BY <2>3, <3>1, <3>2, <1>2
  <2> QED BY <2>1, <2>2, <2>3
<1> HIDE DEF Done
<1>6. L \in Done BY <1>0, <1>4, <1>5, EveryNatural
<1>7. ASSUME NEW o \in 1..L + 1 PROVE Finds(o)
  <2>1. o + L > L BY <1>0
  <2> QED BY <1>6, <2>1 DEF Done
<1> QED BY <1>7 DEF Finds, f

-----------------------------------------------------------------------------
(* The damaged regions, counted from each place.                           *)

RegionsFrom(file, o) == { x \in CorruptRegions(file) : x >= o }

\* Where the scan may stand: not inside an intact record, and it knows whether
\* the byte before is damaged.
Stands(file, o, gap) ==
  /\ o \in 1..Len(file) /\ o \in IntactBytes(file) => Decodes(file, o)
  /\ gap <=> ~(o = 1 \/ o - 1 \in IntactBytes(file))

LEMMA RegionsAre ==
  ASSUME NEW file, NEW n, FileIs(file, n)
  PROVE  CorruptRegions(file) =
           { x \in 1..Len(file) : x \notin IntactBytes(file) /\ (x = 1 \/ x - 1 \in IntactBytes(file)) }
<1>1. DOMAIN file = 1..Len(file) BY FileLength
<1> QED BY <1>1 DEF CorruptRegions, IntactBytes

LEMMA RegionsFinite ==
  ASSUME NEW file, NEW n, FileIs(file, n), NEW o \in Nat
  PROVE  IsFiniteSet(RegionsFrom(file, o)) /\ Cardinality(RegionsFrom(file, o)) \in Nat
<1>1. Len(file) \in Nat BY FileLength
<1>2. IsFiniteSet(1..Len(file)) BY <1>1, FS_Interval
<1>3. RegionsFrom(file, o) \subseteq 1..Len(file) BY RegionsAre DEF RegionsFrom
<1>4. IsFiniteSet(RegionsFrom(file, o)) BY <1>2, <1>3, FS_Subset
<1> QED BY <1>4, FS_CardinalityType

\* Past a record that decodes, the scan stands between records.
LEMMA PastRecord ==
  ASSUME NEW file, NEW n, FileIs(file, n), NEW o \in 1..Len(file), Decodes(file, o)
  PROVE  LET q == o + file[o].len
         IN Stands(file, q, FALSE) /\ RegionsFrom(file, o) = RegionsFrom(file, q)
<1> DEFINE L == Len(file)
           q == o + file[o].len
           IB == IntactBytes(file)
<1>0. L \in Nat BY FileLength
<1>1. q \in (o + 1)..(L + 1) BY ScanAdvances
<1> HIDE DEF q, IB
<1>2. ASSUME NEW x \in o..(q - 1) PROVE x \in IB
  <2>1. x \in 1..L /\ o \in 1..x /\ x < o + file[o].len BY <1>0, <1>1 DEF q
  <2>2. \E s \in 1..x : Decodes(file, s) /\ x < s + file[s].len BY <2>1
  <2> QED BY <2>1, <2>2, IntactIs DEF IB
<1>3. ASSUME q \in 1..L, q \in IB PROVE Decodes(file, q)
  <2>1. PICK s \in 1..q : Decodes(file, s) /\ q < s + file[s].len BY <1>3, IntactIs DEF IB
  <2>2. s \in 1..L BY <1>3, <1>0
  <2>3. ~(s < o)
    <3>1. SUFFICES ASSUME s < o PROVE FALSE OBVIOUS
    <3>2. s + file[s].len <= o BY <3>1, <2>1, <2>2, DecodedApart
    <3>3. file[s].len \in Nat BY <2>1, <2>2, FileLength, DecodesIs
    <3> QED BY <3>2, <3>3, <2>1, <2>2, <1>1, <1>0
  <2>4. s # o BY <2>1, <1>1, <1>0 DEF q
  <2>5. o < s BY <2>2, <2>3, <2>4, <1>0
  <2>6. q <= s BY <2>1, <2>2, <2>5, DecodedApart DEF q
  <2>7. s = q BY <2>6, <2>2, <1>1, <1>0
  <2> QED BY <2>1, <2>7
<1>4. q - 1 \in IB
  <2>1. q - 1 \in o..(q - 1) BY <1>0, <1>1
  <2> QED BY <2>1, <1>2
<1>5. Stands(file, q, FALSE) BY <1>3, <1>4 DEF Stands, IB
<1>6. RegionsFrom(file, o) = RegionsFrom(file, q)
  <2>1. CorruptRegions(file) \subseteq 1..L /\ \A x \in CorruptRegions(file) : x \notin IB BY RegionsAre DEF IB
  <2>2. \A x \in CorruptRegions(file) : x >= o <=> x >= q
    <3> SUFFICES ASSUME NEW x \in CorruptRegions(file) PROVE x >= o <=> x >= q OBVIOUS
    <3>1. x \in 1..L /\ x \notin IB BY <2>1
    <3>2. x \notin o..(q - 1) BY <3>1, <1>2
    <3> QED BY <3>1, <3>2, <1>0, <1>1
  <2> QED BY <2>2 DEF RegionsFrom
<1> QED BY <1>5, <1>6 DEF q

\* Past a byte that does not decode, the scan stands in a damaged region, which
\* it has counted if it begins here.
LEMMA PastByte ==
  ASSUME NEW file, NEW n, FileIs(file, n), NEW o \in 1..Len(file), NEW gap \in BOOLEAN,
         ~Decodes(file, o), Stands(file, o, gap)
  PROVE  /\ Stands(file, o + 1, TRUE)
         /\ Cardinality(RegionsFrom(file, o))
              = Cardinality(RegionsFrom(file, o + 1)) + IF gap THEN 0 ELSE 1
<1> DEFINE L == Len(file)
           IB == IntactBytes(file)
           R == RegionsFrom(file, o + 1)
<1>0. L \in Nat BY FileLength
<1>1. o \notin IB /\ (gap <=> ~(o = 1 \/ o - 1 \in IB)) BY DEF Stands
<1>2. Stands(file, o + 1, TRUE)
  <2>1. ASSUME o + 1 \in 1..L, o + 1 \in IB PROVE Decodes(file, o + 1)
    <3>1. PICK s \in 1..(o + 1) : Decodes(file, s) /\ o + 1 < s + file[s].len BY <2>1, IntactIs
    <3>2. s \in 1..L BY <2>1, <1>0
    <3>3. file[s].len \in Nat BY <3>1, <3>2, FileLength, DecodesIs
    <3>4. ~(s <= o)
      <4>1. SUFFICES ASSUME s <= o PROVE FALSE OBVIOUS
      <4>2. s \in 1..o /\ o < s + file[s].len BY <4>1, <3>1, <3>2, <3>3, <1>0
      <4> QED BY <4>2, <3>1, <1>1, IntactIs
    <3>5. s = o + 1 BY <3>2, <3>4, <1>0
    <3> QED BY <3>1, <3>5
  <2>2. ~(o + 1 = 1 \/ (o + 1) - 1 \in IB)
    <3>1. (o + 1) - 1 = o /\ o + 1 # 1 BY <1>0
    <3> QED BY <3>1, <1>1
  <2> QED BY <2>1, <2>2 DEF Stands
<1>3. IsFiniteSet(R) /\ Cardinality(R) \in Nat BY RegionsFinite
<1>4. o \in CorruptRegions(file) <=> ~gap BY <1>1, RegionsAre
<1>5. CorruptRegions(file) \subseteq 1..L BY RegionsAre
<1>6. o \notin R BY <1>0 DEF RegionsFrom
<1>7. \A x \in CorruptRegions(file) : x >= o <=> (x = o \/ x >= o + 1) BY <1>0, <1>5
<1>8. CASE gap
  <2>1. o \notin CorruptRegions(file) BY <1>4, <1>8
  <2>2. RegionsFrom(file, o) = R BY <1>7, <2>1 DEF RegionsFrom
  <2>3. (IF gap THEN 0 ELSE 1) = 0 BY <1>8
  <2>4. Cardinality(R) = Cardinality(R) + 0 BY <1>3
  <2> HIDE DEF R
  <2> QED BY <1>2, <2>2, <2>3, <2>4, Zenon DEF R
<1>9. CASE ~gap
  <2>1. o \in CorruptRegions(file) BY <1>4, <1>9
  <2>3. o >= o BY <1>0
  <2>2. RegionsFrom(file, o) = R \cup {o} BY <1>7, <2>1, <2>3 DEF RegionsFrom
  <2> HIDE DEF R
  <2>4. Cardinality(R \cup {o}) = Cardinality(R) + 1 BY <1>3, <1>6, FS_AddElement
  <2> QED BY <1>2, <1>9, <2>2, <2>4 DEF R
<1> QED BY <1>8, <1>9

\* From every place it may stand at, the scan counts the regions ahead.
LEMMA ScanCounts ==
  ASSUME NEW file, NEW n, FileIs(file, n)
  PROVE  \A o \in 1..Len(file) + 1 : \A gap \in BOOLEAN :
           Stands(file, o, gap) => ScanOf(file)[o][gap].skipped = Cardinality(RegionsFrom(file, o))
<1> DEFINE L == Len(file)
           f == ScanOf(file)
           C(o) == Cardinality(RegionsFrom(file, o))
           Counts(o) == \A gap \in BOOLEAN : Stands(file, o, gap) => f[o][gap].skipped = C(o)
           Done == { k \in Nat : \A o \in 1..L + 1 : o + k > L => Counts(o) }
<1>0. L \in Nat BY FileLength
<1> HIDE DEF f
<1>1. ASSUME NEW o \in 1..L + 1, o > L PROVE Counts(o)
  <2>1. \A gap \in BOOLEAN : f[o][gap].skipped = 0 BY <1>1, ScanSteps DEF f
  <2>2. RegionsFrom(file, o) = {}
    <3>1. CorruptRegions(file) \subseteq 1..L BY RegionsAre
    <3> QED BY <1>0, <1>1, <3>1 DEF RegionsFrom
  <2>3. C(o) = 0 BY <2>2, FS_EmptySet
  <2> HIDE DEF C
  <2> QED BY <2>1, <2>3
<1>2. ASSUME NEW o \in 1..L, ~Decodes(file, o), Counts(o + 1) PROVE Counts(o)
  <2> SUFFICES ASSUME NEW gap \in BOOLEAN, Stands(file, o, gap) PROVE f[o][gap].skipped = C(o) OBVIOUS
  <2>1. f[o][gap].skipped = f[o + 1][TRUE].skipped + IF gap THEN 0 ELSE 1
    <3>1. o \in 1..L + 1 /\ ~(o > L) BY <1>0
    <3> QED BY <1>2, <3>1, ScanSteps DEF f
  <2>2. Stands(file, o + 1, TRUE) /\ C(o) = C(o + 1) + IF gap THEN 0 ELSE 1 BY <1>2, PastByte
  <2>3. f[o + 1][TRUE].skipped = C(o + 1) BY <1>2, <2>2
  <2> HIDE DEF C
  <2> QED BY <2>1, <2>2, <2>3
<1>3. ASSUME NEW o \in 1..L, Decodes(file, o), Counts(o + file[o].len) PROVE Counts(o)
  <2> DEFINE q == o + file[o].len
  <2> SUFFICES ASSUME NEW gap \in BOOLEAN, Stands(file, o, gap) PROVE f[o][gap].skipped = C(o) OBVIOUS
  <2>1. f[o][gap].skipped = f[q][FALSE].skipped
    <3>1. o \in 1..L + 1 /\ ~(o > L) BY <1>0
    <3> QED BY <1>3, <3>1, ScanSteps DEF f
  <2>2. Stands(file, q, FALSE) /\ C(o) = C(q) BY <1>3, PastRecord
  <2>3. f[q][FALSE].skipped = C(q) BY <1>3, <2>2
  <2> HIDE DEF C, q
  <2> QED BY <2>1, <2>2, <2>3
<1> HIDE DEF Counts
<1>4. 0 \in Done BY <1>0, <1>1
<1>5. ASSUME NEW k \in Nat, k \in Done PROVE k + 1 \in Done
  <2> SUFFICES ASSUME NEW o \in 1..L + 1, o + (k + 1) > L PROVE Counts(o) OBVIOUS
  <2>1. CASE o > L BY <2>1, <1>1
  <2>2. CASE ~(o > L) /\ Decodes(file, o)
    <3>1. o \in 1..L BY <2>2, <1>0
    <3>2. o + file[o].len \in (o + 1)..(L + 1) BY <2>2, <3>1, ScanAdvances
    <3>3. o + file[o].len \in 1..L + 1 /\ o + file[o].len + k > L BY <3>2, <1>0
    <3>4. Counts(o + file[o].len) BY <3>3, <1>5
    <3> QED BY <2>2, <3>1, <3>4, <1>3
  <2>3. CASE ~(o > L) /\ ~Decodes(file, o)
    <3>1. o \in 1..L /\ o + 1 \in 1..L + 1 /\ (o + 1) + k > L BY <2>3, <1>0
    <3>2. Counts(o + 1) BY <3>1, <1>5
    <3> QED BY <2>3, <3>1, <3>2, <1>2
  <2> QED BY <2>1, <2>2, <2>3
<1> HIDE DEF Done
<1>6. L \in Done BY <1>0, <1>4, <1>5, EveryNatural
<1>7. ASSUME NEW o \in 1..L + 1 PROVE Counts(o)
  <2>1. o + L > L BY <1>0
  <2> QED BY <1>6, <2>1 DEF Done
<1> QED BY <1>7 DEF Counts, f


-----------------------------------------------------------------------------
(* The log as it is: its bytes, and the records in it that nothing damaged. *)

WalInv == FileIs(bytes, records) /\ appended = DecodedFrom(bytes, 1)

\* What the reader makes of a log that is so.
LEMMA WalIsRead == WalInv => LogIsReadWhole
<1> SUFFICES ASSUME WalInv PROVE LogIsReadWhole OBVIOUS
<1> DEFINE t == ScanOf(bytes)[1][FALSE].found
<1>0. FileIs(bytes, records) /\ appended = DecodedFrom(bytes, 1) BY DEF WalInv
<1>1. Len(bytes) \in Nat BY <1>0, FileLength
<1>2. 1 \in 1..Len(bytes) + 1 /\ 1 \in Nat BY <1>1
<1>3. InOrderOf(t, DecodedFrom(bytes, 1)) BY <1>0, <1>2, ScanFinds
<1>4. Stands(bytes, 1, FALSE)
  <2>1. ASSUME 1 \in 1..Len(bytes), 1 \in IntactBytes(bytes) PROVE Decodes(bytes, 1)
    <3>1. PICK s \in 1..1 : Decodes(bytes, s) /\ 1 < s + bytes[s].len BY <1>0, <2>1, IntactIs
    <3>2. s = 1 OBVIOUS
    <3> QED BY <3>1, <3>2
  <2> QED BY <2>1 DEF Stands
<1>5. ScanOf(bytes)[1][FALSE].skipped = Cardinality(RegionsFrom(bytes, 1)) BY <1>0, <1>2, <1>4, ScanCounts
<1>6. RegionsFrom(bytes, 1) = CorruptRegions(bytes)
  <2>1. CorruptRegions(bytes) \subseteq 1..Len(bytes) BY <1>0, RegionsAre
  <2> QED BY <2>1, <1>1 DEF RegionsFrom
<1>7. RegionsAreCounted BY <1>5, <1>6, ReadAllIs DEF RegionsAreCounted
<1>8. ReadAll(bytes).found = t BY ReadAllIs
<1> HIDE DEF t
<1>9. EveryIntactRecordIsRead
  <2>1. t \in Seq(Nat) BY <1>3 DEF InOrderOf
  <2>2. DOMAIN t = 1..Len(t) BY <2>1
  <2>3. { t[i] : i \in DOMAIN t } = appended BY <1>0, <1>3, <2>2 DEF InOrderOf
  <2>4. \A i, j \in DOMAIN t : i < j => t[i] < t[j] BY <1>3, <2>2 DEF InOrderOf
  <2> QED BY <1>8, <2>3, <2>4 DEF EveryIntactRecordIsRead
<1> QED BY <1>7, <1>9 DEF LogIsReadWhole

LEMMA EmptyFile == ASSUME NEW n \in Nat PROVE FileIs(<<>>, n) /\ DecodedFrom(<<>>, 1) = {}
<1>1. \E S : <<>> \in Seq(S)
  <2>1. <<>> \in Seq({}) OBVIOUS
  <2> QED BY <2>1
<1> QED BY <1>1 DEF FileIs, BytesAre, RecordsAre, DecodedFrom

LEMMA WalInit == InitWal => WalInv
BY EmptyFile DEF InitWal, WalInv

LEMMA WalCheckpoint == WalInv /\ CheckpointAndTruncate => WalInv'
<1> SUFFICES ASSUME WalInv, CheckpointAndTruncate PROVE WalInv' OBVIOUS
<1>1. bytes' = <<>> /\ appended' = {} /\ records' = records BY DEF CheckpointAndTruncate
<1>2. records \in Nat BY DEF WalInv, FileIs
<1> QED BY <1>1, <1>2, EmptyFile DEF WalInv

\* A longer or a shorter file: a record that lies in both decodes in both.
LEMMA SameRecord ==
  ASSUME NEW file, NEW other, NEW m, NEW n, BytesAre(file, m), BytesAre(other, n),
         NEW o \in 1..Len(file), NEW k \in Nat, k <= Len(file), k <= Len(other),
         \A p \in 1..k : other[p] = file[p], Decodes(file, o), o + file[o].len - 1 <= k
  PROVE  Decodes(other, o)
<1>0. Len(file) \in Nat /\ Len(other) \in Nat
  <2>1. PICK S : file \in Seq(S) BY DEF BytesAre
  <2>2. PICK T : other \in Seq(T) BY DEF BytesAre
  <2> QED BY <2>1, <2>2
<1>1. Starts(file, o) /\ file[o].len \in Nat \ {0} BY DecodesIs
<1>2. o \in 1..k /\ o \in 1..Len(other) BY <1>0, <1>1
<1>3. other[o] = file[o] BY <1>2
<1>4. ASSUME NEW i \in 1..file[o].len PROVE other[o + i - 1] = file[o + i - 1]
  <2>1. o + i - 1 \in 1..k BY <1>0, <1>1
  <2> QED BY <2>1
<1>5. o + other[o].len - 1 <= Len(other) BY <1>0, <1>1, <1>3
<1>6. other[o].at = 1 BY <1>1, <1>3 DEF Starts
<1>7. \A i \in 1..other[o].len : Follows(other[o + i - 1], other[o], i) BY <1>1, <1>3, <1>4 DEF Starts
<1>8. Starts(other, o) BY <1>5, <1>6, <1>7 DEF Starts
<1> QED BY <1>2, <1>8, DecodesIs

LEMMA WalOpen ==
  ASSUME WalInv, NEW keep \in 0..Len(bytes), OpenWal(keep)
  PROVE  WalInv'
<1> DEFINE left == SubSeq(bytes, 1, keep)
<1>0. /\ bytes' = left /\ records' = records
      /\ appended' = { r \in appended : \E o \in 1..keep : bytes[o].rec = r /\ Decodes(left, o) }
  BY DEF OpenWal
<1>1. /\ FileIs(bytes, records) /\ appended = DecodedFrom(bytes, 1) /\ Len(bytes) \in Nat
      /\ BytesAre(bytes, records) /\ RecordsAre(bytes) /\ records \in Nat
  BY FileLength DEF WalInv, FileIs
<1>2. PICK S : bytes \in Seq(S) BY <1>1 DEF BytesAre
<1>3. /\ left \in Seq(S) /\ Len(left) = keep /\ \A o \in 1..keep : left[o] = bytes[o] /\ o \in 1..Len(bytes)
  BY <1>1, <1>2
<1> HIDE DEF left
<1>4. BytesAre(left, records)
  <2>1. \E Q : left \in Seq(Q) BY <1>3
  <2> QED BY <2>1, <1>1, <1>3 DEF BytesAre
<1>5. RecordsAre(left) BY <1>1, <1>3 DEF RecordsAre, Good
<1>6. FileIs(left, records) BY <1>1, <1>4, <1>5 DEF FileIs
<1>7. ASSUME NEW o \in 1..keep, Decodes(left, o) PROVE Decodes(bytes, o)
  <2>1. o \in 1..Len(left) /\ keep \in Nat /\ keep <= Len(left) /\ keep <= Len(bytes) BY <1>1, <1>3
  <2>2. o + left[o].len - 1 <= keep BY <1>3, <1>7 DEF Decodes
  <2>3. \A p \in 1..keep : bytes[p] = left[p] BY <1>3
  <2> QED BY <1>1, <1>4, <1>7, <2>1, <2>2, <2>3, SameRecord
<1>8. appended' = DecodedFrom(left, 1)
  <2>1. ASSUME NEW r \in appended' PROVE r \in DecodedFrom(left, 1)
    <3>1. PICK o \in 1..keep : bytes[o].rec = r /\ Decodes(left, o) BY <1>0
    <3> QED BY <3>1, <1>3 DEF DecodedFrom
  <2>2. ASSUME NEW o \in 1..keep, Decodes(left, o) PROVE left[o].rec \in appended'
    <3>1. Decodes(bytes, o) /\ bytes[o].rec = left[o].rec /\ o \in 1..Len(bytes) BY <2>2, <1>7, <1>3
    <3>2. bytes[o].rec \in appended BY <3>1, <1>1 DEF DecodedFrom
    <3> QED BY <3>1, <3>2, <2>2, <1>0
  <2>3. DecodedFrom(left, 1) \subseteq appended' BY <2>2, <1>3 DEF DecodedFrom
  <2> QED BY <2>1, <2>3
<1> QED BY <1>0, <1>6, <1>8 DEF WalInv


LEMMA WalAppend ==
  ASSUME WalInv, NEW len \in RecordLens, AppendRecord(len)
  PROVE  WalInv'
<1> DEFINE n == records
           L == Len(bytes)
           new == bytes'
<1>0. /\ new = bytes \o Encode(n + 1, len, nextLsn) /\ records' = n + 1
      /\ appended' = appended \cup {n + 1}
  BY DEF AppendRecord
<1>1. /\ FileIs(bytes, n) /\ appended = DecodedFrom(bytes, 1) /\ L \in Nat
      /\ BytesAre(bytes, n) /\ RecordsAre(bytes) /\ n \in Nat
  BY FileLength DEF WalInv, FileIs
<1>2. len \in Nat \ {0} BY WalAssumption
<1>3. PICK S : bytes \in Seq(S) BY <1>1 DEF BytesAre
<1> DEFINE added == Encode(n + 1, len, nextLsn)
           T == { added[i] : i \in 1..len }
<1>4. added \in Seq(T) /\ Len(added) = len /\ \A i \in 1..len : added[i] = [rec |-> n + 1, at |-> i, len |-> len, lsn |-> nextLsn]
  <2>1. added = [i \in 1..len |-> [rec |-> n + 1, at |-> i, len |-> len, lsn |-> nextLsn]] BY DEF Encode
  <2> HIDE DEF added
  <2>2. \A i \in 1..len : added[i] = [rec |-> n + 1, at |-> i, len |-> len, lsn |-> nextLsn] BY ONLY <2>1
  <2>3. DOMAIN added = 1..len BY ONLY <2>1
  <2>4. added = [i \in 1..len |-> added[i]] BY ONLY <2>1
  <2>5. added \in [1..len -> T] BY ONLY <2>4 DEF T
  <2> HIDE DEF T
  <2>6. len \in Nat BY <1>2
  <2>7. added \in Seq(T) BY ONLY <2>5, <2>6
  <2>8. Len(added) = len BY ONLY <2>3, <2>6, <2>7
  <2> QED BY <2>2, <2>7, <2>8
<1> HIDE DEF added, T
<1>5. /\ new \in Seq(S \cup T) /\ Len(new) = L + len
      /\ \A o \in 1..L : new[o] = bytes[o]
      /\ \A i \in 1..len : new[L + i] = added[i]
  <2>1. new = bytes \o added BY <1>0 DEF added
  <2>2. bytes \in Seq(S \cup T) /\ added \in Seq(S \cup T) BY <1>3, <1>4
  <2>3. Len(added) = len /\ len \in Nat BY <1>4, <1>2
  <2> HIDE DEF new
  <2>4. new \in Seq(S \cup T) /\ Len(new) = Len(bytes) + Len(added) BY ONLY <2>1, <2>2
  <2>5. \A o \in 1..Len(bytes) : new[o] = bytes[o] BY ONLY <2>1, <2>2
  <2>6. \A i \in 1..Len(added) : new[Len(bytes) + i] = added[i] BY ONLY <2>1, <2>2
  <2> QED BY <2>3, <2>4, <2>5, <2>6
<1> HIDE DEF new, L, n
<1>6. ASSUME NEW o \in 1..L + len, o > L
      PROVE  /\ o - L \in 1..len /\ new[o] = [rec |-> n + 1, at |-> o - L, len |-> len, lsn |-> nextLsn]
  <2>1. o - L \in 1..len /\ L + (o - L) = o BY <1>1, <1>2, <1>6
  <2> QED BY <2>1, <1>4, <1>5
<1>7. ASSUME NEW o \in 1..L + len, ~(o > L) PROVE o \in 1..L /\ new[o] = bytes[o] BY <1>1, <1>2, <1>5, <1>7
<1>8. BytesAre(new, n + 1)
  <2>1. \E Q : new \in Seq(Q) BY <1>5
  <2>2. ASSUME NEW o \in 1..L + len
        PROVE  /\ Byte(new[o])
               /\ new[o] = BadByte \/ (/\ new[o].rec \in 1..n + 1 /\ new[o].len \in Nat \ {0}
                                       /\ new[o].at \in 1..new[o].len /\ new[o].at <= o)
    <3>1. CASE o > L
      <4>1. /\ new[o].rec = n + 1 /\ new[o].len = len /\ new[o].at = o - L /\ Byte(new[o]) /\ o - L \in 1..len
        <5>1. o - L \in 1..len /\ new[o] = [rec |-> n + 1, at |-> o - L, len |-> len, lsn |-> nextLsn] BY <1>6, <3>1
        <5> QED BY ONLY <5>1 DEF Byte
      <4> QED BY <4>1, <1>1, <1>2
    <3>2. CASE ~(o > L)
      <4>1. o \in 1..L /\ new[o] = bytes[o] BY <1>7, <3>2
      <4>2. /\ Byte(bytes[o])
            /\ bytes[o] = BadByte \/ (/\ bytes[o].rec \in 1..n /\ bytes[o].len \in Nat \ {0}
                                      /\ bytes[o].at \in 1..bytes[o].len /\ bytes[o].at <= o)
        BY <1>1, <4>1 DEF BytesAre, L
      <4>3. 1..n \subseteq 1..n + 1 BY <1>1
      <4> QED BY <4>1, <4>2, <4>3
    <3> QED BY <3>1, <3>2
  <2> QED BY <2>1, <2>2, <1>5 DEF BytesAre
<1>9. ASSUME NEW o \in 1..L + len
      PROVE  /\ o > L => Good(new, o) /\ new[o].rec = n + 1 /\ o - new[o].at = L /\ new[o].len = len /\ new[o].lsn = nextLsn
             /\ ~(o > L) => o \in 1..L /\ new[o] = bytes[o] /\ (Good(new, o) => Good(bytes, o) /\ bytes[o].rec \in 1..n)
  <2>1. CASE o > L
    <3>1. new[o].rec = n + 1 /\ new[o].len = len /\ new[o].at = o - L /\ new[o].lsn = nextLsn
      <4>1. new[o] = [rec |-> n + 1, at |-> o - L, len |-> len, lsn |-> nextLsn] BY <1>6, <2>1
      <4> QED BY ONLY <4>1
    <3>2. n + 1 # 0 /\ o - (o - L) = L BY <1>1
    <3> QED BY <2>1, <3>1, <3>2 DEF Good
  <2>2. CASE ~(o > L)
    <3>1. o \in 1..L /\ new[o] = bytes[o] BY <1>7, <2>2
    <3>2. bytes[o].rec # 0 => bytes[o].rec \in 1..n BY <1>1, <3>1 DEF BytesAre, BadByte, L
    <3> QED BY <2>2, <3>1, <3>2 DEF Good
  <2> QED BY <2>1, <2>2
<1>10. RecordsAre(new)
  <2>1. ASSUME NEW o \in 1..L + len, NEW p \in 1..L + len, Good(new, o), Good(new, p), new[o].rec = new[p].rec
        PROVE  o - new[o].at = p - new[p].at /\ new[o].len = new[p].len /\ new[o].lsn = new[p].lsn
    <3>1. CASE o > L /\ p > L BY <3>1, <1>9
    <3>2. CASE ~(o > L) /\ ~(p > L) BY <3>2, <2>1, <1>9, <1>1 DEF RecordsAre, L
    <3>3. CASE o > L /\ ~(p > L)
      <4>1. new[o].rec = n + 1 /\ new[p].rec \in 1..n BY <3>3, <2>1, <1>9
      <4> QED BY <4>1, <2>1, <1>1
    <3>4. CASE p > L /\ ~(o > L)
      <4>1. new[p].rec = n + 1 /\ new[o].rec \in 1..n BY <3>4, <2>1, <1>9
      <4> QED BY <4>1, <2>1, <1>1
    <3> QED BY <3>1, <3>2, <3>3, <3>4
  <2>2. ASSUME NEW o \in 1..L + len, NEW p \in 1..L + len, o < p, Good(new, o), Good(new, p)
        PROVE  new[o].rec <= new[p].rec
    <3>1. CASE p > L
      <4>1. new[p].rec = n + 1 /\ (new[o].rec = n + 1 \/ new[o].rec \in 1..n) BY <3>1, <2>2, <1>9
      <4> QED BY <4>1, <1>1
    <3>2. CASE ~(p > L)
      <4>1. ~(o > L) BY <3>2, <2>2, <1>1, <1>2
      <4> QED BY <3>2, <4>1, <2>2, <1>9, <1>1 DEF RecordsAre, L
    <3> QED BY <3>1, <3>2
  <2>3. ASSUME NEW o \in 1..L + len, NEW p \in 1..L + len, Good(new, o), Good(new, p), o - new[o].at < p, p < o
        PROVE  new[p].rec = new[o].rec
    <3>1. CASE o > L
      <4>1. p > L BY <3>1, <2>3, <1>9
      <4> QED BY <3>1, <4>1, <1>9
    <3>2. CASE ~(o > L)
      <4>1. ~(p > L) BY <3>2, <2>3, <1>1, <1>2
      <4> QED BY <3>2, <4>1, <2>3, <1>9, <1>1 DEF RecordsAre, L
    <3> QED BY <3>1, <3>2
  <2> QED BY <2>1, <2>2, <2>3, <1>5 DEF RecordsAre
<1>11. \A p \in 1..L : new[p] = bytes[p] /\ p \in 1..L + len BY <1>1, <1>2, <1>5
<1>12. ASSUME NEW x \in 1..L, Decodes(bytes, x) PROVE Decodes(new, x)
  <2>1. x + bytes[x].len - 1 <= L BY <1>12 DEF Decodes, L
  <2>2. L <= Len(bytes) /\ L <= Len(new) /\ x \in 1..Len(bytes) BY <1>1, <1>2, <1>5 DEF L
  <2> QED BY <1>1, <1>8, <1>11, <1>12, <2>1, <2>2, SameRecord
<1>13. ASSUME NEW x \in 1..L, Decodes(new, x) PROVE Decodes(bytes, x)
  <2>0. x \in 1..Len(new) BY <1>5, <1>11
  <2>1. Starts(new, x) /\ Good(new, x) /\ new[x].len \in Nat \ {0} BY <1>8, <1>13, <2>0, DecodesIs
  <2>2. new[x].rec \in 1..n
    <3>1. ~(x > L) BY <1>1
    <3> QED BY <3>1, <2>1, <1>9, <1>11
  <2>3. x + new[x].len - 1 <= L
    <3>1. SUFFICES ASSUME ~(x + new[x].len - 1 <= L) PROVE FALSE OBVIOUS
    <3>2. L + 2 - x \in 1..new[x].len /\ x + (L + 2 - x) - 1 = L + 1 BY <3>1, <2>1, <1>1
    <3>3. new[L + 1].rec = new[x].rec BY <2>1, <3>2 DEF Starts, Follows
    <3>4. L + 1 \in 1..L + len /\ L + 1 > L BY <1>1, <1>2
    <3>5. new[L + 1].rec = n + 1 BY <3>4, <1>9
    <3> QED BY <2>2, <3>3, <3>5, <1>1
  <2>4. L <= Len(bytes) /\ L <= Len(new) /\ x \in 1..Len(new) BY <1>1, <1>2, <1>5, <2>0 DEF L
  <2>5. \A p \in 1..L : bytes[p] = new[p] BY <1>11
  <2> QED BY <1>1, <1>8, <1>13, <2>3, <2>4, <2>5, SameRecord
<1>14. Decodes(new, L + 1)
  <2>1. L + 1 \in 1..L + len /\ L + 1 > L BY <1>1, <1>2
  <2>2. new[L + 1].len = len /\ new[L + 1].at = 1 /\ new[L + 1].rec = n + 1 /\ new[L + 1].lsn = nextLsn
    <3>1. new[L + 1] = [rec |-> n + 1, at |-> (L + 1) - L, len |-> len, lsn |-> nextLsn] /\ (L + 1) - L = 1 BY <2>1, <1>6, <1>1
    <3> QED BY <3>1
  <2>3. ASSUME NEW i \in 1..len PROVE Follows(new[L + 1 + i - 1], new[L + 1], i)
    <3>1. L + 1 + i - 1 \in 1..L + len /\ L + 1 + i - 1 > L /\ (L + 1 + i - 1) - L = i BY <1>1, <1>2
    <3>2. new[L + 1 + i - 1] = [rec |-> n + 1, at |-> i, len |-> len, lsn |-> nextLsn] BY <3>1, <1>6
    <3> QED BY <2>2, <3>2 DEF Follows
  <2>4. L + 1 + len - 1 <= Len(new) BY <1>1, <1>2, <1>5
  <2>5. Starts(new, L + 1) BY <2>2, <2>3, <2>4 DEF Starts
  <2> QED BY <2>1, <2>5, <1>5, <1>8, DecodesIs
<1>15. DecodedFrom(new, 1) = appended'
  <2>1. ASSUME NEW x \in 1..L + len, Decodes(new, x) PROVE new[x].rec \in appended'
    <3>1. CASE x > L BY <3>1, <1>0, <1>9
    <3>2. CASE ~(x > L)
      <4>1. x \in 1..L /\ new[x] = bytes[x] BY <3>2, <1>9
      <4>2. Decodes(bytes, x) BY <4>1, <2>1, <1>13
      <4>3. bytes[x].rec \in appended BY <4>1, <4>2, <1>1 DEF DecodedFrom, L
      <4> QED BY <4>1, <4>3, <1>0
    <3> QED BY <3>1, <3>2
  <2>2. DecodedFrom(new, 1) \subseteq appended' BY <2>1, <1>5 DEF DecodedFrom
  <2>3. ASSUME NEW r \in appended' PROVE r \in DecodedFrom(new, 1)
    <3>1. CASE r = n + 1
      <4>1. L + 1 \in 1..L + len /\ L + 1 > L BY <1>1, <1>2
      <4>2. new[L + 1].rec = r BY <4>1, <3>1, <1>9
      <4> QED BY <4>1, <4>2, <1>14, <1>5 DEF DecodedFrom
    <3>2. CASE r \in appended
      <4>1. PICK x \in 1..L : Decodes(bytes, x) /\ bytes[x].rec = r BY <3>2, <1>1 DEF DecodedFrom, L
      <4>2. Decodes(new, x) /\ new[x].rec = r /\ x \in 1..L + len BY <4>1, <1>11, <1>12
      <4> QED BY <4>2, <1>5 DEF DecodedFrom
    <3> QED BY <3>1, <3>2, <2>3, <1>0
  <2> QED BY <2>2, <2>3
<1>16. FileIs(new, n + 1) BY <1>1, <1>8, <1>10 DEF FileIs
<1> QED BY <1>0, <1>15, <1>16 DEF WalInv, new

LEMMA WalDamage ==
  ASSUME WalInv, NEW b \in DOMAIN bytes, DamageByte(b)
  PROVE  WalInv'
<1> DEFINE n == records
           L == Len(bytes)
           new == bytes'
<1>0. /\ new = [bytes EXCEPT ![b] = BadByte] /\ records' = n /\ bytes[b] # BadByte
      /\ appended' = appended \ {bytes[b].rec}
  BY DEF DamageByte
<1>1. /\ FileIs(bytes, n) /\ appended = DecodedFrom(bytes, 1) /\ L \in Nat /\ DOMAIN bytes = 1..L
      /\ BytesAre(bytes, n) /\ RecordsAre(bytes) /\ n \in Nat
  BY FileLength DEF WalInv, FileIs
<1>2. PICK S : bytes \in Seq(S) BY <1>1 DEF BytesAre
<1>3. /\ new \in Seq(S \cup {BadByte}) /\ Len(new) = L /\ new[b] = BadByte
      /\ \A o \in 1..L : o # b => new[o] = bytes[o]
  BY <1>0, <1>1, <1>2
<1>4. b \in 1..L /\ Good(bytes, b) /\ ~Good(new, b)
  <2>1. b \in 1..L BY <1>1
  <2>2. bytes[b].rec \in 1..n BY <2>1, <1>0, <1>1 DEF BytesAre
  <2>3. new[b].rec = 0 BY <1>3 DEF BadByte
  <2> QED BY <2>1, <2>2, <2>3, <1>1 DEF Good
<1> HIDE DEF new, L, n
<1>5. BytesAre(new, n)
  <2>1. \E Q : new \in Seq(Q) BY <1>3
  <2>2. ASSUME NEW o \in 1..L
        PROVE  /\ Byte(new[o])
               /\ new[o] = BadByte \/ (/\ new[o].rec \in 1..n /\ new[o].len \in Nat \ {0}
                                       /\ new[o].at \in 1..new[o].len /\ new[o].at <= o)
    <3>1. CASE o = b BY <3>1, <1>3 DEF Byte, BadByte
    <3>2. CASE o # b BY <3>2, <1>3, <1>1 DEF BytesAre, L
    <3> QED BY <3>1, <3>2
  <2> QED BY <2>1, <2>2, <1>3 DEF BytesAre
<1>6. \A o \in 1..L : Good(new, o) => o # b /\ new[o] = bytes[o] /\ Good(bytes, o) BY <1>3, <1>4 DEF Good
<1>7. RecordsAre(new)
  <2>1. ASSUME NEW o \in 1..L, NEW p \in 1..L, Good(new, o), Good(new, p)
        PROVE  /\ new[o].rec = new[p].rec =>
                    o - new[o].at = p - new[p].at /\ new[o].len = new[p].len /\ new[o].lsn = new[p].lsn
               /\ o < p => new[o].rec <= new[p].rec
               /\ (o - new[o].at < p /\ p < o) => new[p].rec = new[o].rec
    <3>1. new[o] = bytes[o] /\ new[p] = bytes[p] /\ Good(bytes, o) /\ Good(bytes, p) BY <1>6, <2>1
    <3> QED BY <3>1, <1>1 DEF RecordsAre, L
  <2> QED BY <2>1, <1>3 DEF RecordsAre
<1>8. ASSUME NEW x \in 1..L, Decodes(new, x)
      PROVE  Decodes(bytes, x) /\ new[x] = bytes[x] /\ bytes[x].rec # bytes[b].rec
  <2>1. Starts(new, x) /\ Good(new, x) /\ new[x].len \in Nat \ {0} BY <1>3, <1>5, <1>8, DecodesIs
  <2>2. new[x] = bytes[x] /\ Good(bytes, x) BY <2>1, <1>6
  <2>3. ASSUME NEW i \in 1..new[x].len
        PROVE  x + i - 1 \in 1..L /\ Good(new, x + i - 1) /\ Follows(new[x + i - 1], new[x], i)
    <3>1. x + i - 1 \in 1..L BY <2>1, <1>1, <1>3 DEF Starts
    <3>2. Follows(new[x + i - 1], new[x], i) BY <2>1 DEF Starts
    <3> QED BY <3>1, <3>2, <2>1 DEF Follows, Good
  <2>4. \A i \in 1..new[x].len : Follows(bytes[x + i - 1], bytes[x], i) BY <2>2, <2>3, <1>6
  <2>5. Starts(bytes, x)
    <3>1. bytes[x].at = 1 /\ x + bytes[x].len - 1 <= Len(bytes) BY <2>1, <2>2, <1>3 DEF Starts, L
    <3> QED BY <2>2, <2>4, <3>1 DEF Starts
  <2>6. Decodes(bytes, x) BY <1>1, <2>5, DecodesIs DEF L
  <2>7. bytes[x].rec # bytes[b].rec
    <3>1. SUFFICES ASSUME bytes[x].rec = bytes[b].rec PROVE FALSE OBVIOUS
    <3>2. x - bytes[x].at = b - bytes[b].at /\ bytes[x].len = bytes[b].len
      BY <3>1, <2>2, <1>4, <1>1 DEF RecordsAre, L
    <3>3. bytes[x].at = 1 BY <2>5 DEF Starts
    <3>4. bytes[b].len \in Nat \ {0} /\ bytes[b].at \in 1..bytes[b].len BY <1>0, <1>1, <1>4 DEF BytesAre, L
    <3>5. bytes[b].at \in 1..new[x].len /\ x + bytes[b].at - 1 = b BY <3>2, <3>3, <3>4, <2>2, <1>4, <1>1
    <3>6. Good(new, b) BY <3>5, <2>3
    <3> QED BY <3>6, <1>4
  <2> QED BY <2>2, <2>6, <2>7
<1>9. ASSUME NEW x \in 1..L, Decodes(bytes, x), bytes[x].rec # bytes[b].rec
      PROVE  Decodes(new, x) /\ new[x] = bytes[x]
  <2>1. Starts(bytes, x) /\ Good(bytes, x) /\ bytes[x].len \in Nat \ {0} BY <1>1, <1>9, DecodesIs DEF L
  <2>2. x # b BY <1>9
  <2>3. new[x] = bytes[x] BY <2>2, <1>3
  <2>4. ASSUME NEW i \in 1..bytes[x].len PROVE Follows(new[x + i - 1], new[x], i)
    <3>1. x + i - 1 \in 1..L BY <2>1, <1>1 DEF Starts, L
    <3>2. Follows(bytes[x + i - 1], bytes[x], i) BY <2>1 DEF Starts
    <3>3. x + i - 1 # b BY <3>2, <1>9 DEF Follows
    <3>4. new[x + i - 1] = bytes[x + i - 1] BY <3>1, <3>3, <1>3
    <3> QED BY <3>2, <3>4, <2>3
  <2>5. Starts(new, x)
    <3>1. new[x].at = 1 /\ x + new[x].len - 1 <= Len(new) BY <2>1, <2>3, <1>3 DEF Starts, L
    <3> QED BY <2>3, <2>4, <3>1 DEF Starts
  <2> QED BY <1>3, <1>5, <2>3, <2>5, DecodesIs
<1>10. DecodedFrom(new, 1) = appended'
  <2>1. ASSUME NEW x \in 1..L, Decodes(new, x) PROVE new[x].rec \in appended'
    <3>1. Decodes(bytes, x) /\ new[x] = bytes[x] /\ bytes[x].rec # bytes[b].rec BY <2>1, <1>8
    <3>2. bytes[x].rec \in appended BY <3>1, <1>1 DEF DecodedFrom, L
    <3> QED BY <3>1, <3>2, <1>0
  <2>2. DecodedFrom(new, 1) \subseteq appended' BY <2>1, <1>3 DEF DecodedFrom
  <2>3. ASSUME NEW r \in appended' PROVE r \in DecodedFrom(new, 1)
    <3>1. r \in appended /\ r # bytes[b].rec BY <1>0
    <3>2. PICK x \in 1..L : Decodes(bytes, x) /\ bytes[x].rec = r BY <3>1, <1>1 DEF DecodedFrom, L
    <3>3. Decodes(new, x) /\ new[x].rec = r BY <3>1, <3>2, <1>9
    <3> QED BY <3>3, <1>3 DEF DecodedFrom
  <2> QED BY <2>2, <2>3
<1>11. FileIs(new, n) BY <1>1, <1>5, <1>7 DEF FileIs
<1> QED BY <1>0, <1>10, <1>11 DEF WalInv, new

\* LogIsReadWhole, for every length of records, every number of crashes and any
\* damage: the reader (WalRecordIter) finds, in order, exactly the records that
\* are whole in wal.log, whatever lies between them, and counts each damaged
\* region once.
THEOREM LogIsRead == SpecWal => []LogIsReadWhole
<1>1. InitWal => WalInv BY WalInit
<1>2. WalInv /\ [NextWal]_walVars => WalInv'
  <2> SUFFICES ASSUME WalInv, [NextWal]_walVars PROVE WalInv' OBVIOUS
  <2>1. CASE \E len \in RecordLens : AppendRecord(len) BY <2>1, WalAppend
  <2>2. CASE CheckpointAndTruncate BY <2>2, WalCheckpoint
  <2>3. CASE \E o \in DOMAIN bytes : DamageByte(o) BY <2>3, WalDamage
  <2>4. CASE \E keep \in 0..Len(bytes) : OpenWal(keep) BY <2>4, WalOpen
  <2>5. CASE UNCHANGED walVars
    <3>1. bytes' = bytes /\ records' = records /\ appended' = appended BY <2>5 DEF walVars
    <3> QED BY <3>1 DEF WalInv
  <2> QED BY <2>1, <2>2, <2>3, <2>4, <2>5 DEF NextWal
<1>3. WalInv => LogIsReadWhole BY WalIsRead
<1> QED BY <1>1, <1>2, <1>3, PTL DEF SpecWal

=============================================================================
