--------------------------- MODULE OverflowProofs ---------------------------
(***************************************************************************)
(* overflow.db, for every size of page, slab and directory, every length   *)
(* of blob and any number of records and writes: records read back what    *)
(* they were given, and every page has one owner, a slot or the free list. *)
(*                                                                         *)
(* A state is explained by the set N of the pages in use, the holdings H   *)
(* that slots name (an entity, the page its slot names, its blob), and the *)
(* directory pages D of the free list with the pages En they name.  Each   *)
(* operation is a function on a space: what it does to N and H is one      *)
(* lemma per function, from take_free_page up to handle_slot_overflow.     *)
(***************************************************************************)
EXTENDS OverflowStore, FiniteSetTheorems, WellFoundedInduction, TLAPS

\* A set of naturals has a least member.
LEMMA LeastOf ==
  ASSUME NEW T, T \subseteq Nat, T # {}
  PROVE  \E x \in T : \A y \in T : x <= y
<1>1. \A x, y \in Nat : <<x, y>> \in OpToRel(<, Nat) <=> x < y BY DEF OpToRel
<1>2. \E x \in T : \A y \in T : ~ (<<y, x>> \in OpToRel(<, Nat)) BY NatLessThanWellFounded, WFMin
<1>3. PICK x \in T : \A y \in T : ~ (<<y, x>> \in OpToRel(<, Nat)) BY <1>2, Zenon
<1>4. \A y \in T : ~ (y < x) BY <1>1, <1>3, Zenon
<1> QED BY <1>4

\* Induction, with a set in the place of a predicate.
LEMMA EveryNatural ==
  ASSUME NEW S, 0 \in S, \A n \in Nat : n \in S => n + 1 \in S
  PROVE  \A n \in Nat : n \in S
<1> DEFINE T == { n \in Nat : n \notin S }
<1>1. SUFFICES ASSUME T # {} PROVE FALSE OBVIOUS
<1>2. PICK x \in T : \A y \in T : x <= y BY <1>1, LeastOf
<1>3. x # 0 /\ x \in Nat OBVIOUS
<1>4. x - 1 \in Nat /\ x - 1 \notin T BY <1>2, <1>3
<1> QED BY <1>3, <1>4

-----------------------------------------------------------------------------
(* The free list by itself: m directory pages D, the last one the head,    *)
(* with the pages En they name, and the spare page sp, of a file of top    *)
(* pages.                                                                  *)

AnySeq(q) == \E S : q \in Seq(S)

DirsAre(m, D, En, h, sp, top) ==
  /\ top \in Nat /\ m \in Nat /\ D \in [1..m -> 1..top] /\ En \in [1..m -> Seq(1..top)] /\ sp \in 0..top
  /\ h = IF m = 0 THEN None ELSE D[m]
  /\ \A i, k \in 1..m : D[i] = D[k] => i = k
OnceNamed(m, D, En, sp) ==
  /\ \A i, k \in 1..m : \A j \in 1..Len(En[i]), l \in 1..Len(En[k]) : En[i][j] = En[k][l] => i = k /\ j = l
  /\ \A i, k \in 1..m : \A j \in 1..Len(En[i]) : En[i][j] # sp /\ En[i][j] # D[k]
  /\ \A k \in 1..m : D[k] # sp
ListIs(m, D, En, h, sp, top) == DirsAre(m, D, En, h, sp, top) /\ OnceNamed(m, D, En, sp)

\* A sequence without its last member.
LEMMA FrontIs ==
  ASSUME NEW S, NEW q \in Seq(S), q # <<>>
  PROVE  Front(q) \in Seq(S) /\ Len(Front(q)) = Len(q) - 1 /\ \A j \in 1..Len(q) - 1 : Front(q)[j] = q[j]
<1>1. Len(q) \in Nat \ {0} OBVIOUS
<1>2. Len(q) - 1 \in 0..Len(q) BY <1>1
<1>3. SubSeq(q, 1, Len(q) - 1) \in Seq(S) BY <1>1, <1>2
<1> DEFINE n == Len(q) - 1
<1>a. n \in Nat /\ n <= Len(q) BY <1>1
<1> HIDE DEF n
<1>b. Len(SubSeq(q, 1, n)) = n /\ \A j \in 1..n : SubSeq(q, 1, n)[j] = q[j] BY <1>a
<1>4. Len(SubSeq(q, 1, Len(q) - 1)) = Len(q) - 1 BY <1>b DEF n
<1>5. \A j \in 1..Len(q) - 1 : SubSeq(q, 1, Len(q) - 1)[j] = q[j] BY <1>b DEF n
<1> QED BY <1>3, <1>4, <1>5 DEF Front

\* A sequence with one more member.
LEMMA AppendIs ==
  ASSUME NEW S, NEW q \in Seq(S), NEW x \in S
  PROVE  /\ Append(q, x) \in Seq(S) /\ Len(Append(q, x)) = Len(q) + 1 /\ Len(q) \in Nat
         /\ Append(q, x)[Len(q) + 1] = x /\ \A j \in 1..Len(q) : Append(q, x)[j] = q[j]
OBVIOUS

DirSet(m, D) == { D[i] : i \in 1..m }
NamedSet(m, En, sp, top) ==
  { p \in 1..top : p = sp \/ \E i \in 1..m : \E j \in 1..Len(En[i]) : p = En[i][j] }

\* A free list names no directory page.
LEMMA ListApart ==
  ASSUME NEW m, NEW D, NEW En, NEW h, NEW sp, NEW top, ListIs(m, D, En, h, sp, top)
  PROVE  /\ NamedSet(m, En, sp, top) \cap DirSet(m, D) = {}
         /\ NamedSet(m, En, sp, top) \subseteq 1..top /\ DirSet(m, D) \subseteq 1..top
         /\ IsFiniteSet(NamedSet(m, En, sp, top)) /\ IsFiniteSet(DirSet(m, D))
<1>1. NamedSet(m, En, sp, top) \cap DirSet(m, D) = {} BY DEF ListIs, DirsAre, OnceNamed, NamedSet, DirSet
<1>2. NamedSet(m, En, sp, top) \subseteq 1..top /\ DirSet(m, D) \subseteq 1..top BY DEF ListIs, DirsAre, NamedSet, DirSet
<1>3. IsFiniteSet(1..top) BY FS_Interval DEF ListIs, DirsAre
<1> QED BY <1>1, <1>2, <1>3, FS_Subset

\* Taking the spare page takes that page alone.
LEMMA TakeSpare ==
  ASSUME NEW m, NEW D, NEW En, NEW h, NEW sp, NEW top, ListIs(m, D, En, h, sp, top), sp # None
  PROVE  /\ ListIs(m, D, En, h, None, top) /\ sp \in NamedSet(m, En, sp, top)
         /\ NamedSet(m, En, None, top) = NamedSet(m, En, sp, top) \ {sp}
<1>1. DirsAre(m, D, En, h, None, top) BY DEF ListIs, DirsAre, None
<1>2. \A i \in 1..m : \A j \in 1..Len(En[i]) : En[i][j] # sp /\ En[i][j] \in 1..top /\ En[i][j] # None
  <2>1. OnceNamed(m, D, En, sp) /\ En \in [1..m -> Seq(1..top)] BY DEF ListIs, DirsAre
  <2> SUFFICES ASSUME NEW i \in 1..m, NEW j \in 1..Len(En[i])
               PROVE  En[i][j] # sp /\ En[i][j] \in 1..top /\ En[i][j] # None
    OBVIOUS
  <2>2. En[i] \in Seq(1..top) BY <2>1
  <2>3. En[i][j] \in 1..top
    <3> DEFINE q == En[i]
               S == 1..top
    <3>1. q \in Seq(S) /\ j \in 1..Len(q) BY <2>2
    <3> HIDE DEF q, S
    <3>2. q[j] \in S BY <3>1
    <3> QED BY <3>2 DEF q, S
  <2>4. En[i][j] # None BY <2>3 DEF ListIs, DirsAre, None
  <2>5. En[i][j] # sp BY <2>1 DEF OnceNamed
  <2> QED BY <2>3, <2>4, <2>5
<1>3. \A k \in 1..m : D[k] # None BY DEF ListIs, DirsAre, None
<1>4. OnceNamed(m, D, En, None) BY <1>2, <1>3 DEF ListIs, OnceNamed
<1>5. sp \in 1..top BY DEF ListIs, DirsAre, None
<1>6. None \notin 1..top BY DEF None
<1> QED BY <1>1, <1>2, <1>4, <1>5, <1>6 DEF ListIs, NamedSet

\* Taking the last entry of the head takes the page it names alone.
LEMMA TakeEntry ==
  ASSUME NEW m, NEW D, NEW En, NEW h, NEW sp, NEW top, ListIs(m, D, En, h, sp, top), m # 0, En[m] # <<>>,
         NEW En2, En2 = [i \in 1..m |-> IF i = m THEN Front(En[m]) ELSE En[i]]
  PROVE  /\ ListIs(m, D, En2, h, sp, top) /\ Last(En[m]) \in NamedSet(m, En, sp, top)
         /\ NamedSet(m, En2, sp, top) = NamedSet(m, En, sp, top) \ {Last(En[m])}
<1> DEFINE n == Len(En[m])
           x == En[m][n]
<1>0. m \in 1..m /\ top \in Nat /\ m \in Nat /\ En \in [1..m -> Seq(1..top)] BY DEF ListIs, DirsAre
<1>1. En[m] \in Seq(1..top) /\ n \in Nat \ {0} /\ Last(En[m]) = x BY <1>0 DEF Last
<1>2. /\ Front(En[m]) \in Seq(1..top) /\ Len(Front(En[m])) = n - 1
      /\ \A j \in 1..n - 1 : Front(En[m])[j] = En[m][j]
  BY <1>1, FrontIs
<1>3. /\ En2 \in [1..m -> Seq(1..top)] /\ Len(En2[m]) = n - 1 /\ \A j \in 1..n - 1 : En2[m][j] = En[m][j]
      /\ \A i \in 1..m : i # m => En2[i] = En[i]
  BY <1>0, <1>1, <1>2
<1>4. \A i \in 1..m : /\ Len(En2[i]) \in Nat /\ Len(En[i]) \in Nat /\ Len(En2[i]) <= Len(En[i])
                      /\ \A j \in 1..Len(En2[i]) : En2[i][j] = En[i][j]
  <2> SUFFICES ASSUME NEW i \in 1..m
               PROVE  /\ Len(En2[i]) \in Nat /\ Len(En[i]) \in Nat /\ Len(En2[i]) <= Len(En[i])
                      /\ \A j \in 1..Len(En2[i]) : En2[i][j] = En[i][j]
    OBVIOUS
  <2>1. En[i] \in Seq(1..top) BY <1>0
  <2>2. Len(En[i]) \in Nat BY <2>1
  <2>3. CASE i = m BY <2>3, <1>1, <1>3
  <2>4. CASE i # m BY <2>4, <2>2, <1>3
  <2> QED BY <2>3, <2>4
<1>5. \A i \in 1..m : \A j \in 1..Len(En[i]) : (j \notin 1..Len(En2[i])) => (i = m /\ j = n)
  BY <1>0, <1>1, <1>3, <1>4
<1>6. ListIs(m, D, En2, h, sp, top)
  <2>1. DirsAre(m, D, En2, h, sp, top) BY <1>3 DEF ListIs, DirsAre
  <2>2. \A i \in 1..m : \A j \in 1..Len(En2[i]) : j \in 1..Len(En[i]) /\ En2[i][j] = En[i][j] BY <1>4
  <2>3. OnceNamed(m, D, En, sp) BY DEF ListIs
  <2>4. \A i, k \in 1..m : \A j \in 1..Len(En2[i]), l \in 1..Len(En2[k]) : En2[i][j] = En2[k][l] => i = k /\ j = l
    BY <2>2, <2>3 DEF OnceNamed
  <2>5. OnceNamed(m, D, En2, sp) BY <2>2, <2>3, <2>4 DEF OnceNamed
  <2> QED BY <2>1, <2>5 DEF ListIs
<1>7. x \in NamedSet(m, En, sp, top) BY <1>0, <1>1 DEF NamedSet, ListIs
<1>8. ASSUME NEW p \in 1..top
      PROVE  p \in NamedSet(m, En2, sp, top) <=> p \in NamedSet(m, En, sp, top) /\ p # x
  <2>1. ASSUME NEW i \in 1..m, NEW j \in 1..Len(En2[i]) PROVE j \in 1..Len(En[i]) /\ En2[i][j] = En[i][j] /\ En[i][j] # x
    <3>1. j \in 1..Len(En[i]) /\ En2[i][j] = En[i][j] BY <1>4, <2>1
    <3>2. i = m => j < n BY <1>1, <1>3, <2>1
    <3> QED BY <3>1, <3>2, <1>0, <1>1 DEF ListIs, OnceNamed
  <2>2. x # sp BY <1>0, <1>1 DEF ListIs, OnceNamed
  <2>3. ASSUME p \in NamedSet(m, En2, sp, top) PROVE p \in NamedSet(m, En, sp, top) /\ p # x
    BY <2>1, <2>2, <2>3 DEF NamedSet
  <2>4. ASSUME p \in NamedSet(m, En, sp, top), p # x PROVE p \in NamedSet(m, En2, sp, top)
    <3>1. CASE p = sp BY <3>1 DEF NamedSet
    <3>2. CASE \E i \in 1..m : \E j \in 1..Len(En[i]) : p = En[i][j]
      <4>0. PICK i \in 1..m : \E j \in 1..Len(En[i]) : p = En[i][j] BY <3>2
      <4>1. PICK j \in 1..Len(En[i]) : p = En[i][j] BY <4>0
      <4>2. j \in 1..Len(En2[i]) BY <1>5, <4>1, <2>4
      <4> QED BY <4>1, <4>2, <1>4 DEF NamedSet
    <3> QED BY <2>4, <3>1, <3>2 DEF NamedSet
  <2> QED BY <2>3, <2>4
<1>9. NamedSet(m, En2, sp, top) = NamedSet(m, En, sp, top) \ {x}
  <2>1. NamedSet(m, En2, sp, top) \subseteq 1..top /\ NamedSet(m, En, sp, top) \subseteq 1..top BY DEF NamedSet
  <2> QED BY <2>1, <1>8
<1> QED BY <1>1, <1>6, <1>7, <1>9

\* The list without its head.
Shortened(m, D, En, top, D2, En2, g) ==
  /\ D2 \in [1..m - 1 -> 1..top] /\ En2 \in [1..m - 1 -> Seq(1..top)]
  /\ \A i \in 1..m - 1 : D2[i] = D[i] /\ En2[i] = En[i]
  /\ g = IF m = 1 THEN None ELSE D[m - 1]

\* Taking an empty head takes that directory page alone.
LEMMA TakeDir ==
  ASSUME NEW m, NEW D, NEW En, NEW h, NEW sp, NEW top, ListIs(m, D, En, h, sp, top), m # 0, En[m] = <<>>,
         NEW D2, NEW En2, NEW g, Shortened(m, D, En, top, D2, En2, g)
  PROVE  /\ ListIs(m - 1, D2, En2, g, sp, top) /\ h = D[m] /\ h \in 1..top
         /\ NamedSet(m - 1, En2, sp, top) = NamedSet(m, En, sp, top)
         /\ DirSet(m - 1, D2) = DirSet(m, D) \ {h} /\ h \in DirSet(m, D)
<1>a. m \in Nat \ {0} /\ top \in Nat /\ h = D[m] BY DEF ListIs, DirsAre
<1>0. m \in Nat \ {0} /\ top \in Nat /\ m - 1 \in Nat /\ h = D[m] /\ m \in 1..m /\ 1..m = (1..m - 1) \cup {m} BY <1>a
<1>1. D2 \in [1..m - 1 -> 1..top] /\ En2 \in [1..m - 1 -> Seq(1..top)] /\ D[m] \in 1..top BY <1>0 DEF ListIs, DirsAre, Shortened
<1>2. \A i \in 1..m - 1 : i \in 1..m /\ D2[i] = D[i] /\ En2[i] = En[i] BY <1>0 DEF Shortened
<1>3. ListIs(m - 1, D2, En2, g, sp, top)
  <2>a. sp \in 0..top /\ \A i, k \in 1..m : D[i] = D[k] => i = k BY DEF ListIs, DirsAre
  <2>b. \A i, k \in 1..m - 1 : D2[i] = D2[k] => i = k BY <2>a, <1>2
  <2>h. g = IF m = 1 THEN None ELSE D[m - 1] BY DEF Shortened
  <2>c. g = IF m - 1 = 0 THEN None ELSE D2[m - 1]
    <3>1. CASE m = 1 BY <3>1, <2>h
    <3>2. CASE m # 1
      <4>1. m - 1 \in 1..m - 1 /\ m - 1 # 0 BY <3>2, <1>0
      <4> QED BY <4>1, <3>2, <1>2, <2>h
    <3> QED BY <3>1, <3>2
  <2>1. DirsAre(m - 1, D2, En2, g, sp, top) BY <1>0, <1>1, <2>a, <2>b, <2>c DEF DirsAre
  <2>d. OnceNamed(m, D, En, sp) BY DEF ListIs
  <2>e. \A i, k \in 1..m - 1 : \A j \in 1..Len(En2[i]), l \in 1..Len(En2[k]) : En2[i][j] = En2[k][l] => i = k /\ j = l
    BY <1>2, <2>d DEF OnceNamed
  <2>f. \A i, k \in 1..m - 1 : \A j \in 1..Len(En2[i]) : En2[i][j] # sp /\ En2[i][j] # D2[k] BY <1>2, <2>d DEF OnceNamed
  <2>g. \A k \in 1..m - 1 : D2[k] # sp BY <1>2, <2>d DEF OnceNamed
  <2>2. OnceNamed(m - 1, D2, En2, sp) BY <2>e, <2>f, <2>g DEF OnceNamed
  <2> QED BY <2>1, <2>2 DEF ListIs
<1>4. 1..Len(En[m]) = {} OBVIOUS
<1>5. NamedSet(m - 1, En2, sp, top) = NamedSet(m, En, sp, top)
  <2>1. ASSUME NEW q \in 1..top, NEW i \in 1..m, NEW j \in 1..Len(En[i]), q = En[i][j]
        PROVE  q \in NamedSet(m - 1, En2, sp, top)
    <3>1. i \in 1..m - 1 /\ En2[i] = En[i] BY <1>0, <1>2, <1>4, <2>1
    <3> QED BY <2>1, <3>1 DEF NamedSet
  <2>2. NamedSet(m, En, sp, top) \subseteq NamedSet(m - 1, En2, sp, top) BY <2>1 DEF NamedSet
  <2>3. ASSUME NEW q \in 1..top, NEW i \in 1..m - 1, NEW j \in 1..Len(En2[i]), q = En2[i][j]
        PROVE  q \in NamedSet(m, En, sp, top)
    <3>1. i \in 1..m /\ En2[i] = En[i] BY <1>2
    <3> QED BY <2>3, <3>1 DEF NamedSet
  <2>4. NamedSet(m - 1, En2, sp, top) \subseteq NamedSet(m, En, sp, top) BY <2>3 DEF NamedSet
  <2> QED BY <2>2, <2>4
<1>6. \A i \in 1..m - 1 : D[i] # D[m] BY <1>0 DEF ListIs, DirsAre
<1>7. DirSet(m - 1, D2) = DirSet(m, D) \ {h} /\ h \in DirSet(m, D)
  <2>1. ASSUME NEW i \in 1..m - 1 PROVE D2[i] \in DirSet(m, D) \ {h} BY <1>0, <1>2, <1>6 DEF DirSet
  <2>2. ASSUME NEW i \in 1..m, D[i] # h PROVE D[i] \in DirSet(m - 1, D2)
    <3>1. i \in 1..m - 1 BY <1>0, <2>2
    <3> QED BY <1>2, <3>1 DEF DirSet
  <2>3. DirSet(m - 1, D2) \subseteq DirSet(m, D) \ {h} BY <2>1 DEF DirSet
  <2>4. DirSet(m, D) \ {h} \subseteq DirSet(m - 1, D2) BY <2>2 DEF DirSet
  <2> QED BY <1>0, <2>3, <2>4 DEF DirSet
<1> QED BY <1>0, <1>1, <1>3, <1>5, <1>7

\* A page given back to the empty spare place joins the list.
LEMMA GiveSpare ==
  ASSUME NEW m, NEW D, NEW En, NEW h, NEW top, ListIs(m, D, En, h, None, top), NEW p \in 1..top,
         p \notin NamedSet(m, En, None, top), p \notin DirSet(m, D)
  PROVE  ListIs(m, D, En, h, p, top) /\ NamedSet(m, En, p, top) = NamedSet(m, En, None, top) \cup {p}
<1>1. DirsAre(m, D, En, h, p, top) BY DEF ListIs, DirsAre
<1>2. \A i \in 1..m : \A j \in 1..Len(En[i]) : En[i][j] # p BY DEF ListIs, DirsAre, NamedSet
<1>3. \A i \in 1..m : D[i] # p BY DEF DirSet
<1>4. OnceNamed(m, D, En, p) BY <1>2, <1>3 DEF ListIs, OnceNamed
<1>5. None \notin 1..top BY DEF None
<1> QED BY <1>1, <1>4, <1>5 DEF ListIs, NamedSet

\* A page given back to the head joins the list.
LEMMA GiveEntry ==
  ASSUME NEW m, NEW D, NEW En, NEW h, NEW sp, NEW top, ListIs(m, D, En, h, sp, top), m # 0, NEW p \in 1..top,
         p \notin NamedSet(m, En, sp, top), p \notin DirSet(m, D),
         NEW En2, En2 = [i \in 1..m |-> IF i = m THEN Append(En[m], p) ELSE En[i]]
  PROVE  ListIs(m, D, En2, h, sp, top) /\ NamedSet(m, En2, sp, top) = NamedSet(m, En, sp, top) \cup {p}
<1> DEFINE n == Len(En[m])
<1>0. m \in 1..m /\ top \in Nat /\ m \in Nat /\ En \in [1..m -> Seq(1..top)] BY DEF ListIs, DirsAre
<1>1. En[m] \in Seq(1..top) /\ n \in Nat BY <1>0
<1>2. /\ Append(En[m], p) \in Seq(1..top) /\ Len(Append(En[m], p)) = n + 1
      /\ \A j \in 1..n : Append(En[m], p)[j] = En[m][j]
      /\ Append(En[m], p)[n + 1] = p
  BY <1>1
<1>3. /\ En2 \in [1..m -> Seq(1..top)] /\ Len(En2[m]) = n + 1 /\ \A j \in 1..n : En2[m][j] = En[m][j]
      /\ En2[m][n + 1] = p /\ \A i \in 1..m : i # m => En2[i] = En[i]
  BY <1>0, <1>1, <1>2
<1>4. \A i \in 1..m : Len(En[i]) \in Nat BY <1>0
<1>5. \A i \in 1..m : \A j \in 1..Len(En2[i]) :
        (j \in 1..Len(En[i]) /\ En2[i][j] = En[i][j]) \/ (i = m /\ j = n + 1 /\ En2[i][j] = p)
  <2> SUFFICES ASSUME NEW i \in 1..m, NEW j \in 1..Len(En2[i])
               PROVE  (j \in 1..Len(En[i]) /\ En2[i][j] = En[i][j]) \/ (i = m /\ j = n + 1 /\ En2[i][j] = p)
    OBVIOUS
  <2>1. CASE i = m BY <2>1, <1>1, <1>3
  <2>2. CASE i # m BY <2>2, <1>3
  <2> QED BY <2>1, <2>2
<1>6. \A i \in 1..m : \A j \in 1..Len(En[i]) : En[i][j] # p /\ j \in 1..Len(En2[i]) /\ En2[i][j] = En[i][j]
  <2>1. \A i \in 1..m : \A j \in 1..Len(En[i]) : En[i][j] # p BY DEF NamedSet
  <2> SUFFICES ASSUME NEW i \in 1..m, NEW j \in 1..Len(En[i]) PROVE j \in 1..Len(En2[i]) /\ En2[i][j] = En[i][j]
    BY <2>1
  <2>2. CASE i = m BY <2>2, <1>1, <1>3
  <2>3. CASE i # m BY <2>3, <1>3
  <2> QED BY <2>2, <2>3
<1>7. p # sp /\ \A k \in 1..m : D[k] # p BY DEF NamedSet, DirSet
<1>8. ListIs(m, D, En2, h, sp, top)
  <2>1. DirsAre(m, D, En2, h, sp, top) BY <1>3 DEF ListIs, DirsAre
  <2>2. OnceNamed(m, D, En, sp) BY DEF ListIs
  <2>a. \A i, k \in 1..m : \A j \in 1..Len(En[i]), l \in 1..Len(En[k]) : En[i][j] = En[k][l] => i = k /\ j = l
    BY <2>2 DEF OnceNamed
  <2>3. \A i, k \in 1..m : \A j \in 1..Len(En2[i]), l \in 1..Len(En2[k]) : En2[i][j] = En2[k][l] => i = k /\ j = l
    <3> SUFFICES ASSUME NEW i \in 1..m, NEW k \in 1..m, NEW j \in 1..Len(En2[i]), NEW l \in 1..Len(En2[k]), En2[i][j] = En2[k][l]
                 PROVE  i = k /\ j = l
      OBVIOUS
    <3>1. CASE j \in 1..Len(En[i]) /\ En2[i][j] = En[i][j] /\ l \in 1..Len(En[k]) /\ En2[k][l] = En[k][l]
      <4>1. En[i][j] = En[k][l] BY <3>1
      <4>2. j \in 1..Len(En[i]) /\ l \in 1..Len(En[k]) BY <3>1
      <4> HIDE <3>1
      <4>3. \A j1 \in 1..Len(En[i]), l1 \in 1..Len(En[k]) : En[i][j1] = En[k][l1] => i = k /\ j1 = l1 BY <2>a, Zenon
      <4> QED BY <4>1, <4>2, <4>3, Zenon
    <3>2. CASE i = m /\ j = n + 1 /\ En2[i][j] = p /\ l \in 1..Len(En[k]) /\ En2[k][l] = En[k][l] BY <3>2, <1>6
    <3>3. CASE k = m /\ l = n + 1 /\ En2[k][l] = p /\ j \in 1..Len(En[i]) /\ En2[i][j] = En[i][j] BY <3>3, <1>6
    <3>4. CASE i = m /\ j = n + 1 /\ k = m /\ l = n + 1 BY <3>4
    <3> QED BY <1>5, <3>1, <3>2, <3>3, <3>4
  <2>4. \A i, k \in 1..m : \A j \in 1..Len(En2[i]) : En2[i][j] # sp /\ En2[i][j] # D[k]
    <3> SUFFICES ASSUME NEW i \in 1..m, NEW k \in 1..m, NEW j \in 1..Len(En2[i]) PROVE En2[i][j] # sp /\ En2[i][j] # D[k]
      OBVIOUS
    <3>1. CASE j \in 1..Len(En[i]) /\ En2[i][j] = En[i][j] BY <3>1, <2>2 DEF OnceNamed
    <3>2. CASE En2[i][j] = p BY <3>2, <1>7
    <3> QED BY <1>5, <3>1, <3>2
  <2>5. OnceNamed(m, D, En2, sp) BY <2>2, <2>3, <2>4 DEF OnceNamed
  <2> QED BY <2>1, <2>5 DEF ListIs
<1>9. p \in NamedSet(m, En2, sp, top)
  <2>1. n + 1 \in 1..Len(En2[m]) BY <1>1, <1>3
  <2> QED BY <2>1, <1>0, <1>3 DEF NamedSet
<1>10. NamedSet(m, En2, sp, top) = NamedSet(m, En, sp, top) \cup {p}
  <2>1. ASSUME NEW q \in 1..top, NEW i \in 1..m, NEW j \in 1..Len(En2[i]), q = En2[i][j]
        PROVE  q \in NamedSet(m, En, sp, top) \/ q = p
    BY <1>5, <2>1 DEF NamedSet
  <2>2. NamedSet(m, En2, sp, top) \subseteq NamedSet(m, En, sp, top) \cup {p} BY <2>1 DEF NamedSet
  <2>3. ASSUME NEW q \in 1..top, NEW i \in 1..m, NEW j \in 1..Len(En[i]), q = En[i][j]
        PROVE  q \in NamedSet(m, En2, sp, top)
    BY <1>6, <2>3 DEF NamedSet
  <2>4. NamedSet(m, En, sp, top) \subseteq NamedSet(m, En2, sp, top) BY <2>3 DEF NamedSet
  <2> QED BY <1>9, <2>2, <2>4
<1> QED BY <1>8, <1>10

\* A page given back as a new head joins the list.
LEMMA GiveDir ==
  ASSUME NEW m, NEW D, NEW En, NEW h, NEW sp, NEW top, ListIs(m, D, En, h, sp, top), NEW p \in 1..top,
         p \notin NamedSet(m, En, sp, top), p \notin DirSet(m, D),
         NEW D2, D2 = [i \in 1..m + 1 |-> IF i = m + 1 THEN p ELSE D[i]],
         NEW En2, En2 = [i \in 1..m + 1 |-> IF i = m + 1 THEN <<>> ELSE En[i]]
  PROVE  /\ ListIs(m + 1, D2, En2, p, sp, top)
         /\ NamedSet(m + 1, En2, sp, top) = NamedSet(m, En, sp, top)
         /\ DirSet(m + 1, D2) = DirSet(m, D) \cup {p}
<1>0. m \in Nat /\ top \in Nat /\ m + 1 \in Nat /\ m + 1 # 0 /\ 1..m + 1 = (1..m) \cup {m + 1} /\ m + 1 \notin 1..m BY DEF ListIs, DirsAre
<1>a. D \in [1..m -> 1..top] /\ En \in [1..m -> Seq(1..top)] /\ <<>> \in Seq(1..top) BY DEF ListIs, DirsAre
<1>b. D2 \in [1..m + 1 -> 1..top] BY <1>0, <1>a
<1>c. En2 \in [1..m + 1 -> Seq(1..top)] BY <1>0, <1>a
<1>1. D2 \in [1..m + 1 -> 1..top] /\ En2 \in [1..m + 1 -> Seq(1..top)] BY <1>b, <1>c
<1>2. /\ \A i \in 1..m : i \in 1..m + 1 /\ D2[i] = D[i] /\ En2[i] = En[i]
      /\ D2[m + 1] = p /\ En2[m + 1] = <<>> /\ m + 1 \in 1..m + 1
  BY <1>0
<1>3. \A i \in 1..m : D[i] # p BY DEF DirSet
<1>4. p # sp /\ \A i \in 1..m : \A j \in 1..Len(En[i]) : En[i][j] # p BY DEF NamedSet
<1>5. 1..Len(En2[m + 1]) = {} BY <1>2
<1>6. ListIs(m + 1, D2, En2, p, sp, top)
  <2>1. \A i, k \in 1..m + 1 : D2[i] = D2[k] => i = k BY <1>0, <1>2, <1>3 DEF ListIs, DirsAre
  <2>2. DirsAre(m + 1, D2, En2, p, sp, top) BY <2>1, <1>0, <1>1, <1>2 DEF ListIs, DirsAre
  <2>3. OnceNamed(m + 1, D2, En2, sp)
    <3>a. OnceNamed(m, D, En, sp) BY DEF ListIs
    <3>b. \A i \in 1..m + 1 : \A j \in 1..Len(En2[i]) : i \in 1..m /\ j \in 1..Len(En[i]) /\ En2[i][j] = En[i][j] /\ En2[i] = En[i]
      BY <1>0, <1>2, <1>5
    <3>1. \A i, k \in 1..m + 1 : \A j \in 1..Len(En2[i]), l \in 1..Len(En2[k]) : En2[i][j] = En2[k][l] => i = k /\ j = l
      BY <3>a, <3>b DEF OnceNamed
    <3>2. \A i, k \in 1..m + 1 : \A j \in 1..Len(En2[i]) : En2[i][j] # sp /\ En2[i][j] # D2[k]
      <4>1. \A i \in 1..m + 1 : \A j \in 1..Len(En2[i]) : En2[i][j] # sp /\ En2[i][j] # p /\ \A k \in 1..m : En2[i][j] # D[k]
        BY <3>a, <3>b, <1>4 DEF OnceNamed
      <4> QED BY <4>1, <1>0, <1>2
    <3>3. \A k \in 1..m + 1 : D2[k] # sp BY <1>0, <1>2, <1>4 DEF ListIs, OnceNamed
    <3> QED BY <3>1, <3>2, <3>3 DEF OnceNamed
  <2> QED BY <2>2, <2>3 DEF ListIs
<1>7. NamedSet(m + 1, En2, sp, top) = NamedSet(m, En, sp, top)
  <2>1. ASSUME NEW q \in 1..top, NEW i \in 1..m + 1, NEW j \in 1..Len(En2[i]), q = En2[i][j]
        PROVE  q \in NamedSet(m, En, sp, top)
    <3>1. i \in 1..m /\ En2[i] = En[i] BY <1>0, <1>2, <1>5, <2>1
    <3> QED BY <2>1, <3>1 DEF NamedSet
  <2>2. NamedSet(m + 1, En2, sp, top) \subseteq NamedSet(m, En, sp, top) BY <2>1 DEF NamedSet
  <2>3. ASSUME NEW q \in 1..top, NEW i \in 1..m, NEW j \in 1..Len(En[i]), q = En[i][j]
        PROVE  q \in NamedSet(m + 1, En2, sp, top)
    BY <1>2, <2>3 DEF NamedSet
  <2>4. NamedSet(m, En, sp, top) \subseteq NamedSet(m + 1, En2, sp, top) BY <2>3 DEF NamedSet
  <2> QED BY <2>2, <2>4
<1>8. DirSet(m + 1, D2) = DirSet(m, D) \cup {p} BY <1>0, <1>2 DEF DirSet
<1> QED BY <1>6, <1>7, <1>8

\* A longer file keeps its free list.
LEMMA ListGrows ==
  ASSUME NEW m, NEW D, NEW En, NEW h, NEW sp, NEW top, ListIs(m, D, En, h, sp, top)
  PROVE  ListIs(m, D, En, h, sp, top + 1) /\ NamedSet(m, En, sp, top + 1) = NamedSet(m, En, sp, top)
<1>0. top \in Nat /\ 1..top \subseteq 1..top + 1 /\ m \in Nat BY DEF ListIs, DirsAre
<1>1. En \in [1..m -> Seq(1..top + 1)] BY <1>0 DEF ListIs, DirsAre
<1>2. DirsAre(m, D, En, h, sp, top + 1) BY <1>0, <1>1 DEF ListIs, DirsAre
<1>3. \A i \in 1..m : \A j \in 1..Len(En[i]) : En[i][j] \in 1..top BY DEF ListIs, DirsAre
<1>4. NamedSet(m, En, sp, top + 1) = NamedSet(m, En, sp, top) BY <1>0, <1>3 DEF NamedSet, ListIs, DirsAre
<1> QED BY <1>2, <1>4 DEF ListIs

-----------------------------------------------------------------------------
(* A space: the pages in use are N, all others are in the free list.       *)

SpaceFields == {"page", "head", "spare", "count", "open", "log"}
IsSpace(s) == s = [k \in SpaceFields |-> s[k]]

HoldsDirs(pages, m, D, En) ==
  \A i \in 1..m : pages[D[i]] = [kind |-> "dir", next |-> IF i = 1 THEN None ELSE D[i - 1], entries |-> En[i]]
\* A slab page that is free has no live blob.
NoneLive(pages, F) == \A p \in F : pages[p].kind = "slab" => LiveEntries(pages[p].dirs) = {}

FreeIs(s, F, m, D, En) ==
  /\ ListIs(m, D, En, s.head, s.spare, Len(s.page)) /\ HoldsDirs(s.page, m, D, En)
  /\ F = NamedSet(m, En, s.spare, Len(s.page)) \cup DirSet(m, D)
  /\ s.count = Cardinality(NamedSet(m, En, s.spare, Len(s.page)))
  /\ NoneLive(s.page, F)
SpaceIs(s, N) ==
  /\ IsSpace(s) /\ AnySeq(s.page) /\ N \subseteq 1..Len(s.page)
  /\ \E m, D, En : FreeIs(s, (1..Len(s.page)) \ N, m, D, En)
Agree(s, t, N) == t.open = s.open /\ \A p \in N : t.page[p] = s.page[p]

\* A write changes one page.
LEMMA PageWritten ==
  ASSUME NEW q, AnySeq(q), NEW p \in 1..Len(q), NEW x
  PROVE  LET r == [q EXCEPT ![p] = x]
         IN /\ AnySeq(r) /\ Len(r) = Len(q) /\ Len(q) \in Nat /\ r[p] = x
            /\ \A k \in 1..Len(q) : k # p => r[k] = q[k]
<1>1. PICK S : q \in Seq(S) BY DEF AnySeq
<1>2. q \in Seq(S \cup {x}) BY <1>1
<1> DEFINE r == [q EXCEPT ![p] = x]
<1>3. r \in Seq(S \cup {x}) /\ Len(r) = Len(q) BY <1>2
<1>4. Len(q) \in Nat /\ DOMAIN q = 1..Len(q) BY <1>1
<1>5. r[p] = x /\ \A k \in 1..Len(q) : k # p => r[k] = q[k] BY <1>4
<1> QED BY <1>3, <1>4, <1>5 DEF AnySeq

\* A new page changes no other.
LEMMA PageAdded ==
  ASSUME NEW q, AnySeq(q), NEW x
  PROVE  LET r == Append(q, x)
         IN /\ AnySeq(r) /\ Len(r) = Len(q) + 1 /\ Len(q) \in Nat /\ r[Len(q) + 1] = x
            /\ \A k \in 1..Len(q) : r[k] = q[k]
<1>1. PICK S : q \in Seq(S) BY DEF AnySeq
<1>2. q \in Seq(S \cup {x}) /\ x \in S \cup {x} BY <1>1
<1> QED BY <1>2, AppendIs DEF AnySeq

\* Logging the free list changes neither it nor a page.
LEMMA JournalIs ==
  ASSUME NEW s, IsSpace(s)
  PROVE  LET t == Journal(s)
         IN /\ IsSpace(t) /\ t.page = s.page /\ t.head = s.head /\ t.spare = s.spare
            /\ t.count = s.count /\ t.open = s.open
BY DEF IsSpace, SpaceFields, Journal

\* Writing a page changes that page and the log only.
LEMMA WritePageIs ==
  ASSUME NEW s, IsSpace(s), NEW p, NEW x
  PROVE  LET t == WritePage(s, p, x)
         IN /\ IsSpace(t) /\ t.page = [s.page EXCEPT ![p] = x] /\ t.head = s.head /\ t.spare = s.spare
            /\ t.count = s.count /\ t.open = s.open
BY DEF IsSpace, SpaceFields, WritePage

\* A page in use may be written at will.
LEMMA UsedChanges ==
  ASSUME NEW s, NEW N, SpaceIs(s, N), NEW t, IsSpace(t), NEW p \in N,
         AnySeq(t.page), Len(t.page) = Len(s.page), \A q \in 1..Len(s.page) : q # p => t.page[q] = s.page[q],
         t.head = s.head, t.spare = s.spare, t.count = s.count
  PROVE  SpaceIs(t, N)
<1>1. AnySeq(s.page) /\ p \in 1..Len(s.page) /\ N \subseteq 1..Len(s.page) BY DEF SpaceIs
<1>3. PICK m, D, En : FreeIs(s, (1..Len(s.page)) \ N, m, D, En) BY DEF SpaceIs
<1> DEFINE F == (1..Len(s.page)) \ N
<1>4. \A k \in F : t.page[k] = s.page[k] OBVIOUS
<1>5. DirSet(m, D) \subseteq F BY <1>3 DEF FreeIs
<1>6. HoldsDirs(t.page, m, D, En)
  <2>1. \A i \in 1..m : D[i] \in F BY <1>5 DEF DirSet
  <2> QED BY <1>3, <1>4, <2>1 DEF FreeIs, HoldsDirs
<1>7. NoneLive(t.page, F) BY <1>3, <1>4 DEF FreeIs, NoneLive
<1>8. FreeIs(t, F, m, D, En) BY <1>3, <1>6, <1>7 DEF FreeIs
<1> QED BY <1>1, <1>8 DEF SpaceIs

\* WritePage on a page in use.
LEMMA WriteUsed ==
  ASSUME NEW s, NEW N, SpaceIs(s, N), NEW p \in N, NEW x
  PROVE  LET t == WritePage(s, p, x)
         IN /\ SpaceIs(t, N) /\ Len(t.page) = Len(s.page) /\ t.page[p] = x /\ t.open = s.open
            /\ \A q \in 1..Len(s.page) : q # p => t.page[q] = s.page[q]
<1>1. IsSpace(s) /\ AnySeq(s.page) /\ p \in 1..Len(s.page) BY DEF SpaceIs
<1> DEFINE t == WritePage(s, p, x)
<1>2. IsSpace(t) /\ t.page = [s.page EXCEPT ![p] = x] /\ t.head = s.head /\ t.spare = s.spare /\ t.count = s.count /\ t.open = s.open
  BY <1>1, WritePageIs
<1> HIDE DEF t
<1>3. /\ AnySeq(t.page) /\ Len(t.page) = Len(s.page) /\ t.page[p] = x
      /\ \A q \in 1..Len(s.page) : q # p => t.page[q] = s.page[q]
  BY <1>1, <1>2, PageWritten
<1>4. SpaceIs(t, N) BY <1>2, <1>3, UsedChanges
<1> QED BY <1>2, <1>3, <1>4 DEF t

\* WritePage on any page.
LEMMA Written ==
  ASSUME NEW s, IsSpace(s), AnySeq(s.page), NEW p \in 1..Len(s.page), NEW x
  PROVE  LET t == WritePage(s, p, x)
         IN /\ IsSpace(t) /\ t.head = s.head /\ t.spare = s.spare /\ t.count = s.count /\ t.open = s.open
            /\ AnySeq(t.page) /\ Len(t.page) = Len(s.page) /\ t.page[p] = x
            /\ \A q \in 1..Len(s.page) : q # p => t.page[q] = s.page[q]
<1> DEFINE t == WritePage(s, p, x)
<1>1. /\ IsSpace(t) /\ t.page = [s.page EXCEPT ![p] = x] /\ t.head = s.head /\ t.spare = s.spare
      /\ t.count = s.count /\ t.open = s.open
  BY WritePageIs
<1> HIDE DEF t
<1>2. /\ AnySeq(t.page) /\ Len(t.page) = Len(s.page) /\ t.page[p] = x
      /\ \A q \in 1..Len(s.page) : q # p => t.page[q] = s.page[q]
  BY <1>1, PageWritten
<1> QED BY <1>1, <1>2 DEF t

\* A set with one member less.
LEMMA LessOne ==
  ASSUME NEW S, IsFiniteSet(S), NEW x \in S
  PROVE  Cardinality(S) \in Nat \ {0} /\ Cardinality(S \ {x}) = Cardinality(S) - 1 /\ IsFiniteSet(S \ {x})
<1>1. Cardinality(S) \in Nat BY FS_CardinalityType
<1>2. Cardinality(S) # 0 BY FS_EmptySet
<1> QED BY <1>1, <1>2, FS_RemoveElement

\* A set with one member more.
LEMMA MoreOne ==
  ASSUME NEW S, IsFiniteSet(S), NEW x, x \notin S
  PROVE  Cardinality(S) \in Nat /\ Cardinality(S \cup {x}) = Cardinality(S) + 1 /\ IsFiniteSet(S \cup {x})
BY FS_CardinalityType, FS_AddElement

\* The head is the last directory page, if there is one.
LEMMA HeadIs ==
  ASSUME NEW s, NEW F, NEW m, NEW D, NEW En, FreeIs(s, F, m, D, En)
  PROVE  /\ s.head # None <=> m # 0
         /\ s.head # None => /\ m \in Nat \ {0} /\ m \in 1..m /\ s.head = D[m] /\ s.head \in DirSet(m, D)
                             /\ s.page[s.head] = [kind |-> "dir", next |-> IF m = 1 THEN None ELSE D[m - 1], entries |-> En[m]]
<1>1. m \in Nat /\ D \in [1..m -> 1..Len(s.page)] /\ s.head = IF m = 0 THEN None ELSE D[m] BY DEF FreeIs, ListIs, DirsAre
<1>2. CASE m = 0 BY <1>1, <1>2
<1>3. CASE m # 0
  <2>1. m \in Nat \ {0} /\ m \in 1..m /\ D[m] \in 1..Len(s.page) BY <1>1, <1>3
  <2>2. s.head = D[m] /\ s.head # None BY <1>1, <1>3, <2>1 DEF None
  <2>3. s.page[D[m]] = [kind |-> "dir", next |-> IF m = 1 THEN None ELSE D[m - 1], entries |-> En[m]]
    BY <2>1 DEF FreeIs, HoldsDirs
  <2> QED BY <1>3, <2>1, <2>2, <2>3 DEF DirSet
<1> QED BY <1>2, <1>3

\* take_free_page takes one free page, or there is none.
LEMMA TakeIs ==
  ASSUME NEW s, NEW N, SpaceIs(s, N)
  PROVE  LET r == TakeFreePage(s)
         IN /\ r = [s |-> r.s, page |-> r.page]
            /\ \/ r.page = None /\ r.s = s
               \/ /\ r.page \in (1..Len(s.page)) \ N /\ SpaceIs(r.s, N \cup {r.page})
                  /\ Len(r.s.page) = Len(s.page) /\ Agree(s, r.s, N)
<1> DEFINE r == TakeFreePage(s)
           less == IF s.count = 0 THEN 0 ELSE s.count - 1
           dir == s.page[s.head]
           top == Len(s.page)
<1>0. IsSpace(s) /\ AnySeq(s.page) /\ N \subseteq 1..top /\ top \in Nat
  BY DEF SpaceIs, AnySeq
<1>1. PICK m, D, En : FreeIs(s, (1..top) \ N, m, D, En) BY DEF SpaceIs
<1> DEFINE Nm == NamedSet(m, En, s.spare, top)
           Ds == DirSet(m, D)
<1>2. /\ ListIs(m, D, En, s.head, s.spare, top) /\ HoldsDirs(s.page, m, D, En) /\ (1..top) \ N = Nm \cup Ds
      /\ s.count = Cardinality(Nm) /\ NoneLive(s.page, (1..top) \ N)
  BY <1>1 DEF FreeIs
<1>3. Nm \cap Ds = {} /\ Nm \subseteq 1..top /\ Ds \subseteq 1..top /\ IsFiniteSet(Nm) BY <1>2, ListApart
<1>4. ASSUME s.spare # None
      PROVE  /\ r = [s |-> r.s, page |-> r.page] /\ r.page \in (1..top) \ N /\ SpaceIs(r.s, N \cup {r.page})
             /\ Len(r.s.page) = top /\ Agree(s, r.s, N)
  <2> DEFINE t == [s EXCEPT !.spare = None, !.count = less]
  <2>1. r = [s |-> Journal(t), page |-> s.spare] BY <1>4 DEF TakeFreePage
  <2>2. IsSpace(t) /\ t.page = s.page /\ t.head = s.head /\ t.spare = None /\ t.count = less /\ t.open = s.open
    BY <1>0 DEF IsSpace, SpaceFields
  <2> DEFINE u == Journal(t)
  <2> HIDE DEF t
  <2>3. IsSpace(u) /\ u.page = s.page /\ u.head = s.head /\ u.spare = None /\ u.count = less /\ u.open = s.open
    BY <2>2, JournalIs
  <2> HIDE DEF u
  <2>4. /\ ListIs(m, D, En, s.head, None, top) /\ s.spare \in Nm /\ NamedSet(m, En, None, top) = Nm \ {s.spare}
    BY <1>2, <1>4, TakeSpare
  <2>5. less = Cardinality(Nm \ {s.spare}) BY <1>2, <1>3, <2>4, LessOne
  <2>6. (1..top) \ (N \cup {s.spare}) = (Nm \ {s.spare}) \cup Ds BY <1>2, <1>3, <2>4
  <2>7. N \cup {s.spare} \subseteq 1..top BY <1>0, <1>3, <2>4
  <2> HIDE DEF less, dir, Nm, Ds
  <2>8. SpaceIs(u, N \cup {s.spare})
    <3>1. ListIs(m, D, En, u.head, u.spare, Len(s.page)) /\ HoldsDirs(u.page, m, D, En) BY <1>2, <2>3, <2>4
    <3>2. (1..Len(s.page)) \ (N \cup {s.spare}) = NamedSet(m, En, u.spare, Len(s.page)) \cup DirSet(m, D)
      BY <2>3, <2>4, <2>6 DEF Ds
    <3>3. u.count = Cardinality(NamedSet(m, En, u.spare, Len(s.page))) BY <2>3, <2>4, <2>5
    <3>4. AnySeq(u.page) /\ Len(u.page) = Len(s.page) BY <1>0, <2>3
    <3>5. NoneLive(u.page, (1..Len(s.page)) \ (N \cup {s.spare})) BY <1>2, <2>3 DEF NoneLive
    <3>6. FreeIs(u, (1..Len(u.page)) \ (N \cup {s.spare}), m, D, En) BY <3>1, <3>2, <3>3, <3>4, <3>5 DEF FreeIs
    <3> QED BY <2>3, <2>7, <3>4, <3>6 DEF SpaceIs
  <2>9. s.spare \in (1..top) \ N BY <1>2, <2>4
  <2> QED BY <2>1, <2>3, <2>8, <2>9 DEF Agree, u, t
<1>5. ASSUME s.spare = None, s.head = None PROVE r = [s |-> r.s, page |-> r.page] /\ r.page = None /\ r.s = s
  <2>1. r = [s |-> s, page |-> None] BY <1>5 DEF TakeFreePage
  <2> QED BY <2>1
<1>6. ASSUME s.spare = None, s.head # None, dir.entries # <<>>
      PROVE  /\ r = [s |-> r.s, page |-> r.page] /\ r.page \in (1..top) \ N /\ SpaceIs(r.s, N \cup {r.page})
             /\ Len(r.s.page) = top /\ Agree(s, r.s, N)
  <2> DEFINE w == WritePage(s, s.head, [dir EXCEPT !.entries = Front(@)])
             t == [w EXCEPT !.count = less]
             x == Last(En[m])
             En2 == [i \in 1..m |-> IF i = m THEN Front(En[m]) ELSE En[i]]
  <2>1. /\ m \in Nat \ {0} /\ m \in 1..m /\ s.head = D[m] /\ s.head \in Ds
        /\ dir = [kind |-> "dir", next |-> IF m = 1 THEN None ELSE D[m - 1], entries |-> En[m]]
    BY <1>1, <1>6, HeadIs
  <2>2. r = [s |-> Journal(t), page |-> x] BY <1>6, <2>1 DEF TakeFreePage
  <2> DEFINE data == [kind |-> "dir", next |-> IF m = 1 THEN None ELSE D[m - 1], entries |-> Front(En[m])]
  <2>3. [dir EXCEPT !.entries = Front(@)] = data BY <2>1
  <2>12. s.head \in 1..top BY <1>3, <2>1
  <2>4. /\ IsSpace(w) /\ w.head = s.head /\ w.spare = s.spare /\ w.count = s.count /\ w.open = s.open
        /\ AnySeq(w.page) /\ Len(w.page) = top /\ w.page[s.head] = data
        /\ \A k \in 1..top : k # s.head => w.page[k] = s.page[k]
    <3>1. w = WritePage(s, s.head, data) BY <2>3
    <3> HIDE DEF data, w
    <3> QED BY <1>0, <2>12, <3>1, Written
  <2> HIDE DEF w
  <2>5. IsSpace(t) /\ t.page = w.page /\ t.head = w.head /\ t.spare = w.spare /\ t.count = less /\ t.open = w.open
    BY <2>4 DEF IsSpace, SpaceFields
  <2> DEFINE u == Journal(t)
  <2> HIDE DEF t
  <2>6. IsSpace(u) /\ u.page = w.page /\ u.head = s.head /\ u.spare = s.spare /\ u.count = less /\ u.open = s.open
    BY <2>4, <2>5, JournalIs
  <2> HIDE DEF u
  <2>7. En[m] # <<>> BY <1>6, <2>1
  <2>8. ListIs(m, D, En2, s.head, s.spare, top) /\ x \in Nm /\ NamedSet(m, En2, s.spare, top) = Nm \ {x}
    <3>1. En2 = [i \in 1..m |-> IF i = m THEN Front(En[m]) ELSE En[i]] OBVIOUS
    <3> HIDE DEF En2
    <3> QED BY <1>2, <2>1, <2>7, <3>1, TakeEntry
  <2>9. less = Cardinality(Nm \ {x}) BY <1>2, <1>3, <2>8, LessOne
  <2>10. (1..top) \ (N \cup {x}) = (Nm \ {x}) \cup Ds BY <1>2, <1>3, <2>8
  <2>11. N \cup {x} \subseteq 1..top BY <1>0, <1>3, <2>8
  <2>13. /\ AnySeq(u.page) /\ Len(u.page) = top /\ u.page[s.head] = data
         /\ \A k \in 1..top : k # s.head => u.page[k] = s.page[k]
    BY <2>4, <2>6
  <2>14. HoldsDirs(u.page, m, D, En2)
    <3> SUFFICES ASSUME NEW i \in 1..m
                 PROVE  u.page[D[i]] = [kind |-> "dir", next |-> IF i = 1 THEN None ELSE D[i - 1], entries |-> En2[i]]
      BY DEF HoldsDirs
    <3>0. En \in [1..m -> Seq(1..top)] /\ D \in [1..m -> 1..top] /\ \A k \in 1..m : D[i] = D[k] => i = k BY <1>2 DEF ListIs, DirsAre
    <3>1. CASE i = m
      <4>1. En2[m] = Front(En[m]) BY <3>0, <2>1
      <4> QED BY <3>1, <4>1, <2>1, <2>13
    <3>2. CASE i # m
      <4>1. En2[i] = En[i] /\ D[i] # D[m] /\ D[i] \in 1..top BY <3>0, <3>2, <2>1
      <4>2. u.page[D[i]] = s.page[D[i]] BY <4>1, <2>1, <2>13
      <4> QED BY <4>1, <4>2, <1>2 DEF HoldsDirs
    <3> QED BY <3>1, <3>2
  <2>15. SpaceIs(u, N \cup {x})
    <3>1. ListIs(m, D, En2, u.head, u.spare, Len(s.page)) BY <2>6, <2>8
    <3>2. (1..Len(s.page)) \ (N \cup {x}) = NamedSet(m, En2, u.spare, Len(s.page)) \cup DirSet(m, D) BY <2>6, <2>8, <2>10
    <3>3. u.count = Cardinality(NamedSet(m, En2, u.spare, Len(s.page))) BY <2>6, <2>8, <2>9
    <3>4. NoneLive(u.page, (1..Len(s.page)) \ (N \cup {x}))
      <4>1. u.page[s.head].kind # "slab" BY <2>13
      <4> QED BY <4>1, <1>2, <2>13 DEF NoneLive
    <3> HIDE DEF x, En2, data, Nm, Ds, less, dir
    <3>5. FreeIs(u, (1..Len(u.page)) \ (N \cup {x}), m, D, En2) BY <2>13, <2>14, <3>1, <3>2, <3>3, <3>4 DEF FreeIs
    <3> QED BY <2>6, <2>11, <2>13, <3>5 DEF SpaceIs
  <2>16. x \in (1..top) \ N BY <1>2, <2>8
  <2>17. s.head \notin N BY <1>2, <2>1
  <2>18. Agree(s, u, N) BY <1>0, <2>6, <2>13, <2>17 DEF Agree
  <2>19. r = [s |-> u, page |-> x] BY <2>2 DEF u, t, w
  <2> HIDE DEF r, x
  <2> QED BY <2>13, <2>15, <2>16, <2>18, <2>19
<1>7. ASSUME s.spare = None, s.head # None, dir.entries = <<>>
      PROVE  /\ r = [s |-> r.s, page |-> r.page] /\ r.page \in (1..top) \ N /\ SpaceIs(r.s, N \cup {r.page})
             /\ Len(r.s.page) = top /\ Agree(s, r.s, N)
  <2> DEFINE t == [s EXCEPT !.head = dir.next]
             D2 == [i \in 1..m - 1 |-> D[i]]
             En2 == [i \in 1..m - 1 |-> En[i]]
  <2>1. /\ m \in Nat \ {0} /\ m \in 1..m /\ s.head = D[m] /\ s.head \in Ds
        /\ dir = [kind |-> "dir", next |-> IF m = 1 THEN None ELSE D[m - 1], entries |-> En[m]]
    BY <1>1, <1>7, HeadIs
  <2>2. r = [s |-> Journal(t), page |-> s.head] BY <1>7 DEF TakeFreePage
  <2>3. IsSpace(t) /\ t.page = s.page /\ t.head = dir.next /\ t.spare = s.spare /\ t.count = s.count /\ t.open = s.open
    BY <1>0 DEF IsSpace, SpaceFields
  <2> DEFINE u == Journal(t)
  <2> HIDE DEF t
  <2>4. /\ IsSpace(u) /\ u.page = s.page /\ u.head = (IF m = 1 THEN None ELSE D[m - 1]) /\ u.spare = s.spare
        /\ u.count = s.count /\ u.open = s.open
    BY <2>1, <2>3, JournalIs
  <2> HIDE DEF u
  <2>5. /\ ListIs(m - 1, D2, En2, u.head, s.spare, top)
        /\ NamedSet(m - 1, En2, s.spare, top) = Nm /\ DirSet(m - 1, D2) = Ds \ {s.head} /\ s.head \in Ds
    <3>0. D \in [1..m -> 1..top] /\ En \in [1..m -> Seq(1..top)] BY <1>2 DEF ListIs, DirsAre
    <3>1. D2 \in [1..m - 1 -> 1..top] /\ En2 \in [1..m - 1 -> Seq(1..top)] /\ \A i \in 1..m - 1 : D2[i] = D[i] /\ En2[i] = En[i]
      BY <3>0, <2>1
    <3>2. En[m] = <<>> BY <1>7, <2>1
    <3> HIDE DEF D2, En2
    <3>3. ListIs(m, D, En, s.head, s.spare, top) /\ m # 0 BY <1>2, <2>1
    <3> HIDE DEF Nm, Ds, dir, less
    <3>4. u.head = IF m = 1 THEN None ELSE D[m - 1] BY <2>4
    <3>5. /\ ListIs(m - 1, D2, En2, u.head, s.spare, top)
          /\ NamedSet(m - 1, En2, s.spare, top) = NamedSet(m, En, s.spare, top)
          /\ DirSet(m - 1, D2) = DirSet(m, D) \ {s.head} /\ s.head \in DirSet(m, D)
      <4>1. Shortened(m, D, En, top, D2, En2, u.head) BY <3>1, <3>4 DEF Shortened
      <4> QED BY <3>2, <3>3, <4>1, TakeDir
    <3> QED BY <3>5 DEF Nm, Ds
  <2>6. (1..top) \ (N \cup {s.head}) = Nm \cup (Ds \ {s.head}) BY <1>2, <1>3, <2>5
  <2>7. N \cup {s.head} \subseteq 1..top BY <1>0, <1>3, <2>5
  <2>8. HoldsDirs(u.page, m - 1, D2, En2)
    <3> SUFFICES ASSUME NEW i \in 1..m - 1
                 PROVE  u.page[D2[i]] = [kind |-> "dir", next |-> IF i = 1 THEN None ELSE D2[i - 1], entries |-> En2[i]]
      BY DEF HoldsDirs
    <3>1. i \in 1..m /\ D2[i] = D[i] /\ En2[i] = En[i] BY <2>1
    <3>2. i # 1 => D2[i - 1] = D[i - 1] BY <2>1
    <3>3. s.page[D[i]] = [kind |-> "dir", next |-> IF i = 1 THEN None ELSE D[i - 1], entries |-> En[i]]
      BY <1>2, <3>1 DEF HoldsDirs
    <3> QED BY <2>4, <3>1, <3>2, <3>3
  <2> HIDE DEF D2, En2, dir, less
  <2>9. SpaceIs(u, N \cup {s.head})
    <3>1. ListIs(m - 1, D2, En2, u.head, u.spare, Len(s.page)) BY <2>4, <2>5
    <3>2. (1..Len(s.page)) \ (N \cup {s.head}) = NamedSet(m - 1, En2, u.spare, Len(s.page)) \cup DirSet(m - 1, D2)
      BY <2>4, <2>5, <2>6
    <3>3. u.count = Cardinality(NamedSet(m - 1, En2, u.spare, Len(s.page))) BY <1>2, <2>4, <2>5
    <3>4. AnySeq(u.page) /\ Len(u.page) = Len(s.page) BY <1>0, <2>4
    <3>5. NoneLive(u.page, (1..Len(s.page)) \ (N \cup {s.head})) BY <1>2, <2>4 DEF NoneLive
    <3>6. FreeIs(u, (1..Len(u.page)) \ (N \cup {s.head}), m - 1, D2, En2) BY <2>8, <3>1, <3>2, <3>3, <3>4, <3>5 DEF FreeIs
    <3> QED BY <2>4, <2>7, <3>4, <3>6 DEF SpaceIs
  <2>10. s.head \in (1..top) \ N BY <1>2, <2>1
  <2>11. r = [s |-> u, page |-> s.head] BY <2>2 DEF u, t, dir
  <2> HIDE DEF r
  <2> QED BY <2>4, <2>9, <2>10, <2>11 DEF Agree
<1> QED BY <1>4, <1>5, <1>6, <1>7

\* allocate_page hands out a page that was not in use and touches none that is.
LEMMA AllocIs ==
  ASSUME NEW s, NEW N, SpaceIs(s, N)
  PROVE  LET r == AllocatePage(s)
         IN /\ r = [s |-> r.s, page |-> r.page] /\ r.page \in Nat \ {0} /\ r.page \notin N
            /\ SpaceIs(r.s, N \cup {r.page}) /\ Agree(s, r.s, N)
<1> DEFINE r == AllocatePage(s)
           taken == TakeFreePage(s)
           top == Len(s.page)
<1>0. IsSpace(s) /\ AnySeq(s.page) /\ N \subseteq 1..top /\ top \in Nat BY DEF SpaceIs, AnySeq
<1>1. /\ taken = [s |-> taken.s, page |-> taken.page]
      /\ \/ taken.page = None /\ taken.s = s
         \/ /\ taken.page \in (1..top) \ N /\ SpaceIs(taken.s, N \cup {taken.page})
            /\ Len(taken.s.page) = top /\ Agree(s, taken.s, N)
  BY TakeIs
<1> HIDE DEF taken
<1>2. ASSUME taken.page # None
      PROVE  /\ r = [s |-> r.s, page |-> r.page] /\ r.page \in Nat \ {0} /\ r.page \notin N
             /\ SpaceIs(r.s, N \cup {r.page}) /\ Agree(s, r.s, N)
  <2> DEFINE p == taken.page
             t == taken.s
             u == [t EXCEPT !.page[p] = EmptyPage]
  <2>1. p \in (1..top) \ N /\ SpaceIs(t, N \cup {p}) /\ Len(t.page) = top /\ Agree(s, t, N) BY <1>1, <1>2
  <2>2. r = [s |-> u, page |-> p]
    <3>1. r = [taken EXCEPT !.s.page[p] = EmptyPage] BY <1>2 DEF AllocatePage, taken
    <3> QED BY <1>1, <3>1
  <2> HIDE DEF p, t
  <2>3. IsSpace(t) /\ AnySeq(t.page) BY <2>1 DEF SpaceIs
  <2>4. IsSpace(u) /\ u.page = [t.page EXCEPT ![p] = EmptyPage] /\ u.head = t.head /\ u.spare = t.spare /\ u.count = t.count /\ u.open = t.open
    BY <2>3 DEF IsSpace, SpaceFields
  <2> HIDE DEF u
  <2>5. AnySeq(u.page) /\ Len(u.page) = Len(t.page) /\ \A k \in 1..Len(t.page) : k # p => u.page[k] = t.page[k]
    BY <2>1, <2>3, <2>4, PageWritten
  <2>6. SpaceIs(u, N \cup {p}) BY <2>1, <2>4, <2>5, UsedChanges
  <2>7. Agree(s, u, N)
    <3>1. \A k \in N : k \in 1..Len(t.page) /\ k # p BY <1>0, <2>1
    <3> QED BY <2>1, <2>4, <2>5, <3>1 DEF Agree
  <2> HIDE DEF r
  <2>8. p \in Nat \ {0} /\ p \notin N BY <2>1
  <2> QED BY <2>2, <2>6, <2>7, <2>8
<1>3. ASSUME taken.page = None
      PROVE  /\ r = [s |-> r.s, page |-> r.page] /\ r.page \in Nat \ {0} /\ r.page \notin N
             /\ SpaceIs(r.s, N \cup {r.page}) /\ Agree(s, r.s, N)
  <2> DEFINE p == top + 1
             u == [s EXCEPT !.page = Append(@, EmptyPage)]
  <2>1. taken.s = s BY <1>1, <1>3 DEF None
  <2>2. r = [s |-> u, page |-> p] BY <1>3, <2>1 DEF AllocatePage, taken
  <2>4. IsSpace(u) /\ u.page = Append(s.page, EmptyPage) /\ u.head = s.head /\ u.spare = s.spare /\ u.count = s.count /\ u.open = s.open
    BY <1>0 DEF IsSpace, SpaceFields
  <2> HIDE DEF u
  <2>5. AnySeq(u.page) /\ Len(u.page) = p /\ \A k \in 1..top : u.page[k] = s.page[k]
    BY <1>0, <2>4, PageAdded
  <2>6. PICK m, D, En : FreeIs(s, (1..top) \ N, m, D, En) BY DEF SpaceIs
  <2>7. ListIs(m, D, En, s.head, s.spare, top) BY <2>6 DEF FreeIs
  <2>8. ListIs(m, D, En, s.head, s.spare, p) /\ NamedSet(m, En, s.spare, p) = NamedSet(m, En, s.spare, top)
    BY <2>7, ListGrows
  <2>a. 1..p = (1..top) \cup {p} /\ p \notin 1..top BY <1>0
  <2>9. (1..p) \ (N \cup {p}) = (1..top) \ N /\ N \cup {p} \subseteq 1..p
    <3> HIDE DEF p
    <3> QED BY <1>0, <2>a
  <2>10. DirSet(m, D) \subseteq 1..top BY <2>7, ListApart
  <2>11. HoldsDirs(u.page, m, D, En)
    <3>1. \A i \in 1..m : D[i] \in 1..top BY <2>10 DEF DirSet
    <3> QED BY <2>5, <2>6, <3>1 DEF FreeIs, HoldsDirs
  <2>12. NoneLive(u.page, (1..top) \ N) BY <2>5, <2>6 DEF FreeIs, NoneLive
  <2> HIDE DEF p
  <2>13. FreeIs(u, (1..top) \ N, m, D, En) BY <2>4, <2>5, <2>6, <2>8, <2>11, <2>12 DEF FreeIs
  <2>14. SpaceIs(u, N \cup {p}) BY <2>4, <2>5, <2>9, <2>13 DEF SpaceIs
  <2>15. Agree(s, u, N) BY <1>0, <2>4, <2>5 DEF Agree
  <2>16. p \in Nat \ {0} /\ p \notin N BY <1>0 DEF p
  <2> HIDE DEF r
  <2> QED BY <2>2, <2>14, <2>15, <2>16
<1> QED BY <1>2, <1>3

\* release_page frees the page it is given and touches no other in use.
LEMMA ReleaseIs ==
  ASSUME NEW s, NEW N, SpaceIs(s, N), NEW p \in N, s.page[p].kind = "slab" => LiveEntries(s.page[p].dirs) = {}
  PROVE  LET t == ReleasePage(s, p)
         IN SpaceIs(t, N \ {p}) /\ Agree(s, t, N \ {p}) /\ Len(t.page) = Len(s.page)
<1> DEFINE r == ReleasePage(s, p)
           top == Len(s.page)
           M == N \ {p}
<1>0. IsSpace(s) /\ AnySeq(s.page) /\ N \subseteq 1..top /\ top \in Nat /\ p \in 1..top BY DEF SpaceIs, AnySeq
<1>1. PICK m, D, En : FreeIs(s, (1..top) \ N, m, D, En) BY DEF SpaceIs
<1> DEFINE Nm == NamedSet(m, En, s.spare, top)
           Ds == DirSet(m, D)
<1>2. /\ ListIs(m, D, En, s.head, s.spare, top) /\ HoldsDirs(s.page, m, D, En) /\ (1..top) \ N = Nm \cup Ds
      /\ s.count = Cardinality(Nm) /\ NoneLive(s.page, (1..top) \ N)
  BY <1>1 DEF FreeIs
<1>3. Nm \cap Ds = {} /\ Nm \subseteq 1..top /\ Ds \subseteq 1..top /\ IsFiniteSet(Nm) BY <1>2, ListApart
<1>4. p \notin Nm /\ p \notin Ds /\ M \subseteq 1..top /\ (1..top) \ M = Nm \cup Ds \cup {p} BY <1>0, <1>2
<1>5. Cardinality(Nm \cup {p}) = s.count + 1 BY <1>2, <1>3, <1>4, MoreOne
<1>6. ASSUME s.spare = None PROVE SpaceIs(r, M) /\ Agree(s, r, M) /\ Len(r.page) = top
  <2> DEFINE t == [s EXCEPT !.spare = p, !.count = @ + 1]
             u == Journal(t)
  <2>1. r = u BY <1>6 DEF ReleasePage
  <2>2. IsSpace(t) /\ t.page = s.page /\ t.head = s.head /\ t.spare = p /\ t.count = s.count + 1 /\ t.open = s.open
    BY <1>0 DEF IsSpace, SpaceFields
  <2> HIDE DEF t
  <2>3. IsSpace(u) /\ u.page = s.page /\ u.head = s.head /\ u.spare = p /\ u.count = s.count + 1 /\ u.open = s.open
    BY <2>2, JournalIs
  <2> HIDE DEF u
  <2>4. ListIs(m, D, En, s.head, p, top) /\ NamedSet(m, En, p, top) = Nm \cup {p}
    BY <1>0, <1>2, <1>4, <1>6, GiveSpare
  <2>5. NoneLive(u.page, (1..top) \ M) BY <1>2, <1>4, <2>3 DEF NoneLive
  <2> HIDE DEF r, M
  <2>6. FreeIs(u, (1..top) \ M, m, D, En)
    <3>1. ListIs(m, D, En, u.head, u.spare, Len(u.page)) /\ HoldsDirs(u.page, m, D, En) BY <1>2, <2>3, <2>4
    <3>2. (1..top) \ M = NamedSet(m, En, u.spare, Len(u.page)) \cup DirSet(m, D) BY <1>4, <2>3, <2>4
    <3>3. u.count = Cardinality(NamedSet(m, En, u.spare, Len(u.page))) BY <1>5, <2>3, <2>4
    <3> QED BY <3>1, <3>2, <3>3, <2>5 DEF FreeIs
  <2>7. SpaceIs(u, M) BY <1>0, <1>4, <2>3, <2>6 DEF SpaceIs
  <2> QED BY <2>1, <2>3, <2>7 DEF Agree
<1>7. ASSUME s.spare # None, s.head # None, Len(s.page[s.head].entries) < DirRoom
      PROVE  SpaceIs(r, M) /\ Agree(s, r, M) /\ Len(r.page) = top
  <2> DEFINE dir == s.page[s.head]
             data == [kind |-> "dir", next |-> IF m = 1 THEN None ELSE D[m - 1], entries |-> Append(En[m], p)]
             w == WritePage(s, s.head, [dir EXCEPT !.entries = Append(@, p)])
             t == [w EXCEPT !.count = @ + 1]
             u == Journal(t)
             En2 == [i \in 1..m |-> IF i = m THEN Append(En[m], p) ELSE En[i]]
  <2>1. r = u BY <1>7 DEF ReleasePage
  <2>2. /\ m \in Nat \ {0} /\ m \in 1..m /\ s.head = D[m] /\ s.head \in Ds /\ s.head \in 1..top
        /\ dir = [kind |-> "dir", next |-> IF m = 1 THEN None ELSE D[m - 1], entries |-> En[m]]
    BY <1>1, <1>3, <1>7, HeadIs
  <2>a. [dir EXCEPT !.entries = Append(@, p)] = data
    <3> HIDE DEF dir
    <3>1. \A x : [dir EXCEPT !.entries = x] = [kind |-> "dir", next |-> IF m = 1 THEN None ELSE D[m - 1], entries |-> x] BY <2>2
    <3>2. [dir EXCEPT !.entries = Append(@, p)] = [dir EXCEPT !.entries = Append(En[m], p)] BY <2>2
    <3> QED BY <3>1, <3>2
  <2>3. w = WritePage(s, s.head, data) BY <2>a
  <2>4. /\ IsSpace(w) /\ w.head = s.head /\ w.spare = s.spare /\ w.count = s.count /\ w.open = s.open
        /\ AnySeq(w.page) /\ Len(w.page) = top /\ w.page[s.head] = data
        /\ \A k \in 1..top : k # s.head => w.page[k] = s.page[k]
    <3> HIDE DEF data, w
    <3> QED BY <1>0, <2>2, <2>3, Written
  <2> HIDE DEF w
  <2>5. IsSpace(t) /\ t.page = w.page /\ t.head = w.head /\ t.spare = w.spare /\ t.count = s.count + 1 /\ t.open = w.open
    BY <2>4 DEF IsSpace, SpaceFields
  <2> HIDE DEF t
  <2>6. IsSpace(u) /\ u.page = w.page /\ u.head = s.head /\ u.spare = s.spare /\ u.count = s.count + 1 /\ u.open = s.open
    BY <2>4, <2>5, JournalIs
  <2> HIDE DEF u
  <2>7. ListIs(m, D, En2, s.head, s.spare, top) /\ NamedSet(m, En2, s.spare, top) = Nm \cup {p}
    <3>1. En2 = [i \in 1..m |-> IF i = m THEN Append(En[m], p) ELSE En[i]] OBVIOUS
    <3> HIDE DEF En2
    <3>2. ListIs(m, D, En, s.head, s.spare, top) /\ m # 0 /\ p \notin NamedSet(m, En, s.spare, top) /\ p \notin DirSet(m, D)
      BY <1>2, <1>4, <2>2
    <3> HIDE DEF dir, data
    <3> QED BY <1>0, <3>1, <3>2, GiveEntry
  <2>8. HoldsDirs(u.page, m, D, En2)
    <3> SUFFICES ASSUME NEW i \in 1..m
                 PROVE  u.page[D[i]] = [kind |-> "dir", next |-> IF i = 1 THEN None ELSE D[i - 1], entries |-> En2[i]]
      BY DEF HoldsDirs
    <3>0. En \in [1..m -> Seq(1..top)] /\ D \in [1..m -> 1..top] /\ \A k \in 1..m : D[i] = D[k] => i = k BY <1>2 DEF ListIs, DirsAre
    <3>1. CASE i = m
      <4>1. En2[m] = Append(En[m], p) BY <3>0, <2>2
      <4> QED BY <3>1, <4>1, <2>2, <2>4, <2>6
    <3>2. CASE i # m
      <4>1. En2[i] = En[i] /\ D[i] # D[m] /\ D[i] \in 1..top BY <3>0, <3>2, <2>2
      <4>2. u.page[D[i]] = s.page[D[i]] BY <4>1, <2>2, <2>4, <2>6
      <4> QED BY <4>1, <4>2, <1>2 DEF HoldsDirs
    <3> QED BY <3>1, <3>2
  <2>9. NoneLive(u.page, (1..top) \ M)
    <3>1. u.page[s.head].kind # "slab" BY <2>4, <2>6
    <3> HIDE DEF data, En2, dir
    <3> SUFFICES ASSUME NEW q \in (1..top) \ M, u.page[q].kind = "slab" PROVE LiveEntries(u.page[q].dirs) = {}
      BY DEF NoneLive
    <3>2. q # s.head BY <3>1
    <3>3. u.page[q] = s.page[q] BY <2>4, <2>6, <3>2
    <3>4. CASE q = p BY <3>3, <3>4
    <3>5. CASE q # p
      <4>1. q \in (1..top) \ N BY <3>5
      <4> QED BY <1>2, <3>3, <4>1 DEF NoneLive
    <3> QED BY <3>4, <3>5
  <2> HIDE DEF r, M, En2, dir, data
  <2>10. FreeIs(u, (1..top) \ M, m, D, En2)
    <3>1. ListIs(m, D, En2, u.head, u.spare, Len(u.page)) BY <2>4, <2>6, <2>7
    <3>2. (1..top) \ M = NamedSet(m, En2, u.spare, Len(u.page)) \cup DirSet(m, D) BY <1>4, <2>4, <2>6, <2>7
    <3>3. u.count = Cardinality(NamedSet(m, En2, u.spare, Len(u.page))) BY <1>5, <2>4, <2>6, <2>7
    <3> QED BY <3>1, <3>2, <3>3, <2>8, <2>9 DEF FreeIs
  <2>11. SpaceIs(u, M) BY <1>4, <2>4, <2>6, <2>10 DEF SpaceIs
  <2>12. s.head \notin M BY <1>2, <2>2 DEF M
  <2>13. Agree(s, u, M) BY <1>4, <2>4, <2>6, <2>12 DEF Agree
  <2> QED BY <2>1, <2>4, <2>6, <2>11, <2>13
<1>8. ASSUME s.spare # None, ~(s.head # None /\ Len(s.page[s.head].entries) < DirRoom)
      PROVE  SpaceIs(r, M) /\ Agree(s, r, M) /\ Len(r.page) = top
  <2> DEFINE data == [kind |-> "dir", next |-> s.head, entries |-> <<>>]
             w == WritePage(s, p, data)
             t == [w EXCEPT !.head = p]
             u == Journal(t)
             D2 == [i \in 1..m + 1 |-> IF i = m + 1 THEN p ELSE D[i]]
             En2 == [i \in 1..m + 1 |-> IF i = m + 1 THEN <<>> ELSE En[i]]
  <2>1. r = u BY <1>8 DEF ReleasePage
  <2>4. /\ IsSpace(w) /\ w.head = s.head /\ w.spare = s.spare /\ w.count = s.count /\ w.open = s.open
        /\ AnySeq(w.page) /\ Len(w.page) = top /\ w.page[p] = data
        /\ \A k \in 1..top : k # p => w.page[k] = s.page[k]
    <3> HIDE DEF data
    <3> QED BY <1>0, Written
  <2> HIDE DEF w
  <2>5. IsSpace(t) /\ t.page = w.page /\ t.head = p /\ t.spare = w.spare /\ t.count = s.count /\ t.open = w.open
    BY <2>4 DEF IsSpace, SpaceFields
  <2> HIDE DEF t
  <2>6. IsSpace(u) /\ u.page = w.page /\ u.head = p /\ u.spare = s.spare /\ u.count = s.count /\ u.open = s.open
    BY <2>4, <2>5, JournalIs
  <2> HIDE DEF u
  <2>7. /\ ListIs(m + 1, D2, En2, p, s.spare, top) /\ NamedSet(m + 1, En2, s.spare, top) = Nm
        /\ DirSet(m + 1, D2) = Ds \cup {p}
    <3>1. D2 = [i \in 1..m + 1 |-> IF i = m + 1 THEN p ELSE D[i]] OBVIOUS
    <3>2. En2 = [i \in 1..m + 1 |-> IF i = m + 1 THEN <<>> ELSE En[i]] OBVIOUS
    <3> HIDE DEF D2, En2
    <3> QED BY <1>0, <1>2, <1>4, <3>1, <3>2, GiveDir
  <2>8. HoldsDirs(u.page, m + 1, D2, En2)
    <3> SUFFICES ASSUME NEW i \in 1..m + 1
                 PROVE  u.page[D2[i]] = [kind |-> "dir", next |-> IF i = 1 THEN None ELSE D2[i - 1], entries |-> En2[i]]
      BY DEF HoldsDirs
    <3>0. /\ m \in Nat /\ D \in [1..m -> 1..top] /\ s.head = IF m = 0 THEN None ELSE D[m]
      BY <1>2 DEF ListIs, DirsAre
    <3>1. CASE i = m + 1
      <4>1. D2[i] = p /\ En2[i] = <<>> BY <3>1
      <4>2. s.head = IF i = 1 THEN None ELSE D2[i - 1]
        <5>1. CASE m = 0 BY <5>1, <3>0, <3>1
        <5>2. CASE m # 0
          <6>1. i - 1 = m /\ i # 1 /\ m \in 1..m + 1 /\ m # m + 1 BY <3>0, <3>1, <5>2
          <6>2. D2[i - 1] = D[m] BY <6>1
          <6> QED BY <3>0, <5>2, <6>1, <6>2
        <5> QED BY <5>1, <5>2
      <4> QED BY <4>1, <4>2, <2>4, <2>6
    <3>2. CASE i # m + 1
      <4>1. i \in 1..m /\ En2[i] = En[i] /\ D2[i] = D[i] /\ D[i] \in 1..top BY <3>0, <3>2
      <4>2. i # 1 => D2[i - 1] = D[i - 1] BY <3>0, <3>2
      <4>3. D[i] # p BY <1>4, <4>1 DEF DirSet
      <4>4. u.page[D[i]] = s.page[D[i]] BY <4>1, <4>3, <2>4, <2>6
      <4>5. s.page[D[i]] = [kind |-> "dir", next |-> IF i = 1 THEN None ELSE D[i - 1], entries |-> En[i]]
        BY <4>1, <1>2 DEF HoldsDirs
      <4> QED BY <4>1, <4>2, <4>4, <4>5
    <3> QED BY <3>1, <3>2
  <2>9. NoneLive(u.page, (1..top) \ M)
    <3>1. u.page[p].kind # "slab" BY <2>4, <2>6
    <3>2. \A q \in (1..top) \ M : q # p => q \in (1..top) \ N /\ u.page[q] = s.page[q] BY <2>4, <2>6
    <3> QED BY <3>1, <3>2, <1>2 DEF NoneLive
  <2> HIDE DEF r, M, En2, D2, data
  <2>10. FreeIs(u, (1..top) \ M, m + 1, D2, En2)
    <3>1. ListIs(m + 1, D2, En2, u.head, u.spare, Len(u.page)) BY <2>4, <2>6, <2>7
    <3>2. (1..top) \ M = NamedSet(m + 1, En2, u.spare, Len(u.page)) \cup DirSet(m + 1, D2) BY <1>4, <2>4, <2>6, <2>7
    <3>3. u.count = Cardinality(NamedSet(m + 1, En2, u.spare, Len(u.page))) BY <1>2, <2>4, <2>6, <2>7
    <3> QED BY <3>1, <3>2, <3>3, <2>8, <2>9, <2>4, <2>6 DEF FreeIs
  <2>11. SpaceIs(u, M) BY <1>4, <2>4, <2>6, <2>10 DEF SpaceIs
  <2>12. p \notin M BY DEF M
  <2>13. Agree(s, u, M) BY <1>4, <2>4, <2>6, <2>12 DEF Agree
  <2> QED BY <2>1, <2>4, <2>6, <2>11, <2>13
<1> QED BY <1>6, <1>7, <1>8

-----------------------------------------------------------------------------
(* Chains: writing one, giving one back.                                   *)

Chained(s, blob) ==
  CHOOSE f : f = [i \in 0..ChainLength(blob.len) |-> IF i = 0 THEN AllocatePage(s) ELSE WriteLink(f[i - 1], i, blob)]

\* write_overflow as the last of its steps.
LEMMA WriteChainIs ==
  ASSUME NEW s, NEW blob
  PROVE  WriteChain(s, blob) = [s |-> Chained(s, blob)[ChainLength(blob.len)].s, page |-> AllocatePage(s).page]
BY DEF WriteChain, Chained

\* A blob takes one page at least.
LEMMA ChainLengthIs == ASSUME NEW len \in Nat PROVE ChainLength(len) \in Nat \ {0}
<1>1. FirstCap \in Nat /\ ContCap \in Nat \ {0} BY OverflowAssumption
<1>2. CASE len <= FirstCap BY <1>2 DEF ChainLength
<1>3. CASE ~(len <= FirstCap)
  <2> DEFINE k == len - FirstCap + ContCap - 1
  <2>1. k \in Nat BY <1>1, <1>3
  <2> HIDE DEF k
  <2>2. k \div ContCap \in Nat BY <1>1, <2>1
  <2>3. ChainLength(len) = 1 + (k \div ContCap) BY <1>3 DEF ChainLength, k
  <2> QED BY <2>2, <2>3
<1> QED BY <1>2, <1>3

\* The steps of write_overflow, one from the other.
LEMMA ChainedIsDefined ==
  ASSUME NEW s, NEW blob, ChainLength(blob.len) \in Nat
  PROVE  LET n == ChainLength(blob.len)
             f == Chained(s, blob)
         IN f[0] = AllocatePage(s) /\ \A i \in 1..n : f[i] = WriteLink(f[i - 1], i, blob)
<1> DEFINE n == ChainLength(blob.len)
           Upto(k, f) == f = [i \in 0..k |-> IF i = 0 THEN AllocatePage(s) ELSE WriteLink(f[i - 1], i, blob)]
           Done == { k \in Nat : \E f : Upto(k, f) }
<1>1. 0 \in Done
  <2> DEFINE f == [i \in 0..0 |-> AllocatePage(s)]
  <2>1. f = [i \in 0..0 |-> IF i = 0 THEN AllocatePage(s) ELSE WriteLink(f[i - 1], i, blob)] OBVIOUS
  <2>2. Upto(0, f) BY <2>1
  <2> HIDE DEF f, Upto
  <2> QED BY <2>2
<1>2. ASSUME NEW k \in Nat, k \in Done PROVE k + 1 \in Done
  <2>1. PICK f : Upto(k, f) BY <1>2
  <2> DEFINE g == [i \in 0..k + 1 |-> IF i = k + 1 THEN WriteLink(f[k], k + 1, blob) ELSE f[i]]
  <2>2. \A i \in 0..k : i \in 0..k + 1 /\ i # k + 1 /\ g[i] = f[i] OBVIOUS
  <2>3. g[k + 1] = WriteLink(f[k], k + 1, blob) /\ DOMAIN g = 0..k + 1 OBVIOUS
  <2>4. ASSUME NEW i \in 0..k + 1 PROVE g[i] = IF i = 0 THEN AllocatePage(s) ELSE WriteLink(g[i - 1], i, blob)
    <3>1. CASE i = k + 1
      <4>1. i - 1 = k /\ i # 0 /\ g[k] = f[k] BY <3>1, <2>2
      <4> QED BY <4>1, <3>1, <2>3
    <3>2. CASE i # k + 1
      <4>1. i \in 0..k /\ g[i] = f[i] /\ (i # 0 => i - 1 \in 0..k /\ g[i - 1] = f[i - 1]) BY <3>2, <2>2
      <4>2. f[i] = IF i = 0 THEN AllocatePage(s) ELSE WriteLink(f[i - 1], i, blob) BY <4>1, <2>1
      <4> QED BY <4>1, <4>2
    <3> QED BY <3>1, <3>2
  <2>5. Upto(k + 1, g) BY <2>3, <2>4
  <2> HIDE DEF g, Upto
  <2> QED BY <2>5
<1> HIDE DEF Done
<1>3. n \in Done BY <1>1, <1>2, EveryNatural
<1>4. PICK f : Upto(n, f) BY <1>3 DEF Done
<1>5. f = [i \in 0..ChainLength(blob.len) |-> IF i = 0 THEN AllocatePage(s) ELSE WriteLink(f[i - 1], i, blob)] BY <1>4
<1> DEFINE c == Chained(s, blob)
<1>6. c = [i \in 0..ChainLength(blob.len) |-> IF i = 0 THEN AllocatePage(s) ELSE WriteLink(c[i - 1], i, blob)]
  BY <1>5 DEF Chained
<1> HIDE DEF c
<1>7. c[0] = AllocatePage(s) BY <1>6
<1>8. \A i \in 1..n : c[i] = WriteLink(c[i - 1], i, blob) BY <1>6
<1> QED BY <1>7, <1>8 DEF c

\* After i links: k pages c taken, the first i of them written.
LinkAt(blob, c, j) == [kind |-> "chain", blob |-> blob, part |-> j, next |-> IF j < ChainLength(blob.len) THEN c[j + 1] ELSE None]
Elements(c, k) == { c[j] : j \in 1..k }
Linked(s, t, N, blob, c, i, k) ==
  /\ c \in [1..k -> Nat \ {0}] /\ \A j, l \in 1..k : c[j] = c[l] => j = l
  /\ \A j \in 1..k : c[j] \notin N
  /\ SpaceIs(t, N \cup Elements(c, k)) /\ Agree(s, t, N)
  /\ \A j \in 1..i : t.page[c[j]] = LinkAt(blob, c, j)

\* write_overflow begins with one page taken and none written.
LEMMA LinkFirst ==
  ASSUME NEW s, NEW N, SpaceIs(s, N), NEW blob
  PROVE  LET r == AllocatePage(s)
         IN r = [s |-> r.s, page |-> r.page] /\ Linked(s, r.s, N, blob, [j \in 1..1 |-> r.page], 0, 1)
<1> DEFINE r == AllocatePage(s)
           c == [j \in 1..1 |-> r.page]
<1>1. /\ r = [s |-> r.s, page |-> r.page] /\ r.page \in Nat \ {0} /\ r.page \notin N
      /\ SpaceIs(r.s, N \cup {r.page}) /\ Agree(s, r.s, N)
  BY AllocIs
<1> HIDE DEF r
<1>2. 1..1 = {1} /\ 1..0 = {} OBVIOUS
<1>3. Elements(c, 1) = {r.page} BY <1>2 DEF Elements
<1>4. c \in [1..1 -> Nat \ {0}] /\ (\A j, l \in 1..1 : c[j] = c[l] => j = l) /\ \A j \in 1..1 : c[j] \notin N BY <1>1
<1> HIDE DEF c
<1>5. Linked(s, r.s, N, blob, c, 0, 1) BY <1>1, <1>2, <1>3, <1>4 DEF Linked
<1> QED BY <1>1, <1>5 DEF r, c

\* A step writes the page it holds and takes the next.
LEMMA LinkMore ==
  ASSUME NEW s, NEW N, SpaceIs(s, N), NEW blob, ChainLength(blob.len) \in Nat, NEW i \in Nat \ {0}, i < ChainLength(blob.len),
         NEW now, NEW c, Linked(s, now.s, N, blob, c, i - 1, i), now.page = c[i]
  PROVE  LET r == WriteLink(now, i, blob)
         IN \E d : Linked(s, r.s, N, blob, d, i, i + 1) /\ r.page = d[i + 1] /\ d[1] = c[1]
<1> DEFINE r == WriteLink(now, i, blob)
           n == ChainLength(blob.len)
           more == AllocatePage(now.s)
           P == N \cup Elements(c, i)
           d == [j \in 1..i + 1 |-> IF j = i + 1 THEN more.page ELSE c[j]]
<1>0. /\ c \in [1..i -> Nat \ {0}] /\ (\A j, l \in 1..i : c[j] = c[l] => j = l) /\ (\A j \in 1..i : c[j] \notin N)
      /\ SpaceIs(now.s, P) /\ Agree(s, now.s, N) /\ \A j \in 1..i - 1 : now.s.page[c[j]] = LinkAt(blob, c, j)
  BY DEF Linked
<1>1. /\ more = [s |-> more.s, page |-> more.page] /\ more.page \in Nat \ {0} /\ more.page \notin P
      /\ SpaceIs(more.s, P \cup {more.page}) /\ Agree(now.s, more.s, P)
  BY <1>0, AllocIs
<1> DEFINE link == [kind |-> "chain", blob |-> blob, part |-> i, next |-> more.page]
           t == WritePage(more.s, c[i], link)
<1>2. r = [s |-> t, page |-> more.page] BY <1>1 DEF WriteLink
<1> HIDE DEF more
<1>3. i \in 1..i /\ c[i] \in Elements(c, i) /\ c[i] \in P \cup {more.page} BY <1>0 DEF Elements
<1>4. /\ SpaceIs(t, P \cup {more.page}) /\ Len(t.page) = Len(more.s.page) /\ t.page[c[i]] = link /\ t.open = more.s.open
      /\ \A q \in 1..Len(more.s.page) : q # c[i] => t.page[q] = more.s.page[q]
  <2>1. SpaceIs(more.s, P \cup {more.page}) BY <1>1
  <2> DEFINE M == P \cup {more.page}
             ms == more.s
             p == c[i]
  <2>2. SpaceIs(ms, M) /\ p \in M BY <2>1, <1>3
  <2> HIDE DEF link, P, M, ms, p
  <2>3. LET u == WritePage(ms, p, link)
        IN /\ SpaceIs(u, M) /\ Len(u.page) = Len(ms.page) /\ u.page[p] = link /\ u.open = ms.open
           /\ \A q \in 1..Len(ms.page) : q # p => u.page[q] = ms.page[q]
    BY <2>2, WriteUsed
  <2> QED BY <2>3 DEF M, ms, p
<1> HIDE DEF t
<1>5. 1..i + 1 = (1..i) \cup {i + 1} /\ i + 1 \notin 1..i /\ 1 \in 1..i OBVIOUS
<1>6. /\ d[i + 1] = more.page /\ (\A j \in 1..i : d[j] = c[j]) /\ d \in [1..i + 1 -> Nat \ {0}] BY <1>0, <1>1, <1>5
<1> HIDE DEF d
<1>7. \A j \in 1..i : c[j] \in P /\ c[j] # more.page BY <1>1 DEF Elements
<1>8. \A j, l \in 1..i + 1 : d[j] = d[l] => j = l
  <2> SUFFICES ASSUME NEW j \in 1..i + 1, NEW l \in 1..i + 1, d[j] = d[l] PROVE j = l OBVIOUS
  <2> HIDE DEF more
  <2>1. CASE j \in 1..i /\ l \in 1..i BY <1>0, <1>6, <2>1
  <2>2. CASE j = i + 1 /\ l \in 1..i BY <1>6, <1>7, <2>2
  <2>3. CASE j \in 1..i /\ l = i + 1 BY <1>6, <1>7, <2>3
  <2>4. CASE j = i + 1 /\ l = i + 1 BY <2>4
  <2> QED BY <1>5, <2>1, <2>2, <2>3, <2>4
<1>9. \A j \in 1..i + 1 : d[j] \notin N BY <1>0, <1>1, <1>5, <1>6
<1>10. N \cup Elements(d, i + 1) = P \cup {more.page}
  <2> HIDE DEF more
  <2>1. Elements(d, i + 1) = { d[j] : j \in 1..i } \cup {d[i + 1]} BY <1>5 DEF Elements
  <2>2. { d[j] : j \in 1..i } = Elements(c, i) BY <1>6 DEF Elements
  <2> QED BY <1>6, <2>1, <2>2
<1>11. P \subseteq 1..Len(more.s.page) BY <1>1 DEF SpaceIs
<1>12. Agree(s, t, N)
  <2>1. \A p \in N : p # c[i] /\ p \in 1..Len(more.s.page) /\ p \in P BY <1>0, <1>3, <1>11
  <2> QED BY <2>1, <1>0, <1>1, <1>4 DEF Agree
<1>13. ASSUME NEW j \in 1..i PROVE t.page[d[j]] = LinkAt(blob, d, j)
  <2>1. CASE j = i
    <3>1. j < n /\ d[j + 1] = more.page /\ d[j] = c[i] BY <2>1, <1>6
    <3> QED BY <2>1, <3>1, <1>4 DEF LinkAt
  <2>2. CASE j # i
    <3>1. j \in 1..i - 1 /\ j + 1 \in 1..i BY <2>2
    <3>2. c[j] # c[i] /\ c[j] \in P /\ c[j] \in 1..Len(more.s.page) BY <1>0, <1>3, <1>7, <1>11, <2>2
    <3>3. t.page[c[j]] = now.s.page[c[j]] BY <1>1, <1>4, <3>2 DEF Agree
    <3>4. now.s.page[c[j]] = LinkAt(blob, c, j) BY <1>0, <3>1
    <3>5. LinkAt(blob, c, j) = LinkAt(blob, d, j) BY <1>6, <3>1 DEF LinkAt
    <3> QED BY <3>3, <3>4, <3>5, <1>6
  <2> QED BY <2>1, <2>2
<1>14. Linked(s, t, N, blob, d, i, i + 1) BY <1>4, <1>6, <1>8, <1>9, <1>10, <1>12, <1>13 DEF Linked
<1>15. d[1] = c[1] BY <1>5, <1>6
<1>16. r.s = t /\ r.page = more.page BY <1>2
<1> HIDE DEF r
<1>17. Linked(s, r.s, N, blob, d, i, i + 1) /\ r.page = d[i + 1] /\ d[1] = c[1] BY <1>6, <1>14, <1>15, <1>16
<1>18. \E e : Linked(s, r.s, N, blob, e, i, i + 1) /\ r.page = e[i + 1] /\ e[1] = c[1] BY <1>17
<1> QED BY <1>18 DEF r

\* The last step writes the page it holds and takes none.
LEMMA LinkLast ==
  ASSUME NEW s, NEW N, SpaceIs(s, N), NEW blob, ChainLength(blob.len) \in Nat, NEW i \in Nat \ {0}, i = ChainLength(blob.len),
         NEW now, NEW c, Linked(s, now.s, N, blob, c, i - 1, i), now.page = c[i]
  PROVE  Linked(s, WriteLink(now, i, blob).s, N, blob, c, i, i)
<1> DEFINE r == WriteLink(now, i, blob)
           P == N \cup Elements(c, i)
           link == [kind |-> "chain", blob |-> blob, part |-> i, next |-> None]
           t == WritePage(now.s, c[i], link)
<1>0. /\ c \in [1..i -> Nat \ {0}] /\ (\A j, l \in 1..i : c[j] = c[l] => j = l) /\ (\A j \in 1..i : c[j] \notin N)
      /\ SpaceIs(now.s, P) /\ Agree(s, now.s, N) /\ \A j \in 1..i - 1 : now.s.page[c[j]] = LinkAt(blob, c, j)
  BY DEF Linked
<1>2. r.s = t BY DEF WriteLink
<1>3. i \in 1..i /\ c[i] \in P BY DEF Elements
<1>4. /\ SpaceIs(t, P) /\ t.page[c[i]] = link /\ t.open = now.s.open
      /\ \A q \in 1..Len(now.s.page) : q # c[i] => t.page[q] = now.s.page[q]
  <2> HIDE DEF link, P
  <2> QED BY <1>0, <1>3, WriteUsed
<1> HIDE DEF t
<1>5. P \subseteq 1..Len(now.s.page) BY <1>0 DEF SpaceIs
<1>6. Agree(s, t, N)
  <2>1. \A p \in N : p # c[i] /\ p \in 1..Len(now.s.page) BY <1>0, <1>3, <1>5
  <2> QED BY <2>1, <1>0, <1>4 DEF Agree
<1>7. ASSUME NEW j \in 1..i PROVE t.page[c[j]] = LinkAt(blob, c, j)
  <2>1. CASE j = i BY <2>1, <1>4 DEF LinkAt
  <2>2. CASE j # i
    <3>1. j \in 1..i - 1 BY <2>2
    <3>2. c[j] # c[i] /\ c[j] \in 1..Len(now.s.page)
      <4>1. c[j] \in P BY DEF Elements
      <4> QED BY <4>1, <1>0, <1>3, <1>5, <2>2
    <3> QED BY <1>0, <1>4, <3>1, <3>2
  <2> QED BY <2>1, <2>2
<1>8. Linked(s, t, N, blob, c, i, i) BY <1>0, <1>4, <1>6, <1>7 DEF Linked
<1> HIDE DEF r
<1> QED BY <1>2, <1>8 DEF r

\* write_overflow takes the pages of a chain and touches no other in use.
LEMMA ChainIsWritten ==
  ASSUME NEW s, NEW N, SpaceIs(s, N), NEW blob, blob.len \in Nat
  PROVE  LET n == ChainLength(blob.len)
             r == WriteChain(s, blob)
         IN /\ n \in Nat \ {0}
            /\ \E c : Linked(s, r.s, N, blob, c, n, n) /\ r.page = c[1]
<1> DEFINE n == ChainLength(blob.len)
           f == Chained(s, blob)
           a == AllocatePage(s)
           At(i) == \E c : Linked(s, f[i].s, N, blob, c, i, i + 1) /\ f[i].page = c[i + 1] /\ c[1] = a.page
           Done == { i \in Nat : i < n => At(i) }
<1>1. n \in Nat \ {0} BY ChainLengthIs
<1>2. f[0] = a /\ \A i \in 1..n : f[i] = WriteLink(f[i - 1], i, blob) BY <1>1, ChainedIsDefined
<1> HIDE DEF f, n
<1>3. 0 \in Done
  <2> DEFINE c == [j \in 1..1 |-> a.page]
  <2>1. Linked(s, a.s, N, blob, c, 0, 1) BY LinkFirst
  <2>2. c[1] = a.page OBVIOUS
  <2> HIDE DEF c, a
  <2>3. Linked(s, f[0].s, N, blob, c, 0, 0 + 1) /\ f[0].page = c[0 + 1] BY <1>2, <2>1, <2>2
  <2> QED BY <2>2, <2>3
<1>4. ASSUME NEW i \in Nat, i \in Done PROVE i + 1 \in Done
  <2>1. SUFFICES ASSUME i + 1 < n PROVE At(i + 1) OBVIOUS
  <2>2. At(i) BY <1>1, <1>4, <2>1
  <2>3. PICK c : Linked(s, f[i].s, N, blob, c, i, i + 1) /\ f[i].page = c[i + 1] /\ c[1] = a.page BY <2>2
  <2> DEFINE k == i + 1
  <2>4. k \in Nat \ {0} /\ k < n /\ k - 1 = i /\ k \in 1..n BY <1>1, <2>1
  <2>5. f[k] = WriteLink(f[i], k, blob) BY <1>2, <2>4
  <2>6. Linked(s, f[i].s, N, blob, c, k - 1, k) /\ f[i].page = c[k] BY <2>3, <2>4
  <2> HIDE DEF k, a
  <2>7. \E d : Linked(s, f[k].s, N, blob, d, k, k + 1) /\ f[k].page = d[k + 1] /\ d[1] = c[1]
    <3>1. \E d : Linked(s, WriteLink(f[i], k, blob).s, N, blob, d, k, k + 1) /\ WriteLink(f[i], k, blob).page = d[k + 1] /\ d[1] = c[1]
      BY <1>1, <2>4, <2>6, LinkMore DEF n
    <3> QED BY <2>5, <3>1
  <2> QED BY <2>3, <2>7 DEF k
<1> HIDE DEF Done
<1>5. \A i \in Nat : i \in Done BY <1>3, <1>4, EveryNatural
<1>6. At(n - 1)
  <2>1. n - 1 \in Nat /\ n - 1 < n BY <1>1
  <2> QED BY <2>1, <1>5 DEF Done
<1>7. PICK c : Linked(s, f[n - 1].s, N, blob, c, n - 1, (n - 1) + 1) /\ f[n - 1].page = c[(n - 1) + 1] /\ c[1] = a.page BY <1>6
<1>8. Linked(s, f[n - 1].s, N, blob, c, n - 1, n) /\ f[n - 1].page = c[n] /\ n \in 1..n BY <1>1, <1>7
<1>9. Linked(s, WriteLink(f[n - 1], n, blob).s, N, blob, c, n, n) BY <1>1, <1>8, LinkLast DEF n
<1>10. Linked(s, f[n].s, N, blob, c, n, n) BY <1>2, <1>8, <1>9
<1>11. WriteChain(s, blob) = [s |-> f[n].s, page |-> a.page] BY WriteChainIs DEF f, n
<1> HIDE DEF a
<1>12. WriteChain(s, blob).s = f[n].s /\ WriteChain(s, blob).page = c[1] BY <1>7, <1>11
<1> QED BY <1>1, <1>10, <1>12 DEF n


Given(s, q) == CHOOSE f : f = [i \in 0..Len(q) |-> IF i = 0 THEN s ELSE ReleasePage(f[i - 1], q[i])]

\* free_overflow_chain as the last of its steps.
LEMMA ReleaseChainIs ==
  ASSUME NEW s, NEW q PROVE ReleaseChain(s, q) = Given(s, q)[Len(q)]
BY DEF ReleaseChain, Given

\* The steps of free_overflow_chain, one from the other.
LEMMA GivenIsDefined ==
  ASSUME NEW s, NEW q, Len(q) \in Nat
  PROVE  LET f == Given(s, q)
         IN f[0] = s /\ \A i \in 1..Len(q) : f[i] = ReleasePage(f[i - 1], q[i])
<1> DEFINE n == Len(q)
           Upto(k, f) == f = [i \in 0..k |-> IF i = 0 THEN s ELSE ReleasePage(f[i - 1], q[i])]
           Done == { k \in Nat : \E f : Upto(k, f) }
<1>1. 0 \in Done
  <2> DEFINE f == [i \in 0..0 |-> s]
  <2>1. f = [i \in 0..0 |-> IF i = 0 THEN s ELSE ReleasePage(f[i - 1], q[i])] OBVIOUS
  <2>2. Upto(0, f) BY <2>1
  <2> HIDE DEF f, Upto
  <2> QED BY <2>2
<1>2. ASSUME NEW k \in Nat, k \in Done PROVE k + 1 \in Done
  <2>1. PICK f : Upto(k, f) BY <1>2
  <2> DEFINE g == [i \in 0..k + 1 |-> IF i = k + 1 THEN ReleasePage(f[k], q[k + 1]) ELSE f[i]]
  <2>2. \A i \in 0..k : i \in 0..k + 1 /\ i # k + 1 /\ g[i] = f[i] OBVIOUS
  <2>3. g[k + 1] = ReleasePage(f[k], q[k + 1]) /\ DOMAIN g = 0..k + 1 OBVIOUS
  <2>4. ASSUME NEW i \in 0..k + 1 PROVE g[i] = IF i = 0 THEN s ELSE ReleasePage(g[i - 1], q[i])
    <3>1. CASE i = k + 1
      <4>1. i - 1 = k /\ i # 0 /\ g[k] = f[k] BY <3>1, <2>2
      <4> QED BY <4>1, <3>1, <2>3
    <3>2. CASE i # k + 1
      <4>1. i \in 0..k /\ g[i] = f[i] /\ (i # 0 => i - 1 \in 0..k /\ g[i - 1] = f[i - 1]) BY <3>2, <2>2
      <4>2. f[i] = IF i = 0 THEN s ELSE ReleasePage(f[i - 1], q[i]) BY <4>1, <2>1
      <4> QED BY <4>1, <4>2
    <3> QED BY <3>1, <3>2
  <2>5. Upto(k + 1, g) BY <2>3, <2>4
  <2> HIDE DEF g, Upto
  <2> QED BY <2>5
<1> HIDE DEF Done
<1>3. n \in Done BY <1>1, <1>2, EveryNatural
<1>4. PICK f : Upto(n, f) BY <1>3 DEF Done
<1>5. f = [i \in 0..Len(q) |-> IF i = 0 THEN s ELSE ReleasePage(f[i - 1], q[i])] BY <1>4
<1> DEFINE c == Given(s, q)
<1>6. c = [i \in 0..Len(q) |-> IF i = 0 THEN s ELSE ReleasePage(c[i - 1], q[i])] BY <1>5 DEF Given
<1> HIDE DEF c
<1>7. c[0] = s BY <1>6
<1>8. \A i \in 1..n : c[i] = ReleasePage(c[i - 1], q[i]) BY <1>6
<1> QED BY <1>7, <1>8 DEF c

\* free_overflow_chain gives back exactly the pages of the chain.
LEMMA ChainIsGiven ==
  ASSUME NEW s, NEW N, SpaceIs(s, N), NEW c, NEW n \in Nat, c \in [1..n -> N], Len(c) = n,
         \A j, l \in 1..n : c[j] = c[l] => j = l, \A j \in 1..n : s.page[c[j]].kind # "slab"
  PROVE  LET t == ReleaseChain(s, c)
         IN SpaceIs(t, N \ Elements(c, n)) /\ Agree(s, t, N \ Elements(c, n))
<1> DEFINE f == Given(s, c)
           At(i) == SpaceIs(f[i], N \ Elements(c, i)) /\ Agree(s, f[i], N \ Elements(c, i))
           Done == { i \in Nat : i <= n => At(i) }
<1>1. f[0] = s /\ \A i \in 1..n : f[i] = ReleasePage(f[i - 1], c[i]) BY GivenIsDefined
<1> HIDE DEF f
<1>2. 0 \in Done
  <2>1. Elements(c, 0) = {} /\ N \ {} = N BY DEF Elements
  <2>2. At(0) BY <1>1, <2>1 DEF Agree
  <2> QED BY <2>2
<1>3. ASSUME NEW i \in Nat, i \in Done PROVE i + 1 \in Done
  <2>1. SUFFICES ASSUME i + 1 <= n PROVE At(i + 1) OBVIOUS
  <2>2. At(i) BY <1>3, <2>1
  <2> DEFINE k == i + 1
             M == N \ Elements(c, i)
             p == c[k]
             u == f[i]
  <2>3. k \in 1..n /\ i = k - 1 /\ 1..k = (1..i) \cup {k} /\ \A j \in 1..i : j \in 1..n /\ j # k BY <2>1
  <2>4. f[k] = ReleasePage(u, p) BY <1>1, <2>3
  <2>5. p \in M BY <2>3 DEF Elements
  <2>6. u.page[p].kind # "slab"
    <3>1. u.page[p] = s.page[p] BY <2>2, <2>5 DEF Agree
    <3> QED BY <3>1, <2>3
  <2>7. SpaceIs(u, M) /\ Agree(s, u, M) BY <2>2
  <2>8. N \ Elements(c, k) = M \ {p} BY <2>3 DEF Elements
  <2> HIDE DEF k, M, p, u
  <2>9. SpaceIs(f[k], M \ {p}) /\ Agree(u, f[k], M \ {p}) BY <2>4, <2>5, <2>6, <2>7, ReleaseIs
  <2>10. Agree(s, f[k], M \ {p}) BY <2>7, <2>9 DEF Agree
  <2>11. SpaceIs(f[k], N \ Elements(c, k)) /\ Agree(s, f[k], N \ Elements(c, k)) BY <2>8, <2>9, <2>10
  <2> QED BY <2>11 DEF k
<1> HIDE DEF Done
<1>4. n \in Done BY <1>2, <1>3, EveryNatural
<1>5. At(n) BY <1>4 DEF Done
<1> QED BY <1>5, ReleaseChainIs DEF f

-----------------------------------------------------------------------------
(* Walks: the pages of a list, from its first.                             *)

Onward(pages, kind, q) ==
  IF pages[Last(q)].kind # kind THEN q
  ELSE IF pages[Last(q)].next = None THEN q ELSE Append(q, pages[Last(q)].next)
Walk(pages, kind, p) == CHOOSE f : f = [i \in 0..Len(pages) |-> IF i = 0 THEN <<p>> ELSE Onward(pages, kind, f[i - 1])]

\* A walk as the last of its steps.
LEMMA PagesFromIs ==
  ASSUME NEW pages, NEW kind, NEW p PROVE PagesFrom(pages, kind, p) = Walk(pages, kind, p)[Len(pages)]
BY DEF PagesFrom, Walk, Onward

\* The steps of a walk, one from the other.
LEMMA WalkIsDefined ==
  ASSUME NEW pages, NEW kind, NEW p, Len(pages) \in Nat
  PROVE  LET f == Walk(pages, kind, p)
         IN f[0] = <<p>> /\ \A i \in 1..Len(pages) : f[i] = Onward(pages, kind, f[i - 1])
<1> DEFINE n == Len(pages)
           Upto(k, f) == f = [i \in 0..k |-> IF i = 0 THEN <<p>> ELSE Onward(pages, kind, f[i - 1])]
           Done == { k \in Nat : \E f : Upto(k, f) }
<1>1. 0 \in Done
  <2> DEFINE f == [i \in 0..0 |-> <<p>>]
  <2>1. f = [i \in 0..0 |-> IF i = 0 THEN <<p>> ELSE Onward(pages, kind, f[i - 1])] OBVIOUS
  <2>2. Upto(0, f) BY <2>1
  <2> HIDE DEF f, Upto
  <2> QED BY <2>2
<1>2. ASSUME NEW k \in Nat, k \in Done PROVE k + 1 \in Done
  <2>1. PICK f : Upto(k, f) BY <1>2
  <2> DEFINE g == [i \in 0..k + 1 |-> IF i = k + 1 THEN Onward(pages, kind, f[k]) ELSE f[i]]
  <2>2. \A i \in 0..k : i \in 0..k + 1 /\ i # k + 1 /\ g[i] = f[i] OBVIOUS
  <2>3. g[k + 1] = Onward(pages, kind, f[k]) /\ DOMAIN g = 0..k + 1 OBVIOUS
  <2>4. ASSUME NEW i \in 0..k + 1 PROVE g[i] = IF i = 0 THEN <<p>> ELSE Onward(pages, kind, g[i - 1])
    <3>1. CASE i = k + 1
      <4>1. i - 1 = k /\ i # 0 /\ g[k] = f[k] BY <3>1, <2>2
      <4> QED BY <4>1, <3>1, <2>3
    <3>2. CASE i # k + 1
      <4>1. i \in 0..k /\ g[i] = f[i] /\ (i # 0 => i - 1 \in 0..k /\ g[i - 1] = f[i - 1]) BY <3>2, <2>2
      <4>2. f[i] = IF i = 0 THEN <<p>> ELSE Onward(pages, kind, f[i - 1]) BY <4>1, <2>1
      <4> QED BY <4>1, <4>2
    <3> QED BY <3>1, <3>2
  <2>5. Upto(k + 1, g) BY <2>3, <2>4
  <2> HIDE DEF g, Upto
  <2> QED BY <2>5
<1> HIDE DEF Done
<1>3. n \in Done BY <1>1, <1>2, EveryNatural
<1>4. PICK f : Upto(n, f) BY <1>3 DEF Done
<1>5. f = [i \in 0..Len(pages) |-> IF i = 0 THEN <<p>> ELSE Onward(pages, kind, f[i - 1])] BY <1>4
<1> DEFINE c == Walk(pages, kind, p)
<1>6. c = [i \in 0..Len(pages) |-> IF i = 0 THEN <<p>> ELSE Onward(pages, kind, c[i - 1])] BY <1>5 DEF Walk
<1> HIDE DEF c
<1>7. c[0] = <<p>> BY <1>6
<1>8. \A i \in 1..n : c[i] = Onward(pages, kind, c[i - 1]) BY <1>6
<1> QED BY <1>7, <1>8 DEF c

\* A list without repetition is no longer than the file.
LEMMA NoMoreThan ==
  ASSUME NEW n \in Nat, NEW k \in Nat, NEW c \in [1..n -> 1..k], \A j, l \in 1..n : c[j] = c[l] => j = l
  PROVE  n <= k
<1>1. IsFiniteSet(1..n) /\ Cardinality(1..n) = n
  <2>1. 1 \in Int /\ n \in Int /\ (IF 1 > n THEN 0 ELSE n - 1 + 1) = n OBVIOUS
  <2> QED BY <2>1, FS_Interval
<1>2. IsFiniteSet(1..k) /\ Cardinality(1..k) = k
  <2>1. 1 \in Int /\ k \in Int /\ (IF 1 > k THEN 0 ELSE k - 1 + 1) = k OBVIOUS
  <2> QED BY <2>1, FS_Interval
<1>3. ~(k < n) BY <1>1, <1>2, FS_PigeonHole
<1> QED BY <1>3

\* A list of pages that follow each other is walked whole.
Follow(pages, kind, c, n) ==
  /\ Len(pages) \in Nat /\ n \in Nat \ {0} /\ c \in [1..n -> 1..Len(pages)] /\ \A j, l \in 1..n : c[j] = c[l] => j = l
  /\ \A j \in 1..n : pages[c[j]].kind = kind /\ pages[c[j]].next = IF j < n THEN c[j + 1] ELSE None

\* A list of pages that follow each other is walked whole.
LEMMA WalkIs ==
  ASSUME NEW pages, NEW kind, NEW n, NEW c, Follow(pages, kind, c, n)
  PROVE  PagesFrom(pages, kind, c[1]) = c
<1> USE DEF Follow
<1> DEFINE f == Walk(pages, kind, c[1])
           S == 1..Len(pages)
           m(k) == IF k + 1 <= n THEN k + 1 ELSE n
           Is(q, k) == q \in Seq(S) /\ Len(q) = k /\ \A j \in 1..k : q[j] = c[j]
           Done == { i \in Nat : i <= Len(pages) => Is(f[i], m(i)) }
<1>1. f[0] = <<c[1]>> /\ \A i \in 1..Len(pages) : f[i] = Onward(pages, kind, f[i - 1]) BY WalkIsDefined
<1> HIDE DEF f
<1>2. 0 \in Done
  <2>1. m(0) = 1 /\ c[1] \in S OBVIOUS
  <2> DEFINE q == <<c[1]>>
  <2>2. q \in Seq(S) /\ Len(q) = 1 /\ q[1] = c[1] BY <2>1
  <2>3. Is(q, 1) BY <2>2
  <2> QED BY <1>1, <2>1, <2>3
<1>3. ASSUME NEW i \in Nat, i \in Done PROVE i + 1 \in Done
  <2>1. SUFFICES ASSUME i + 1 <= Len(pages) PROVE Is(f[i + 1], m(i + 1)) OBVIOUS
  <2> DEFINE q == f[i]
             k == m(i)
  <2>2. Is(q, k) BY <1>3, <2>1
  <2>3. k \in 1..n /\ k \in 1..k BY <2>1
  <2>4. i + 1 \in 1..Len(pages) /\ (i + 1) - 1 = i BY <2>1
  <2>5. f[i + 1] = Onward(pages, kind, q) BY <1>1, <2>4
  <2>6. Last(q) = c[k] BY <2>2, <2>3 DEF Last
  <2>7. pages[c[k]].kind = kind /\ pages[c[k]].next = IF k < n THEN c[k + 1] ELSE None BY <2>3
  <2>8. CASE k < n
    <3>1. k + 1 \in 1..n /\ c[k + 1] \in S /\ c[k + 1] # None /\ m(i + 1) = k + 1 BY <2>3, <2>8 DEF None
    <3>2. f[i + 1] = Append(q, c[k + 1]) BY <2>5, <2>6, <2>7, <2>8, <3>1 DEF Onward
    <3>3. q \in Seq(S) /\ Len(q) = k BY <2>2
    <3> DEFINE x == c[k + 1]
               r == Append(q, x)
    <3>4. r \in Seq(S) /\ Len(r) = k + 1 /\ r[k + 1] = x /\ \A j \in 1..k : r[j] = q[j]
      <4>1. x \in S BY <3>1
      <4> HIDE DEF x, q, k
      <4> QED BY <3>3, <4>1, AppendIs
    <3>5. 1..k + 1 = (1..k) \cup {k + 1} BY <2>3
    <3> HIDE DEF r, k
    <3>6. \A j \in 1..k + 1 : r[j] = c[j] BY <2>2, <3>4, <3>5
    <3>7. Is(r, k + 1) BY <3>4, <3>6
    <3> QED BY <3>1, <3>2, <3>7 DEF r
  <2>9. CASE ~(k < n)
    <3>1. k = n /\ m(i + 1) = k BY <2>3, <2>9
    <3>2. f[i + 1] = q BY <2>5, <2>6, <2>7, <2>9 DEF Onward
    <3> QED BY <2>2, <3>1, <3>2
  <2> QED BY <2>8, <2>9
<1> HIDE DEF Done
<1>4. Len(pages) \in Done BY <1>2, <1>3, EveryNatural
<1>5. Is(f[Len(pages)], m(Len(pages))) BY <1>4 DEF Done
<1>6. n <= Len(pages) BY NoMoreThan
<1>7. m(Len(pages)) = n BY <1>6
<1> DEFINE q == f[Len(pages)]
<1>8. q \in Seq(S) /\ Len(q) = n /\ \A j \in 1..n : q[j] = c[j] BY <1>5, <1>7
<1>9. q = c
  <2> HIDE DEF q
  <2>1. q \in [1..n -> S] BY <1>8
  <2> QED BY <2>1, <1>8
<1> QED BY <1>9, PagesFromIs DEF f

-----------------------------------------------------------------------------
(* Slab pages: what a directory bears, and how its blobs lie.              *)

IsEntry(x) == x = [ent |-> x.ent, off |-> x.off, blob |-> x.blob] /\ x.off \in Int /\ x.blob.len \in Nat
Entries(dirs) == AnySeq(dirs) /\ Len(dirs) \in Nat /\ DOMAIN dirs = 1..Len(dirs) /\ \A i \in 1..Len(dirs) : IsEntry(dirs[i])
Below(x, y) == x.off + x.blob.len <= y.off
ClearOf(x, y) == x.ent # y.ent /\ (Below(x, y) \/ Below(y, x))
Laid(dirs) ==
  /\ Entries(dirs)
  /\ \A i \in 1..Len(dirs) : dirs[i].ent # "freed" => dirs[i].off + dirs[i].blob.len <= Payload
  /\ \A i, j \in 1..Len(dirs) : i # j /\ dirs[i].ent # "freed" /\ dirs[j].ent # "freed" => ClearOf(dirs[i], dirs[j])
SlabIs(dirs) ==
  Laid(dirs) /\ \A i \in 1..Len(dirs) : dirs[i].ent # "freed" => dirs[i].off >= BlobDirEnd(dirs)
Bears(dirs) == { <<dirs[i].ent, dirs[i].blob>> : i \in LiveEntries(dirs) }

FirstOf(g, k, a) == {a} \cup { g[i] : i \in 1..k }

\* Of finitely many integers one is the least.
LEMMA LowestOf ==
  ASSUME NEW n \in Nat, NEW g, \A i \in 1..n : g[i] \in Int, NEW a \in Int
  PROVE  \E x \in FirstOf(g, n, a) : \A y \in FirstOf(g, n, a) : x <= y
<1> DEFINE S(k) == {a} \cup { g[i] : i \in 1..k }
           Low(k) == \E x \in S(k) : \A y \in S(k) : x <= y
           Done == { k \in Nat : k <= n => Low(k) }
<1>1. 0 \in Done
  <2>1. S(0) = {a} OBVIOUS
  <2> HIDE DEF S
  <2>2. Low(0) BY <2>1
  <2> QED BY <2>2
<1>2. ASSUME NEW k \in Nat, k \in Done PROVE k + 1 \in Done
  <2>1. SUFFICES ASSUME k + 1 <= n PROVE Low(k + 1) OBVIOUS
  <2>2. Low(k) BY <1>2, <2>1
  <2>3. 1..k + 1 = (1..k) \cup {k + 1} /\ k + 1 \in 1..n /\ \A i \in 1..k : i \in 1..n BY <2>1
  <2>4. S(k + 1) = S(k) \cup {g[k + 1]} BY <2>3
  <2>5. S(k) \subseteq Int /\ g[k + 1] \in Int BY <2>3
  <2> HIDE DEF S
  <2>6. PICK x \in S(k) : \A y \in S(k) : x <= y BY <2>2
  <2>7. CASE x <= g[k + 1] BY <2>4, <2>6, <2>7
  <2>8. CASE ~(x <= g[k + 1])
    <3>1. \A y \in S(k) : g[k + 1] <= y BY <2>5, <2>6, <2>8
    <3> QED BY <2>4, <2>5, <3>1
  <2> QED BY <2>7, <2>8
<1> HIDE DEF Done
<1>3. n \in Done BY <1>1, <1>2, EveryNatural
<1> QED BY <1>3 DEF Done, FirstOf

\* compute_low_water: the lowest offset, or the end of the page.
LEMMA LowWaterIs ==
  ASSUME NEW dirs, Entries(dirs)
  PROVE  /\ BlobLowWater(dirs) \in Int /\ BlobLowWater(dirs) <= Payload
         /\ \A i \in 1..Len(dirs) : BlobLowWater(dirs) <= dirs[i].off
         /\ BlobLowWater(dirs) = Payload \/ \E i \in 1..Len(dirs) : BlobLowWater(dirs) = dirs[i].off
<1> DEFINE n == Len(dirs)
           S == {Payload} \cup { dirs[i].off : i \in DOMAIN dirs }
           g == [i \in 1..n |-> dirs[i].off]
           T == FirstOf(g, n, Payload)
<1>1. n \in Nat /\ DOMAIN dirs = 1..n /\ \A i \in 1..n : dirs[i].off \in Int BY DEF Entries, IsEntry
<1>2. Payload \in Nat BY OverflowAssumption
<1>3. S = T BY <1>1 DEF FirstOf
<1>4. \A i \in 1..n : g[i] \in Int BY <1>1
<1>5. \E x \in T : \A y \in T : x <= y
  <2> HIDE DEF g
  <2> QED BY <1>1, <1>2, <1>4, LowestOf, SMTT(30)
<1>6. \E x \in S : \A y \in S : x <= y BY <1>3, <1>5
<1> DEFINE low == BlobLowWater(dirs)
<1>7. low \in S /\ \A y \in S : low <= y BY <1>6 DEF BlobLowWater, Min
<1> HIDE DEF low
<1>8. low \in Int BY <1>1, <1>2, <1>7
<1>9. low <= Payload BY <1>7
<1>10. \A i \in 1..n : low <= dirs[i].off BY <1>1, <1>7
<1>11. low = Payload \/ \E i \in 1..n : low = dirs[i].off BY <1>1, <1>7
<1> QED BY <1>8, <1>9, <1>10, <1>11 DEF low

\* The low water is the only number like that.
LEMMA LowWaterIsOnly ==
  ASSUME NEW dirs, Entries(dirs), NEW w \in Int, w <= Payload, \A i \in 1..Len(dirs) : w <= dirs[i].off,
         w = Payload \/ \E i \in 1..Len(dirs) : w = dirs[i].off
  PROVE  BlobLowWater(dirs) = w
<1> DEFINE low == BlobLowWater(dirs)
<1>1. /\ low \in Int /\ low <= Payload /\ \A i \in 1..Len(dirs) : low <= dirs[i].off
      /\ low = Payload \/ \E i \in 1..Len(dirs) : low = dirs[i].off
  BY LowWaterIs
<1> HIDE DEF low
<1>2. Payload \in Nat BY OverflowAssumption
<1>3. low <= w BY <1>1
<1>4. w <= low BY <1>1
<1> QED BY <1>1, <1>3, <1>4 DEF low

\* The end of a directory is a number of bytes.
LEMMA DirEndIs ==
  ASSUME NEW dirs, Len(dirs) \in Nat
  PROVE  BlobDirEnd(dirs) \in Nat
<1>1. BlobDirCount \in Nat /\ BlobDirEntry \in Nat BY OverflowAssumption
<1> QED BY <1>1 DEF BlobDirEnd

\* The free space of a page, when there is some.
LEMMA FreeSpaceIs ==
  ASSUME NEW dirs, Entries(dirs)
  PROVE  BlobFreeSpace(dirs) = IF BlobLowWater(dirs) - BlobDirEnd(dirs) >= 0 THEN BlobLowWater(dirs) - BlobDirEnd(dirs) ELSE 0
<1> DEFINE a == BlobLowWater(dirs) - BlobDirEnd(dirs)
<1>1. a \in Int BY LowWaterIs, DirEndIs DEF Entries
<1>2. BlobFreeSpace(dirs) = CHOOSE x \in {0, a} : \A y \in {0, a} : x >= y BY DEF BlobFreeSpace, Max
<1> HIDE DEF a
<1> DEFINE x == CHOOSE x \in {0, a} : \A y \in {0, a} : x >= y
<1>3. \E z \in {0, a} : \A y \in {0, a} : z >= y BY <1>1
<1>4. x \in {0, a} /\ \A y \in {0, a} : x >= y BY <1>3
<1> HIDE DEF x
<1>5. x = IF a >= 0 THEN a ELSE 0 BY <1>1, <1>4
<1> QED BY <1>2, <1>5 DEF a, x

IsOver(g, n) == g = [i \in 1..n |-> g[i]]

\* A function on a directory's places is a directory of that length.
LEMMA TableIsSeq ==
  ASSUME NEW n \in Nat, NEW g, IsOver(g, n)
  PROVE  AnySeq(g) /\ Len(g) = n
<1> DEFINE S == { g[i] : i \in 1..n }
<1>1. g \in [1..n -> S] BY DEF IsOver
<1> HIDE DEF S
<1>2. g \in Seq(S) /\ Len(g) = n BY <1>1
<1> QED BY <1>2 DEF AnySeq

\* remove_entry: the entity bears nothing, all else is as it was.
LEMMA FreeEntryIs ==
  ASSUME NEW dirs, Laid(dirs), NEW e, e # "freed"
  PROVE  LET r == FreeEntry(dirs, e)
         IN /\ Laid(r) /\ Len(r) = Len(dirs) /\ BlobLowWater(r) = BlobLowWater(dirs) /\ BlobDirEnd(r) = BlobDirEnd(dirs)
            /\ Bears(r) = { b \in Bears(dirs) : b[1] # e }
            /\ \A i \in 1..Len(dirs) : /\ r[i].off = dirs[i].off /\ r[i].blob = dirs[i].blob
                                       /\ r[i].ent = IF dirs[i].ent = e THEN "freed" ELSE dirs[i].ent
<1> DEFINE r == FreeEntry(dirs, e)
           n == Len(dirs)
<1>1. n \in Nat /\ DOMAIN dirs = 1..n /\ \A i \in 1..n : IsEntry(dirs[i]) BY DEF Laid, Entries
<1>2. r = [i \in 1..n |-> IF dirs[i].ent = e THEN [dirs[i] EXCEPT !.ent = "freed"] ELSE dirs[i]] BY <1>1 DEF FreeEntry
<1> HIDE DEF r
<1>3. DOMAIN r = 1..n /\ IsOver(r, n) BY <1>2 DEF IsOver
<1>4. AnySeq(r) /\ Len(r) = n BY <1>1, <1>3, TableIsSeq
<1>5. ASSUME NEW i \in 1..n
      PROVE  /\ r[i].off = dirs[i].off /\ r[i].blob = dirs[i].blob
             /\ r[i].ent = IF dirs[i].ent = e THEN "freed" ELSE dirs[i].ent
             /\ IsEntry(r[i])
  <2> DEFINE x == dirs[i]
  <2>1. IsEntry(x) /\ r[i] = IF x.ent = e THEN [x EXCEPT !.ent = "freed"] ELSE x BY <1>1, <1>2
  <2> HIDE DEF x
  <2>2. CASE x.ent # e BY <2>1, <2>2 DEF x
  <2>3. CASE x.ent = e
    <3>1. r[i] = [ent |-> "freed", off |-> x.off, blob |-> x.blob] BY <2>1, <2>3 DEF IsEntry
    <3>2. x.off \in Int /\ x.blob.len \in Nat BY <2>1 DEF IsEntry
    <3> QED BY <2>3, <3>1, <3>2 DEF IsEntry, x
  <2> QED BY <2>2, <2>3
<1>6. Entries(r) BY <1>1, <1>3, <1>4, <1>5 DEF Entries
<1>7. \A i \in 1..n : r[i].ent # "freed" => dirs[i].ent # "freed" /\ r[i].ent = dirs[i].ent /\ dirs[i].ent # e BY <1>5
<1>8. Laid(r)
  <2>1. \A i \in 1..n : r[i].ent # "freed" => r[i].off + r[i].blob.len <= Payload BY <1>5, <1>7 DEF Laid
  <2>2. ASSUME NEW i \in 1..n, NEW j \in 1..n, i # j, r[i].ent # "freed", r[j].ent # "freed" PROVE ClearOf(r[i], r[j])
    <3>1. ClearOf(dirs[i], dirs[j]) BY <1>7, <2>2 DEF Laid
    <3>2. /\ r[i].off = dirs[i].off /\ r[i].blob = dirs[i].blob /\ r[i].ent = dirs[i].ent
          /\ r[j].off = dirs[j].off /\ r[j].blob = dirs[j].blob /\ r[j].ent = dirs[j].ent
      BY <1>5, <1>7, <2>2
    <3> QED BY <3>1, <3>2 DEF ClearOf, Below
  <2> QED BY <1>4, <1>6, <2>1, <2>2 DEF Laid
<1>9. BlobDirEnd(r) = BlobDirEnd(dirs) BY <1>4 DEF BlobDirEnd
<1>10. BlobLowWater(r) = BlobLowWater(dirs)
  <2>1. { r[i].off : i \in DOMAIN r } = { dirs[i].off : i \in DOMAIN dirs } BY <1>1, <1>3, <1>5
  <2> QED BY <2>1 DEF BlobLowWater
<1>11. Bears(r) = { b \in Bears(dirs) : b[1] # e }
  <2>1. ASSUME NEW b \in Bears(r) PROVE b \in Bears(dirs) /\ b[1] # e
    <3>1. PICK i \in 1..n : r[i].ent # "freed" /\ b = <<r[i].ent, r[i].blob>> BY <1>3 DEF Bears, LiveEntries
    <3>2. b = <<dirs[i].ent, dirs[i].blob>> /\ dirs[i].ent # "freed" /\ dirs[i].ent # e BY <1>5, <1>7, <3>1
    <3> QED BY <1>1, <3>2 DEF Bears, LiveEntries
  <2>2. ASSUME NEW b \in Bears(dirs), b[1] # e PROVE b \in Bears(r)
    <3>1. PICK i \in 1..n : dirs[i].ent # "freed" /\ b = <<dirs[i].ent, dirs[i].blob>> BY <1>1 DEF Bears, LiveEntries
    <3>2. dirs[i].ent # e BY <2>2, <3>1
    <3>3. r[i].ent = dirs[i].ent /\ r[i].blob = dirs[i].blob BY <1>5, <3>2
    <3> QED BY <1>3, <3>1, <3>3 DEF Bears, LiveEntries
  <2> QED BY <2>1, <2>2
<1> QED BY <1>4, <1>5, <1>8, <1>9, <1>10, <1>11 DEF r

\* Freeing an entry leaves the others where they lie.
LEMMA FreeEntryIsSlab ==
  ASSUME NEW dirs, SlabIs(dirs), NEW e, e # "freed"
  PROVE  SlabIs(FreeEntry(dirs, e))
<1> DEFINE r == FreeEntry(dirs, e)
<1>1. Laid(dirs) BY DEF SlabIs
<1>2. /\ Laid(r) /\ Len(r) = Len(dirs) /\ BlobDirEnd(r) = BlobDirEnd(dirs)
      /\ \A i \in 1..Len(dirs) : /\ r[i].off = dirs[i].off
                                 /\ r[i].ent = IF dirs[i].ent = e THEN "freed" ELSE dirs[i].ent
  BY <1>1, FreeEntryIs
<1> HIDE DEF r
<1>3. ASSUME NEW i \in 1..Len(r), r[i].ent # "freed" PROVE r[i].off >= BlobDirEnd(r)
  <2>1. i \in 1..Len(dirs) /\ dirs[i].ent # "freed" /\ r[i].off = dirs[i].off BY <1>2, <1>3
  <2>2. dirs[i].off >= BlobDirEnd(dirs) BY <2>1 DEF SlabIs
  <2> QED BY <2>1, <2>2, <1>2
<1>4. SlabIs(r) BY <1>2, <1>3 DEF SlabIs
<1> QED BY <1>4 DEF r

\* A blob placed under the low water of a directory.
LEMMA PlaceLaid ==
  ASSUME NEW dirs, Laid(dirs), NEW e, e # "freed", NEW blob, blob.len \in Nat, \A b \in Bears(dirs) : b[1] # e
  PROVE  LET r == Append(dirs, [ent |-> e, off |-> BlobLowWater(dirs) - blob.len, blob |-> blob])
         IN /\ Laid(r) /\ Bears(r) = Bears(dirs) \cup {<<e, blob>>} /\ BlobLowWater(r) = BlobLowWater(dirs) - blob.len
            /\ Len(r) = Len(dirs) + 1 /\ BlobDirEnd(r) = BlobDirEnd(dirs) + BlobDirEntry
<1> DEFINE n == Len(dirs)
           low == BlobLowWater(dirs)
           x == [ent |-> e, off |-> low - blob.len, blob |-> blob]
           r == Append(dirs, x)
<1>1. Entries(dirs) /\ AnySeq(dirs) /\ n \in Nat /\ DOMAIN dirs = 1..n /\ \A i \in 1..n : IsEntry(dirs[i]) BY DEF Laid, Entries
<1>2. low \in Int /\ low <= Payload /\ \A i \in 1..n : low <= dirs[i].off BY <1>1, LowWaterIs
<1>4. BlobDirCount \in Nat /\ BlobDirEntry \in Nat /\ Payload \in Nat BY OverflowAssumption
<1> HIDE DEF low
<1>6. IsEntry(x) /\ x.ent = e /\ x.off = low - blob.len /\ x.blob = blob BY <1>2 DEF IsEntry
<1>7. r = Append(dirs, x) OBVIOUS
<1> HIDE DEF x, r
<1>8. AnySeq(r) /\ Len(r) = n + 1 /\ r[n + 1] = x /\ \A k \in 1..n : r[k] = dirs[k] BY <1>1, <1>7, PageAdded
<1>9. 1..n + 1 = (1..n) \cup {n + 1} /\ n + 1 \notin 1..n /\ n + 1 \in Nat BY <1>1
<1>10. DOMAIN r = 1..n + 1 BY <1>8 DEF AnySeq
<1>11. Entries(r) BY <1>1, <1>6, <1>8, <1>9, <1>10 DEF Entries
<1>12. BlobDirEnd(r) = BlobDirEnd(dirs) + BlobDirEntry BY <1>1, <1>4, <1>8 DEF BlobDirEnd
<1>13. \A i \in 1..n : dirs[i].ent # "freed" => dirs[i].ent # e
  <2>1. \A i \in 1..n : dirs[i].ent # "freed" => <<dirs[i].ent, dirs[i].blob>> \in Bears(dirs) BY <1>1 DEF Bears, LiveEntries
  <2> QED BY <2>1
<1>14. ASSUME NEW i \in 1..n, dirs[i].ent # "freed" PROVE ClearOf(dirs[i], x) /\ ClearOf(x, dirs[i])
  <2>1. dirs[i].ent # e /\ low <= dirs[i].off /\ dirs[i].off \in Int BY <1>1, <1>2, <1>13, <1>14 DEF IsEntry
  <2>2. x.off + x.blob.len <= dirs[i].off BY <1>2, <1>6, <2>1
  <2> QED BY <1>6, <2>1, <2>2 DEF ClearOf, Below
<1>15. \A i \in 1..n + 1 : r[i].ent # "freed" => r[i].off + r[i].blob.len <= Payload
  <2>1. x.off + x.blob.len <= Payload BY <1>2, <1>4, <1>6
  <2>2. \A i \in 1..n : dirs[i].ent # "freed" => dirs[i].off + dirs[i].blob.len <= Payload BY DEF Laid
  <2> QED BY <2>1, <2>2, <1>8, <1>9
<1>16. ASSUME NEW i \in 1..n + 1, NEW j \in 1..n + 1, i # j, r[i].ent # "freed", r[j].ent # "freed" PROVE ClearOf(r[i], r[j])
  <2>1. CASE i = n + 1
    <3>1. j \in 1..n /\ r[j] = dirs[j] /\ r[i] = x BY <1>8, <1>9, <1>16, <2>1
    <3> QED BY <1>14, <1>16, <3>1
  <2>2. CASE j = n + 1
    <3>1. i \in 1..n /\ r[i] = dirs[i] /\ r[j] = x BY <1>8, <1>9, <1>16, <2>2
    <3> QED BY <1>14, <1>16, <3>1
  <2>3. CASE i # n + 1 /\ j # n + 1
    <3>1. i \in 1..n /\ j \in 1..n /\ r[i] = dirs[i] /\ r[j] = dirs[j] BY <1>8, <1>9, <2>3
    <3> QED BY <1>16, <3>1 DEF Laid
  <2> QED BY <2>1, <2>2, <2>3
<1>17. Laid(r) BY <1>8, <1>11, <1>15, <1>16 DEF Laid
<1>18. BlobLowWater(r) = low - blob.len
  <2> DEFINE w == low - blob.len
  <2>1. w \in Int /\ w <= Payload /\ w <= low BY <1>2, <1>4
  <2>2. \A i \in 1..n : w <= r[i].off
    <3>1. \A i \in 1..n : low <= dirs[i].off /\ dirs[i].off \in Int BY <1>1, <1>2 DEF IsEntry
    <3> QED BY <1>2, <1>8, <2>1, <3>1
  <2>3. w <= r[n + 1].off /\ w = r[n + 1].off BY <1>6, <1>8, <2>1
  <2> HIDE DEF w
  <2>4. (\A i \in 1..Len(r) : w <= r[i].off) /\ \E i \in 1..Len(r) : w = r[i].off BY <1>8, <1>9, <2>2, <2>3
  <2>5. BlobLowWater(r) = w BY <1>11, <2>1, <2>4, LowWaterIsOnly
  <2> QED BY <2>5 DEF w
<1>20. Bears(r) = Bears(dirs) \cup {<<e, blob>>}
  <2>1. LiveEntries(r) = LiveEntries(dirs) \cup {n + 1} BY <1>1, <1>6, <1>8, <1>9, <1>10 DEF LiveEntries
  <2>2. \A i \in LiveEntries(dirs) : r[i] = dirs[i] BY <1>1, <1>8 DEF LiveEntries
  <2>3. r[n + 1].ent = e /\ r[n + 1].blob = blob BY <1>6, <1>8
  <2> QED BY <2>1, <2>2, <2>3 DEF Bears
<1> QED BY <1>8, <1>12, <1>17, <1>18, <1>20 DEF r, x, low

\* With the low water above the directory, no blob meets it.
LEMMA LaidIsSlab ==
  ASSUME NEW dirs, Laid(dirs), BlobLowWater(dirs) >= BlobDirEnd(dirs)
  PROVE  SlabIs(dirs)
<1>1. Entries(dirs) /\ Len(dirs) \in Nat BY DEF Laid, Entries
<1>2. BlobLowWater(dirs) \in Int /\ \A i \in 1..Len(dirs) : BlobLowWater(dirs) <= dirs[i].off BY <1>1, LowWaterIs
<1>3. BlobDirEnd(dirs) \in Nat BY <1>1, DirEndIs
<1>4. \A i \in 1..Len(dirs) : dirs[i].off \in Int BY <1>1 DEF Entries, IsEntry
<1>5. \A i \in 1..Len(dirs) : dirs[i].off >= BlobDirEnd(dirs) BY <1>2, <1>3, <1>4
<1> QED BY <1>5 DEF SlabIs

\* An empty page bears nothing and is free up to its end.
LEMMA EmptySlab ==
  /\ Laid(<<>>) /\ SlabIs(<<>>) /\ Bears(<<>>) = {} /\ BlobLowWater(<<>>) = Payload /\ BlobDirEnd(<<>>) = BlobDirCount
<1>1. Len(<<>>) = 0 /\ DOMAIN <<>> = {} /\ 1..0 = {} OBVIOUS
<1>2. AnySeq(<<>>)
  <2>1. <<>> \in Seq({}) OBVIOUS
  <2> QED BY <2>1 DEF AnySeq
<1>3. Entries(<<>>) BY <1>1, <1>2 DEF Entries
<1>4. Laid(<<>>) /\ SlabIs(<<>>) BY <1>1, <1>3 DEF Laid, SlabIs
<1>5. Payload \in Nat /\ BlobDirCount \in Nat /\ BlobDirEntry \in Nat BY OverflowAssumption
<1>6. BlobLowWater(<<>>) = Payload BY <1>1, <1>3, <1>5, LowWaterIsOnly
<1>7. BlobDirEnd(<<>>) = BlobDirCount BY <1>1, <1>5 DEF BlobDirEnd
<1>8. Bears(<<>>) = {} BY <1>1 DEF Bears, LiveEntries
<1> QED BY <1>4, <1>6, <1>7, <1>8

PackOne(above, x) ==
  IF x.ent = "freed" THEN above
  ELSE [dirs |-> Append(above.dirs, [x EXCEPT !.off = above.low - x.blob.len]), low |-> above.low - x.blob.len]
Unpacked == [dirs |-> <<>>, low |-> Payload]
Packed(dirs) == CHOOSE f : f = [i \in 0..Len(dirs) |-> IF i = 0 THEN Unpacked ELSE PackOne(f[i - 1], dirs[i])]

\* Compaction as the last of its steps.
LEMMA CompactIs ==
  ASSUME NEW dirs PROVE Compact(dirs) = Packed(dirs)[Len(dirs)].dirs
BY DEF Compact, Packed, PackOne, Unpacked

\* The steps of a compaction, one from the other.
LEMMA PackedIsDefined ==
  ASSUME NEW dirs, Len(dirs) \in Nat
  PROVE  LET f == Packed(dirs)
         IN f[0] = Unpacked /\ \A i \in 1..Len(dirs) : f[i] = PackOne(f[i - 1], dirs[i])
<1> DEFINE n == Len(dirs)
           Upto(k, f) == f = [i \in 0..k |-> IF i = 0 THEN Unpacked ELSE PackOne(f[i - 1], dirs[i])]
           Done == { k \in Nat : \E f : Upto(k, f) }
<1>1. 0 \in Done
  <2> DEFINE f == [i \in 0..0 |-> Unpacked]
  <2>1. f = [i \in 0..0 |-> IF i = 0 THEN Unpacked ELSE PackOne(f[i - 1], dirs[i])] OBVIOUS
  <2>2. Upto(0, f) BY <2>1
  <2> HIDE DEF f, Upto
  <2> QED BY <2>2
<1>2. ASSUME NEW k \in Nat, k \in Done PROVE k + 1 \in Done
  <2>1. PICK f : Upto(k, f) BY <1>2
  <2> DEFINE g == [i \in 0..k + 1 |-> IF i = k + 1 THEN PackOne(f[k], dirs[k + 1]) ELSE f[i]]
  <2>2. \A i \in 0..k : i \in 0..k + 1 /\ i # k + 1 /\ g[i] = f[i] OBVIOUS
  <2>3. g[k + 1] = PackOne(f[k], dirs[k + 1]) /\ DOMAIN g = 0..k + 1 OBVIOUS
  <2>4. ASSUME NEW i \in 0..k + 1 PROVE g[i] = IF i = 0 THEN Unpacked ELSE PackOne(g[i - 1], dirs[i])
    <3>1. CASE i = k + 1
      <4>1. i - 1 = k /\ i # 0 /\ g[k] = f[k] BY <3>1, <2>2
      <4> QED BY <4>1, <3>1, <2>3
    <3>2. CASE i # k + 1
      <4>1. i \in 0..k /\ g[i] = f[i] /\ (i # 0 => i - 1 \in 0..k /\ g[i - 1] = f[i - 1]) BY <3>2, <2>2
      <4>2. f[i] = IF i = 0 THEN Unpacked ELSE PackOne(f[i - 1], dirs[i]) BY <4>1, <2>1
      <4> QED BY <4>1, <4>2
    <3> QED BY <3>1, <3>2
  <2>5. Upto(k + 1, g) BY <2>3, <2>4
  <2> HIDE DEF g, Upto
  <2> QED BY <2>5
<1> HIDE DEF Done
<1>3. n \in Done BY <1>1, <1>2, EveryNatural
<1>4. PICK f : Upto(n, f) BY <1>3 DEF Done
<1>5. f = [i \in 0..Len(dirs) |-> IF i = 0 THEN Unpacked ELSE PackOne(f[i - 1], dirs[i])] BY <1>4
<1> DEFINE c == Packed(dirs)
<1>6. c = [i \in 0..Len(dirs) |-> IF i = 0 THEN Unpacked ELSE PackOne(c[i - 1], dirs[i])] BY <1>5 DEF Packed
<1> HIDE DEF c
<1>7. c[0] = Unpacked BY <1>6
<1>8. \A i \in 1..n : c[i] = PackOne(c[i - 1], dirs[i]) BY <1>6
<1> QED BY <1>7, <1>8 DEF c

\* What the first k entries bear.
BearsUpto(dirs, k) == { <<dirs[j].ent, dirs[j].blob>> : j \in { j \in 1..k : dirs[j].ent # "freed" } }
Packs(dirs, k, r) == Laid(r.dirs) /\ BlobLowWater(r.dirs) = r.low /\ Bears(r.dirs) = BearsUpto(dirs, k)

\* After i steps of a compaction the first i live blobs are packed.
LEMMA PackedHolds ==
  ASSUME NEW dirs, Laid(dirs)
  PROVE  \A k \in 0..Len(dirs) : Packs(dirs, k, Packed(dirs)[k])
<1> DEFINE n == Len(dirs)
           f == Packed(dirs)
           Done == { k \in Nat : k <= n => Packs(dirs, k, f[k]) }
<1>0. n \in Nat /\ \A i \in 1..n : IsEntry(dirs[i]) BY DEF Laid, Entries
<1>1. f[0] = Unpacked /\ \A i \in 1..n : f[i] = PackOne(f[i - 1], dirs[i]) BY <1>0, PackedIsDefined
<1> HIDE DEF f
<1>2. 0 \in Done
  <2>1. f[0].dirs = <<>> /\ f[0].low = Payload BY <1>1 DEF Unpacked
  <2>2. BearsUpto(dirs, 0) = {} BY DEF BearsUpto
  <2>3. Packs(dirs, 0, f[0]) BY <2>1, <2>2, EmptySlab DEF Packs
  <2> QED BY <2>3
<1>3. ASSUME NEW i \in Nat, i \in Done PROVE i + 1 \in Done
  <2>1. SUFFICES ASSUME i + 1 <= n PROVE Packs(dirs, i + 1, f[i + 1]) OBVIOUS
  <2>2. Packs(dirs, i, f[i]) BY <1>0, <1>3, <2>1
  <2> DEFINE k == i + 1
             x == dirs[k]
             r == f[i]
  <2>3. k \in 1..n /\ k - 1 = i /\ 1..k = (1..i) \cup {k} /\ \A j \in 1..i : j \in 1..n /\ j # k BY <1>0, <2>1
  <2>4. f[k] = PackOne(r, x) /\ IsEntry(x) BY <1>0, <1>1, <2>3
  <2>5. Laid(r.dirs) /\ BlobLowWater(r.dirs) = r.low /\ Bears(r.dirs) = BearsUpto(dirs, i) BY <2>2 DEF Packs
  <2>6. CASE x.ent = "freed"
    <3>1. BearsUpto(dirs, k) = BearsUpto(dirs, i) BY <2>3, <2>6 DEF BearsUpto
    <3>2. f[k] = r BY <2>4, <2>6 DEF PackOne
    <3> QED BY <2>5, <3>1, <3>2 DEF Packs
  <2>7. CASE x.ent # "freed"
    <3>1. BearsUpto(dirs, k) = BearsUpto(dirs, i) \cup {<<x.ent, x.blob>>} BY <2>3, <2>7 DEF BearsUpto
    <3>2. \A b \in Bears(r.dirs) : b[1] # x.ent
      <4>1. \A j \in 1..i : dirs[j].ent # "freed" => dirs[j].ent # x.ent
        <5>1. \A j \in 1..i : dirs[j].ent # "freed" => ClearOf(dirs[j], dirs[k]) BY <2>3, <2>7 DEF Laid
        <5> QED BY <5>1 DEF ClearOf
      <4> QED BY <2>5, <4>1 DEF BearsUpto
    <3> DEFINE q == r.dirs
               e == x.ent
               blob == x.blob
               t == Append(q, [ent |-> e, off |-> BlobLowWater(q) - blob.len, blob |-> blob])
    <3>3. [x EXCEPT !.off = r.low - x.blob.len] = [ent |-> e, off |-> BlobLowWater(q) - blob.len, blob |-> blob]
      BY <2>4, <2>5 DEF IsEntry
    <3>4. f[k] = [dirs |-> t, low |-> BlobLowWater(q) - blob.len]
      <4>1. PackOne(r, x) = [dirs |-> Append(r.dirs, [x EXCEPT !.off = r.low - x.blob.len]), low |-> r.low - x.blob.len]
        BY <2>7 DEF PackOne
      <4> QED BY <2>4, <2>5, <3>3, <4>1
    <3>5. e # "freed" /\ blob.len \in Nat BY <2>4, <2>7 DEF IsEntry
    <3>6. Laid(q) /\ \A b \in Bears(q) : b[1] # e BY <2>5, <3>2
    <3> HIDE DEF q, e, blob
    <3>7. Laid(t) /\ Bears(t) = Bears(q) \cup {<<e, blob>>} /\ BlobLowWater(t) = BlobLowWater(q) - blob.len
      BY <3>5, <3>6, PlaceLaid
    <3> HIDE DEF t
    <3>8. f[k].dirs = t /\ f[k].low = BlobLowWater(q) - blob.len BY <3>4
    <3>9. Bears(t) = BearsUpto(dirs, k) BY <2>5, <3>1, <3>7 DEF q, e, blob
    <3> QED BY <3>7, <3>8, <3>9 DEF Packs
  <2> QED BY <2>6, <2>7
<1> HIDE DEF Done
<1>4. \A k \in Nat : k \in Done BY <1>2, <1>3, EveryNatural
<1>5. \A k \in 0..n : Packs(dirs, k, f[k]) BY <1>0, <1>4 DEF Done
<1> QED BY <1>5 DEF f

\* compact keeps what the directory bears.
LEMMA CompactKeeps ==
  ASSUME NEW dirs, Laid(dirs)
  PROVE  LET c == Compact(dirs)
         IN Laid(c) /\ Bears(c) = Bears(dirs) /\ BlobLowWater(c) = Packed(dirs)[Len(dirs)].low
<1> DEFINE n == Len(dirs)
<1>1. n \in Nat /\ n \in 0..n /\ DOMAIN dirs = 1..n BY DEF Laid, Entries
<1>2. Packs(dirs, n, Packed(dirs)[n]) BY <1>1, PackedHolds
<1>3. BearsUpto(dirs, n) = Bears(dirs) BY <1>1 DEF BearsUpto, Bears, LiveEntries
<1> QED BY <1>2, <1>3, CompactIs DEF Packs

\* Freeing an entry first leaves a compacted page no less room.
LEMMA CompactLess ==
  ASSUME NEW dirs, Laid(dirs), NEW e, e # "freed"
  PROVE  LET c == Compact(dirs)
             d == Compact(FreeEntry(dirs, e))
         IN BlobLowWater(d) >= BlobLowWater(c) /\ BlobDirEnd(d) <= BlobDirEnd(c)
<1> DEFINE g == FreeEntry(dirs, e)
           n == Len(dirs)
           f == Packed(dirs)
           h == Packed(g)
           Less(k) == h[k].low >= f[k].low /\ Len(h[k].dirs) <= Len(f[k].dirs)
           Done == { k \in Nat : k <= n => Less(k) }
<1>0. n \in Nat /\ \A i \in 1..n : IsEntry(dirs[i]) BY DEF Laid, Entries
<1>1. /\ Laid(g) /\ Len(g) = n
      /\ \A i \in 1..n : g[i].blob = dirs[i].blob /\ g[i].ent = IF dirs[i].ent = e THEN "freed" ELSE dirs[i].ent
  BY FreeEntryIs
<1> HIDE DEF g
<1>2. f[0] = Unpacked /\ \A i \in 1..n : f[i] = PackOne(f[i - 1], dirs[i]) BY <1>0, PackedIsDefined
<1>3. h[0] = Unpacked /\ \A i \in 1..n : h[i] = PackOne(h[i - 1], g[i]) BY <1>0, <1>1, PackedIsDefined
<1>4. \A k \in 0..n : Packs(dirs, k, f[k]) BY PackedHolds
<1>5. \A k \in 0..n : Packs(g, k, h[k]) BY <1>1, PackedHolds
<1> HIDE DEF f, h
<1>6. \A k \in 0..n : f[k].low \in Int /\ Len(f[k].dirs) \in Nat /\ AnySeq(f[k].dirs)
  BY <1>4, LowWaterIs DEF Packs, Laid, Entries
<1>7. \A k \in 0..n : h[k].low \in Int /\ Len(h[k].dirs) \in Nat /\ AnySeq(h[k].dirs)
  BY <1>5, LowWaterIs DEF Packs, Laid, Entries
<1>8. 0 \in Done
  <2>1. Unpacked.low \in Int BY OverflowAssumption DEF Unpacked
  <2>2. Len(Unpacked.dirs) \in Nat BY DEF Unpacked
  <2> QED BY <1>2, <1>3, <2>1, <2>2
<1>9. ASSUME NEW i \in Nat, i \in Done PROVE i + 1 \in Done
  <2>1. SUFFICES ASSUME i + 1 <= n PROVE Less(i + 1) OBVIOUS
  <2>2. Less(i) BY <1>0, <1>9, <2>1
  <2> DEFINE k == i + 1
             x == dirs[k]
             y == g[k]
  <2>3. k \in 1..n /\ k - 1 = i /\ i \in 0..n BY <1>0, <2>1
  <2>4. f[k] = PackOne(f[i], x) /\ h[k] = PackOne(h[i], y) BY <1>2, <1>3, <2>3
  <2>5. y.blob = x.blob /\ x.blob.len \in Nat /\ y.ent = IF x.ent = e THEN "freed" ELSE x.ent BY <1>0, <1>1, <2>3 DEF IsEntry
  <2>6. /\ f[i].low \in Int /\ Len(f[i].dirs) \in Nat /\ h[i].low \in Int /\ Len(h[i].dirs) \in Nat
        /\ AnySeq(f[i].dirs) /\ AnySeq(h[i].dirs)
    BY <1>6, <1>7, <2>3
  <2> HIDE DEF k, x, y
  <2>7. CASE x.ent = "freed"
    <3>1. f[k] = f[i] /\ h[k] = h[i] BY <2>4, <2>5, <2>7 DEF PackOne
    <3> QED BY <2>2, <3>1 DEF k
  <2>8. CASE x.ent # "freed"
    <3>1. f[k].low = f[i].low - x.blob.len /\ f[k].dirs = Append(f[i].dirs, [x EXCEPT !.off = f[i].low - x.blob.len])
      BY <2>4, <2>8 DEF PackOne
    <3>2. Len(f[k].dirs) = Len(f[i].dirs) + 1 BY <2>6, <3>1, PageAdded
    <3>3. CASE y.ent = "freed"
      <4>1. h[k] = h[i] BY <2>4, <3>3 DEF PackOne
      <4>2. h[k].low >= f[k].low BY <2>2, <2>5, <2>6, <3>1, <4>1
      <4>3. Len(h[k].dirs) <= Len(f[k].dirs) BY <2>2, <2>6, <3>2, <4>1
      <4> QED BY <4>2, <4>3 DEF k
    <3>4. CASE y.ent # "freed"
      <4>1. h[k].low = h[i].low - y.blob.len /\ h[k].dirs = Append(h[i].dirs, [y EXCEPT !.off = h[i].low - y.blob.len])
        BY <2>4, <3>4 DEF PackOne
      <4>2. Len(h[k].dirs) = Len(h[i].dirs) + 1 BY <2>6, <4>1, PageAdded
      <4>3. h[k].low >= f[k].low BY <2>2, <2>5, <2>6, <3>1, <4>1
      <4>4. Len(h[k].dirs) <= Len(f[k].dirs) BY <2>2, <2>6, <3>2, <4>2
      <4> QED BY <4>3, <4>4 DEF k
    <3> QED BY <3>3, <3>4
  <2> QED BY <2>7, <2>8
<1> HIDE DEF Done
<1>10. n \in Done BY <1>0, <1>8, <1>9, EveryNatural
<1>11. Less(n) BY <1>0, <1>10 DEF Done
<1>12. Compact(dirs) = f[n].dirs /\ Compact(g) = h[n].dirs BY <1>1, CompactIs DEF f, h
<1>13. BlobLowWater(f[n].dirs) = f[n].low /\ BlobLowWater(h[n].dirs) = h[n].low BY <1>0, <1>4, <1>5 DEF Packs
<1>14. BlobDirEnd(h[n].dirs) <= BlobDirEnd(f[n].dirs)
  <2> DEFINE a == Len(h[n].dirs)
             b == Len(f[n].dirs)
  <2>1. n \in 0..n BY <1>0
  <2>2. a \in Nat /\ b \in Nat /\ a <= b BY <2>1, <1>6, <1>7, <1>11
  <2>3. BlobDirEntry \in Nat /\ BlobDirCount \in Nat BY OverflowAssumption
  <2> HIDE DEF a, b
  <2>4. a * BlobDirEntry <= b * BlobDirEntry
    <3>1. b - a \in Nat BY <2>2
    <3>2. (b - a) * BlobDirEntry \in Nat BY <2>3, <3>1
    <3>3. b * BlobDirEntry = a * BlobDirEntry + (b - a) * BlobDirEntry BY <2>2, <2>3
    <3>4. a * BlobDirEntry \in Nat BY <2>2, <2>3
    <3> QED BY <3>2, <3>3, <3>4
  <2>5. a * BlobDirEntry \in Nat /\ b * BlobDirEntry \in Nat BY <2>2, <2>3
  <2> QED BY <2>3, <2>4, <2>5 DEF BlobDirEnd, a, b
<1> QED BY <1>11, <1>12, <1>13, <1>14 DEF g

\* write_blob, in a page that has room: the entity bears the blob, all others
\* what they bore.
LEMMA WriteBlobIs ==
  ASSUME NEW dirs, SlabIs(dirs), NEW e, e # "freed", NEW blob, blob.len \in Nat, HasRoomFor(dirs, blob.len)
  PROVE  LET r == WriteBlob(dirs, e, blob)
         IN SlabIs(r) /\ Bears(r) = { b \in Bears(dirs) : b[1] # e } \cup {<<e, blob>>}
<1> DEFINE freed == FreeEntry(dirs, e)
           need == blob.len + BlobDirEntry
           ready == IF BlobFreeSpace(freed) < need THEN Compact(freed) ELSE freed
<1>1. Laid(dirs) BY DEF SlabIs
<1>2. Laid(freed) /\ BlobLowWater(freed) = BlobLowWater(dirs) /\ BlobDirEnd(freed) = BlobDirEnd(dirs) /\ Bears(freed) = { b \in Bears(dirs) : b[1] # e }
  BY <1>1, FreeEntryIs
<1>3. BlobDirEntry \in Nat \ {0} /\ need \in Nat \ {0} BY OverflowAssumption
<1>4. WriteBlob(dirs, e, blob) = Append(ready, [ent |-> e, off |-> BlobLowWater(ready) - blob.len, blob |-> blob])
  BY DEF WriteBlob
<1>5. Laid(Compact(freed)) /\ Bears(Compact(freed)) = Bears(freed) BY <1>2, CompactKeeps
<1>6. Laid(Compact(dirs)) BY <1>1, CompactKeeps
<1>7. BlobLowWater(Compact(freed)) >= BlobLowWater(Compact(dirs)) /\ BlobDirEnd(Compact(freed)) <= BlobDirEnd(Compact(dirs))
  BY <1>1, CompactLess
<1>8. BlobFreeSpace(dirs) >= need \/ BlobFreeSpace(Compact(dirs)) >= need BY DEF HasRoomFor
<1> HIDE DEF need
<1>9. \A q : Laid(q) => /\ BlobLowWater(q) \in Int /\ BlobDirEnd(q) \in Nat
                        /\ BlobFreeSpace(q) \in Nat
                        /\ BlobFreeSpace(q) >= need <=> BlobLowWater(q) - BlobDirEnd(q) >= need
  <2> SUFFICES ASSUME NEW q, Laid(q)
               PROVE  /\ BlobLowWater(q) \in Int /\ BlobDirEnd(q) \in Nat
                      /\ BlobFreeSpace(q) \in Nat
                      /\ BlobFreeSpace(q) >= need <=> BlobLowWater(q) - BlobDirEnd(q) >= need
    OBVIOUS
  <2>1. Entries(q) /\ Len(q) \in Nat BY DEF Laid, Entries
  <2>2. BlobLowWater(q) \in Int /\ BlobDirEnd(q) \in Nat BY <2>1, LowWaterIs, DirEndIs
  <2>3. BlobFreeSpace(q) = IF BlobLowWater(q) - BlobDirEnd(q) >= 0 THEN BlobLowWater(q) - BlobDirEnd(q) ELSE 0 BY <2>1, FreeSpaceIs
  <2> QED BY <1>3, <2>2, <2>3
<1> HIDE DEF freed
<1>10. Laid(ready) /\ Bears(ready) = Bears(freed) BY <1>2, <1>5
<1>11. BlobLowWater(ready) - BlobDirEnd(ready) >= need
  <2>1. CASE BlobFreeSpace(freed) < need
    <3>1. ~(BlobFreeSpace(freed) >= need) BY <1>2, <1>3, <1>9, <2>1
    <3>2. ~(BlobFreeSpace(dirs) >= need) BY <1>1, <1>2, <1>9, <3>1
    <3>3. BlobLowWater(Compact(dirs)) - BlobDirEnd(Compact(dirs)) >= need BY <1>6, <1>8, <1>9, <3>2
    <3> DEFINE a == BlobLowWater(Compact(dirs))
               b == BlobDirEnd(Compact(dirs))
               c == BlobLowWater(Compact(freed))
               d == BlobDirEnd(Compact(freed))
    <3>4. a \in Int /\ b \in Nat BY <1>6, <1>9
    <3>5. c \in Int /\ d \in Nat BY <1>5, <1>9
    <3>6. c >= a /\ d <= b /\ a - b >= need BY <1>7, <3>3 DEF freed
    <3> HIDE DEF a, b, c, d
    <3>7. c - d >= need BY <1>3, <3>4, <3>5, <3>6
    <3> QED BY <2>1, <3>7 DEF c, d
  <2>2. CASE ~(BlobFreeSpace(freed) < need)
    <3>1. BlobFreeSpace(freed) >= need BY <1>2, <1>3, <1>9, <2>2
    <3> QED BY <1>2, <1>9, <2>2, <3>1
  <2> QED BY <2>1, <2>2
<1> HIDE DEF ready
<1>12. \A b \in Bears(ready) : b[1] # e BY <1>2, <1>10
<1> DEFINE r == Append(ready, [ent |-> e, off |-> BlobLowWater(ready) - blob.len, blob |-> blob])
<1>13. /\ Laid(r) /\ Bears(r) = Bears(ready) \cup {<<e, blob>>} /\ BlobLowWater(r) = BlobLowWater(ready) - blob.len
       /\ BlobDirEnd(r) = BlobDirEnd(ready) + BlobDirEntry
  BY <1>10, <1>12, PlaceLaid
<1> HIDE DEF r
<1>14. BlobLowWater(r) >= BlobDirEnd(r)
  <2>1. BlobLowWater(ready) \in Int /\ BlobDirEnd(ready) \in Nat BY <1>9, <1>10
  <2> QED BY <2>1, <1>3, <1>11, <1>13 DEF need
<1>15. SlabIs(r) BY <1>13, <1>14, LaidIsSlab
<1>16. WriteBlob(dirs, e, blob) = r BY <1>4 DEF r, ready, need
<1> QED BY <1>2, <1>10, <1>13, <1>15, <1>16

\* An empty page has room for a blob that may share one.
LEMMA RoomInEmpty ==
  ASSUME NEW len \in Nat, len <= MaxPackedBlob
  PROVE  HasRoomFor(<<>>, len)
<1>1. Payload \in Nat /\ BlobDirCount \in Nat /\ BlobDirEntry \in Nat BY OverflowAssumption
<1>2. Entries(<<>>) BY EmptySlab DEF Laid
<1>3. BlobFreeSpace(<<>>) = IF Payload - BlobDirCount >= 0 THEN Payload - BlobDirCount ELSE 0 BY <1>2, EmptySlab, FreeSpaceIs
<1>4. len + BlobDirEntry <= Payload - BlobDirCount BY <1>1 DEF MaxPackedBlob
<1>5. BlobFreeSpace(<<>>) >= len + BlobDirEntry BY <1>1, <1>3, <1>4
<1> QED BY <1>5 DEF HasRoomFor

\* read_blob finds what the entity bears.
LEMMA ReadBlobIs ==
  ASSUME NEW dirs, Laid(dirs), NEW e, e # "freed", NEW blob, <<e, blob>> \in Bears(dirs)
  PROVE  ReadBlob(dirs, e) = blob
<1> DEFINE n == Len(dirs)
           mine == { i \in DOMAIN dirs : dirs[i].ent = e }
<1>1. n \in Nat /\ DOMAIN dirs = 1..n BY DEF Laid, Entries
<1>2. PICK k \in 1..n : dirs[k].ent # "freed" /\ <<e, blob>> = <<dirs[k].ent, dirs[k].blob>> BY <1>1 DEF Bears, LiveEntries
<1>3. dirs[k].ent = e /\ dirs[k].blob = blob BY <1>2
<1>4. \A i \in 1..n : dirs[i].ent = e => i = k BY <1>3 DEF Laid, ClearOf
<1>5. mine = {k} BY <1>1, <1>3, <1>4
<1>6. Min({k}) = k
  <2>1. k \in Int BY <1>1
  <2> QED BY <2>1 DEF Min
<1>7. ReadBlob(dirs, e) = IF mine = {} THEN NoBlob ELSE dirs[Min(mine)].blob BY DEF ReadBlob
<1> HIDE DEF mine
<1> QED BY <1>3, <1>5, <1>6, <1>7

-----------------------------------------------------------------------------
(* Ownership: the pages N in use, for the blobs H held.                    *)

IsHolding(h) == h = [ent |-> h.ent, at |-> h.at, blob |-> h.blob] /\ h.ent # "freed" /\ h.blob.len \in Nat
Kept(H, p) == { <<h.ent, h.blob>> : h \in { g \in H : g.at = p } }
Size(h) == ChainLength(h.blob.len)
ChainIs(pg, N, h, c) ==
  /\ Size(h) \in Nat \ {0} /\ c \in [1..Size(h) -> N] /\ \A j, l \in 1..Size(h) : c[j] = c[l] => j = l
  /\ c[1] = h.at /\ \A j \in 1..Size(h) : pg[c[j]] = LinkAt(h.blob, c, j)
OwnSlab(pg, H, p) ==
  pg[p].kind = "slab" /\ SlabIs(pg[p].dirs) /\ Bears(pg[p].dirs) = Kept(H, p) /\ Kept(H, p) # {}
OwnChain(pg, N, H, p) ==
  pg[p].kind = "chain" /\ \E h \in H : \E c : ChainIs(pg, N, h, c) /\ p \in Elements(c, Size(h))
HoldingsAre(H, N) ==
  /\ \A h \in H : IsHolding(h) /\ h.at \in N
  /\ \A g, h \in H : g.blob.id = h.blob.id => g = h
Owned(pg, N, H) ==
  /\ HoldingsAre(H, N)
  /\ \A p \in N : OwnSlab(pg, H, p) \/ OwnChain(pg, N, H, p)
  /\ \A h \in H : pg[h.at].kind = "chain" => \E c : ChainIs(pg, N, h, c)

\* The pages of a chain hold the parts of one blob.
LEMMA ChainPagesAre ==
  ASSUME NEW pg, NEW N, NEW h, NEW c, ChainIs(pg, N, h, c), NEW j \in 1..Size(h)
  PROVE  c[j] \in N /\ pg[c[j]] = LinkAt(h.blob, c, j) /\ pg[c[j]].kind = "chain" /\ pg[c[j]].blob = h.blob
<1>1. c[j] \in N /\ pg[c[j]] = LinkAt(h.blob, c, j) BY DEF ChainIs
<1>2. LinkAt(h.blob, c, j).kind = "chain" /\ LinkAt(h.blob, c, j).blob = h.blob BY DEF LinkAt
<1> QED BY <1>1, <1>2

\* A chain whose pages are kept is kept.
LEMMA ChainMoves ==
  ASSUME NEW pg, NEW N, NEW h, NEW c, ChainIs(pg, N, h, c), NEW qg, NEW M,
         \A j \in 1..Size(h) : c[j] \in M /\ qg[c[j]] = pg[c[j]]
  PROVE  ChainIs(qg, M, h, c)
BY DEF ChainIs

\* Ownership depends on the pages in use only.
LEMMA OwnedAgrees ==
  ASSUME NEW pg, NEW N, NEW H, Owned(pg, N, H), NEW qg, \A p \in N : qg[p] = pg[p]
  PROVE  Owned(qg, N, H)
<1>1. ASSUME NEW h, NEW c, ChainIs(pg, N, h, c) PROVE ChainIs(qg, N, h, c)
  <2>1. \A j \in 1..Size(h) : c[j] \in N /\ qg[c[j]] = pg[c[j]] BY <1>1, ChainPagesAre
  <2> QED BY <1>1, <2>1, ChainMoves
<1>2. HoldingsAre(H, N) BY DEF Owned
<1>3. ASSUME NEW p \in N PROVE OwnSlab(qg, H, p) \/ OwnChain(qg, N, H, p)
  <2>1. qg[p] = pg[p] /\ (OwnSlab(pg, H, p) \/ OwnChain(pg, N, H, p)) BY DEF Owned
  <2>2. CASE OwnSlab(pg, H, p) BY <2>1, <2>2 DEF OwnSlab
  <2>3. CASE OwnChain(pg, N, H, p) BY <1>1, <2>1, <2>3 DEF OwnChain
  <2> QED BY <2>1, <2>2, <2>3
<1>4. ASSUME NEW h \in H, qg[h.at].kind = "chain" PROVE \E c : ChainIs(qg, N, h, c)
  <2>1. qg[h.at] = pg[h.at] BY <1>2 DEF HoldingsAre
  <2>2. \E c : ChainIs(pg, N, h, c) BY <1>4, <2>1 DEF Owned
  <2> QED BY <1>1, <2>2
<1> QED BY <1>2, <1>3, <1>4 DEF Owned

\* A new chain.
LEMMA ChainJoins ==
  ASSUME NEW pg, NEW N, NEW H, Owned(pg, N, H), NEW qg, \A p \in N : qg[p] = pg[p],
         NEW h, IsHolding(h), \A g \in H : g.blob.id # h.blob.id, NEW c, NEW E,
         E = Elements(c, Size(h)), \A p \in E : p \notin N, ChainIs(qg, E, h, c)
  PROVE  Owned(qg, N \cup E, H \cup {h})
<1> DEFINE M == N \cup E
           G == H \cup {h}
<1>1. Owned(qg, N, H) BY OwnedAgrees
<1>2. HoldingsAre(H, N) BY DEF Owned
<1>3. ChainIs(qg, M, h, c)
  <2>1. \A j \in 1..Size(h) : c[j] \in M /\ qg[c[j]] = qg[c[j]] BY ChainPagesAre
  <2> QED BY <2>1, ChainMoves
<1>4. ASSUME NEW g, NEW d, ChainIs(qg, N, g, d) PROVE ChainIs(qg, M, g, d)
  <2>1. \A j \in 1..Size(g) : d[j] \in M /\ qg[d[j]] = qg[d[j]] BY <1>4, ChainPagesAre
  <2> QED BY <1>4, <2>1, ChainMoves
<1>5. h.at \in E
  <2>1. 1 \in 1..Size(h) /\ c[1] = h.at BY DEF ChainIs
  <2> QED BY <2>1, ChainPagesAre
<1>6. HoldingsAre(G, M) BY <1>2, <1>5 DEF HoldingsAre
<1>7. ASSUME NEW p \in N PROVE Kept(G, p) = Kept(H, p)
  <2>1. h.at # p BY <1>5
  <2> QED BY <2>1 DEF Kept
<1>8. ASSUME NEW p \in M PROVE OwnSlab(qg, G, p) \/ OwnChain(qg, M, G, p)
  <2>1. CASE p \in N
    <3>1. OwnSlab(qg, H, p) \/ OwnChain(qg, N, H, p) BY <1>1, <2>1 DEF Owned
    <3>2. CASE OwnSlab(qg, H, p) BY <1>7, <2>1, <3>2 DEF OwnSlab
    <3>3. CASE OwnChain(qg, N, H, p)
      <4>1. PICK g \in H : \E d : ChainIs(qg, N, g, d) /\ p \in Elements(d, Size(g)) BY <3>3 DEF OwnChain
      <4>2. PICK d : ChainIs(qg, N, g, d) /\ p \in Elements(d, Size(g)) BY <4>1
      <4>3. ChainIs(qg, M, g, d) /\ g \in G BY <1>4, <4>2
      <4>4. qg[p].kind = "chain" BY <3>3 DEF OwnChain
      <4> HIDE DEF M, G
      <4> QED BY <4>2, <4>3, <4>4 DEF OwnChain
    <3> QED BY <3>1, <3>2, <3>3
  <2>2. CASE p \in E
    <3>1. PICK j \in 1..Size(h) : p = c[j] BY <2>2 DEF Elements
    <3>2. qg[p].kind = "chain" BY <3>1, ChainPagesAre
    <3>3. h \in G OBVIOUS
    <3> HIDE DEF M, G
    <3> QED BY <1>3, <2>2, <3>2, <3>3 DEF OwnChain
  <2> QED BY <2>1, <2>2
<1>9. ASSUME NEW g \in G, qg[g.at].kind = "chain" PROVE \E d : ChainIs(qg, M, g, d)
  <2>1. CASE g = h BY <1>3, <2>1
  <2>2. CASE g \in H
    <3>1. \E d : ChainIs(qg, N, g, d) BY <1>1, <1>9, <2>2 DEF Owned
    <3> QED BY <1>4, <3>1
  <2> QED BY <2>1, <2>2
<1> QED BY <1>6, <1>8, <1>9 DEF Owned

\* A page's place in the chain is the one the walk finds.
LEMMA ChainWalk ==
  ASSUME NEW pg, NEW N, Len(pg) \in Nat, N \subseteq 1..Len(pg), NEW h, NEW c, ChainIs(pg, N, h, c)
  PROVE  ChainPages(pg, h.at) = c
<1> DEFINE n == Size(h)
<1>1. n \in Nat \ {0} /\ c \in [1..n -> 1..Len(pg)] /\ (\A j, l \in 1..n : c[j] = c[l] => j = l) /\ c[1] = h.at BY DEF ChainIs
<1>2. ASSUME NEW j \in 1..n PROVE pg[c[j]].kind = "chain" /\ pg[c[j]].next = IF j < n THEN c[j + 1] ELSE None
  <2>1. pg[c[j]] = LinkAt(h.blob, c, j) /\ pg[c[j]].kind = "chain" BY ChainPagesAre
  <2>2. LinkAt(h.blob, c, j).next = IF j < n THEN c[j + 1] ELSE None BY DEF LinkAt, Size
  <2> QED BY <2>1, <2>2
<1> HIDE DEF n
<1>4. Follow(pg, "chain", c, n) BY <1>1, <1>2 DEF Follow
<1>3. PagesFrom(pg, "chain", c[1]) = c BY <1>4, WalkIs
<1> QED BY <1>1, <1>3 DEF ChainPages

\* A chain goes.
LEMMA ChainLeaves ==
  ASSUME NEW pg, NEW N, NEW H, Owned(pg, N, H), Len(pg) \in Nat, N \subseteq 1..Len(pg),
         NEW h \in H, NEW c, ChainIs(pg, N, h, c)
  PROVE  Owned(pg, N \ Elements(c, Size(h)), H \ {h})
<1> DEFINE E == Elements(c, Size(h))
           M == N \ E
           G == H \ {h}
<1>1. HoldingsAre(H, N) BY DEF Owned
<1>2. \A p \in E : pg[p].kind = "chain" /\ pg[p].blob = h.blob BY ChainPagesAre DEF Elements
<1>3. \A g \in G : g.blob # h.blob BY <1>1 DEF HoldingsAre
<1>4. ASSUME NEW g \in G, NEW d, ChainIs(pg, N, g, d) PROVE ChainIs(pg, M, g, d)
  <2>1. ASSUME NEW j \in 1..Size(g) PROVE d[j] \in M /\ pg[d[j]] = pg[d[j]]
    <3>1. d[j] \in N /\ pg[d[j]].blob = g.blob BY <1>4, ChainPagesAre
    <3> QED BY <1>2, <1>3, <3>1
  <2> QED BY <1>4, <2>1, ChainMoves
<1>5. ASSUME NEW g \in G PROVE g.at \in M
  <2>1. g.at \in N BY <1>1 DEF HoldingsAre
  <2>2. CASE pg[g.at].kind = "chain"
    <3>1. PICK d : ChainIs(pg, N, g, d) BY <2>2 DEF Owned
    <3>2. 1 \in 1..Size(g) /\ d[1] = g.at BY <3>1 DEF ChainIs
    <3>3. pg[g.at].blob = g.blob BY <3>1, <3>2, ChainPagesAre
    <3> QED BY <1>2, <1>3, <2>1, <3>3
  <2>3. CASE pg[g.at].kind # "chain" BY <1>2, <2>1, <2>3
  <2> QED BY <2>2, <2>3
<1>6. HoldingsAre(G, M) BY <1>1, <1>5 DEF HoldingsAre
<1>7. h.at \in E
  <2>1. 1 \in 1..Size(h) /\ c[1] = h.at BY DEF ChainIs
  <2> QED BY <2>1 DEF Elements
<1>8. ASSUME NEW p \in M PROVE OwnSlab(pg, G, p) \/ OwnChain(pg, M, G, p)
  <2>1. OwnSlab(pg, H, p) \/ OwnChain(pg, N, H, p) BY DEF Owned
  <2>2. CASE OwnSlab(pg, H, p)
    <3>1. h.at # p BY <1>7
    <3>2. Kept(G, p) = Kept(H, p) BY <3>1 DEF Kept
    <3> QED BY <2>2, <3>2 DEF OwnSlab
  <2>3. CASE OwnChain(pg, N, H, p)
    <3>1. PICK g \in H : \E d : ChainIs(pg, N, g, d) /\ p \in Elements(d, Size(g)) BY <2>3 DEF OwnChain
    <3>2. PICK d : ChainIs(pg, N, g, d) /\ p \in Elements(d, Size(g)) BY <3>1
    <3>3. g # h
      <4>1. SUFFICES ASSUME g = h PROVE FALSE OBVIOUS
      <4>2. ChainPages(pg, h.at) = c BY ChainWalk
      <4>3. ChainPages(pg, h.at) = d BY <3>2, <4>1, ChainWalk
      <4> QED BY <3>2, <4>1, <4>2, <4>3
    <3>4. g \in G /\ ChainIs(pg, M, g, d) BY <1>4, <3>2, <3>3
    <3>5. pg[p].kind = "chain" BY <2>3 DEF OwnChain
    <3> HIDE DEF M, G
    <3> QED BY <3>2, <3>4, <3>5 DEF OwnChain
  <2> QED BY <2>1, <2>2, <2>3
<1>9. ASSUME NEW g \in G, pg[g.at].kind = "chain" PROVE \E d : ChainIs(pg, M, g, d)
  <2>1. \E d : ChainIs(pg, N, g, d) BY <1>9 DEF Owned
  <2> QED BY <1>4, <2>1
<1> QED BY <1>6, <1>8, <1>9 DEF Owned

\* A slab page p changes: what is held elsewhere stays as it was.
Changes(pg, N, H, qg, M, G, p) ==
  /\ M \in {N, N \ {p}, N \cup {p}} /\ (p \in N => pg[p].kind = "slab")
  /\ \A q \in N \ {p} : qg[q] = pg[q]
  /\ \A h \in G : h.at # p => h \in H
  /\ \A h \in H : h.at # p => h \in G
  /\ HoldingsAre(G, M)
  /\ p \in M => OwnSlab(qg, G, p)

\* Ownership after a change to one slab page.
LEMMA SlabChanges ==
  ASSUME NEW pg, NEW N, NEW H, Owned(pg, N, H), NEW qg, NEW G, NEW M, NEW p, Changes(pg, N, H, qg, M, G, p)
  PROVE  Owned(qg, M, G)
<1> USE DEF Changes
<1>1. ASSUME NEW h, NEW c, ChainIs(pg, N, h, c) PROVE ChainIs(qg, M, h, c) /\ h.at # p
  <2>1. ASSUME NEW j \in 1..Size(h) PROVE c[j] \in M /\ qg[c[j]] = pg[c[j]] /\ c[j] # p
    <3>1. c[j] \in N /\ pg[c[j]].kind = "chain" BY <1>1, ChainPagesAre
    <3>2. c[j] # p BY <3>1
    <3> QED BY <3>1, <3>2
  <2>2. 1 \in 1..Size(h) /\ c[1] = h.at BY <1>1 DEF ChainIs
  <2>3. h.at # p BY <2>1, <2>2
  <2> QED BY <1>1, <2>1, <2>3, ChainMoves
<1>2. ASSUME NEW q \in M PROVE OwnSlab(qg, G, q) \/ OwnChain(qg, M, G, q)
  <2>1. CASE q = p BY <2>1
  <2>2. CASE q # p
    <3>1. q \in N /\ qg[q] = pg[q] BY <2>2
    <3>2. OwnSlab(pg, H, q) \/ OwnChain(pg, N, H, q) BY <3>1 DEF Owned
    <3>3. CASE OwnSlab(pg, H, q)
      <4>1. { g \in G : g.at = q } = { g \in H : g.at = q } BY <2>2
      <4>2. Kept(G, q) = Kept(H, q) BY <4>1 DEF Kept
      <4> QED BY <3>1, <3>3, <4>2 DEF OwnSlab
    <3>4. CASE OwnChain(pg, N, H, q)
      <4>1. PICK g \in H : \E d : ChainIs(pg, N, g, d) /\ q \in Elements(d, Size(g)) BY <3>4 DEF OwnChain
      <4>2. PICK d : ChainIs(pg, N, g, d) /\ q \in Elements(d, Size(g)) BY <4>1
      <4>3. ChainIs(qg, M, g, d) /\ g \in G BY <1>1, <4>2
      <4>4. qg[q].kind = "chain" BY <3>1, <3>4 DEF OwnChain
      <4> QED BY <4>2, <4>3, <4>4 DEF OwnChain
    <3> QED BY <3>2, <3>3, <3>4
  <2> QED BY <2>1, <2>2
<1>3. ASSUME NEW h \in G, qg[h.at].kind = "chain" PROVE \E c : ChainIs(qg, M, h, c)
  <2>1. h.at \in M BY DEF HoldingsAre
  <2>2. h.at # p BY <1>3, <2>1 DEF OwnSlab
  <2>3. h.at \in N /\ h \in H /\ qg[h.at] = pg[h.at] BY <2>1, <2>2
  <2>4. \E c : ChainIs(pg, N, h, c) BY <1>3, <2>3 DEF Owned
  <2> QED BY <1>1, <2>4
<1> QED BY <1>2, <1>3 DEF Owned

-----------------------------------------------------------------------------
(* graph.rs: storing a blob, releasing one.                                *)

OpenIs(s, N) == s.open = None \/ (s.open \in N /\ s.page[s.open].kind = "slab")
Sound(s, N, H) == SpaceIs(s, N) /\ Owned(s.page, N, H) /\ OpenIs(s, N)
Holding(e, p, blob) == [ent |-> e, at |-> p, blob |-> blob]
Others(H, e, p) == { g \in H : ~(g.at = p /\ g.ent = e) }

\* What a holding is made of.
LEMMA HoldingIs ==
  ASSUME NEW e, NEW p, NEW blob, e # "freed", blob.len \in Nat
  PROVE  LET h == Holding(e, p, blob) IN IsHolding(h) /\ h.ent = e /\ h.at = p /\ h.blob = blob /\ Size(h) = ChainLength(blob.len)
BY DEF Holding, IsHolding, Size

\* Which page is open is no concern of the free list.
LEMMA OpenMoves ==
  ASSUME NEW s, NEW N, SpaceIs(s, N), NEW x
  PROVE  LET t == [s EXCEPT !.open = x] IN SpaceIs(t, N) /\ t.page = s.page /\ t.open = x
<1> DEFINE t == [s EXCEPT !.open = x]
<1>1. IsSpace(s) BY DEF SpaceIs
<1>2. IsSpace(t) /\ t.page = s.page /\ t.head = s.head /\ t.spare = s.spare /\ t.count = s.count /\ t.open = x
  BY <1>1 DEF IsSpace, SpaceFields
<1> HIDE DEF t
<1>3. SpaceIs(t, N)
  <2>1. PICK m, D, En : FreeIs(s, (1..Len(s.page)) \ N, m, D, En) BY DEF SpaceIs
  <2>2. FreeIs(t, (1..Len(t.page)) \ N, m, D, En) BY <1>2, <2>1 DEF FreeIs
  <2> QED BY <1>2, <2>2 DEF SpaceIs
<1> QED BY <1>2, <1>3 DEF t

AgreeBut(s, t, p) == \A q \in 1..Len(s.page) : q # p => t.page[q] = s.page[q]

\* One write of a page in use.
LEMMA WriteOnce ==
  ASSUME NEW s, NEW N, SpaceIs(s, N), NEW p, p \in N, NEW x
  PROVE  LET t == WritePage(s, p, x) IN SpaceIs(t, N) /\ t.page[p] = x /\ AgreeBut(s, t, p) /\ Len(t.page) = Len(s.page) /\ t.open = s.open
BY WriteUsed DEF AgreeBut

\* Two writes of a page in use.
LEMMA WriteTwice ==
  ASSUME NEW s, NEW N, SpaceIs(s, N), NEW p, p \in N, NEW x, NEW y
  PROVE  LET t == WritePage(WritePage(s, p, x), p, y)
         IN SpaceIs(t, N) /\ t.page[p] = y /\ AgreeBut(s, t, p)
<1> DEFINE b == WritePage(s, p, x)
           t == WritePage(b, p, y)
<1>1. SpaceIs(b, N) /\ Len(b.page) = Len(s.page) /\ AgreeBut(s, b, p) BY WriteOnce
<1> HIDE DEF b
<1>2. SpaceIs(t, N) /\ t.page[p] = y /\ AgreeBut(b, t, p) BY <1>1, WriteOnce
<1> HIDE DEF t
<1>3. AgreeBut(s, t, p) BY <1>1, <1>2 DEF AgreeBut
<1> QED BY <1>2, <1>3 DEF t, b

Opened(s, p, x, y) == [WritePage(WritePage(s, p, x), p, y) EXCEPT !.open = p]

Gained(s, N, v, p) == p \notin N /\ SpaceIs(v, N \cup {p}) /\ Agree(s, v, N)
Filled(s, N, t, p, y) ==
  SpaceIs(t, N \cup {p}) /\ t.page[p] = y /\ t.open = p /\ \A q \in N : t.page[q] = s.page[q]

\* A fresh page is blanked, filled and opened.
LEMMA OpenedIs ==
  ASSUME NEW s, NEW N, NEW v, NEW p, Gained(s, N, v, p), NEW x, NEW y
  PROVE  Filled(s, N, Opened(v, p, x, y), p, y)
<1> USE DEF Gained
<1> DEFINE M == N \cup {p}
           w == WritePage(WritePage(v, p, x), p, y)
           t == [w EXCEPT !.open = p]
<1>1. SpaceIs(v, M) /\ p \in M OBVIOUS
<1>2. N \subseteq 1..Len(v.page) BY <1>1 DEF SpaceIs
<1> HIDE DEF M
<1>3. SpaceIs(w, M) /\ w.page[p] = y /\ AgreeBut(v, w, p) BY <1>1, WriteTwice
<1> HIDE DEF w
<1>4. SpaceIs(t, M) /\ t.page = w.page /\ t.open = p BY <1>3, OpenMoves
<1> HIDE DEF t
<1>5. \A q \in N : t.page[q] = s.page[q]
  <2>1. \A q \in N : q # p /\ q \in 1..Len(v.page) /\ v.page[q] = s.page[q] BY <1>2 DEF Agree
  <2> QED BY <1>3, <1>4, <2>1 DEF AgreeBut
<1> QED BY <1>3, <1>4, <1>5 DEF M, t, w, Opened, Filled

\* A large blob is stored in a chain of its own.
LEMMA StoreChain ==
  ASSUME NEW s, NEW N, NEW H, Sound(s, N, H), NEW e, e # "freed", NEW blob, blob.len \in Nat,
         \A g \in H : g.blob.id # blob.id
  PROVE  LET r == WriteChain(s, blob)
         IN /\ r.page \in Nat \ {0}
            /\ \E M : Sound(r.s, M, Others(H, e, r.page) \cup {Holding(e, r.page, blob)})
<1> DEFINE n == ChainLength(blob.len)
           r == WriteChain(s, blob)
           t == r.s
<1>0. SpaceIs(s, N) /\ Owned(s.page, N, H) /\ OpenIs(s, N) /\ HoldingsAre(H, N) BY DEF Sound, Owned
<1>1. n \in Nat \ {0} /\ \E c : Linked(s, t, N, blob, c, n, n) /\ r.page = c[1] BY <1>0, ChainIsWritten
<1>2. PICK c : Linked(s, t, N, blob, c, n, n) /\ r.page = c[1] BY <1>1
<1> HIDE DEF r
<1> DEFINE h == Holding(e, c[1], blob)
           E == Elements(c, n)
           M == N \cup E
<1>3. /\ c \in [1..n -> Nat \ {0}] /\ (\A j, l \in 1..n : c[j] = c[l] => j = l) /\ (\A j \in 1..n : c[j] \notin N)
      /\ SpaceIs(t, M) /\ Agree(s, t, N) /\ \A j \in 1..n : t.page[c[j]] = LinkAt(blob, c, j)
  BY <1>2 DEF Linked
<1>4. IsHolding(h) /\ h.ent = e /\ h.at = c[1] /\ h.blob = blob /\ Size(h) = n BY HoldingIs
<1>5. 1 \in 1..n /\ c[1] \in Nat \ {0} /\ c[1] \notin N BY <1>1, <1>3
<1>6. ChainIs(t.page, E, h, c)
  <2>1. c \in [1..n -> E] BY <1>3 DEF Elements
  <2> HIDE DEF h, E, n
  <2> QED BY <1>1, <1>3, <1>4, <2>1 DEF ChainIs
<1>7. E = Elements(c, Size(h)) /\ \A p \in E : p \notin N BY <1>3, <1>4 DEF Elements
<1>8. (\A p \in N : t.page[p] = s.page[p]) /\ \A g \in H : g.blob.id # h.blob.id BY <1>3, <1>4 DEF Agree
<1>9. Owned(t.page, M, H \cup {h})
  <2> HIDE DEF h, E, t
  <2> QED BY <1>0, <1>4, <1>6, <1>7, <1>8, ChainJoins
<1>10. OpenIs(t, M) BY <1>0, <1>3, <1>8 DEF OpenIs, Agree
<1>11. Others(H, e, c[1]) = H BY <1>0, <1>5 DEF Others, HoldingsAre
<1>12. Sound(t, M, Others(H, e, c[1]) \cup {h}) BY <1>3, <1>9, <1>10, <1>11 DEF Sound
<1> HIDE DEF M, t
<1>13. \E K : Sound(t, K, Others(H, e, r.page) \cup {Holding(e, r.page, blob)}) BY <1>2, <1>12
<1> QED BY <1>2, <1>5, <1>13 DEF r, t

\* A slab page with the entity's blob written into it.
LEMMA StoreInSlab ==
  ASSUME NEW s, NEW N, NEW H, Owned(s.page, N, H), NEW dirs, SlabIs(dirs), NEW p,
         \/ p \in N /\ s.page[p].kind = "slab" /\ s.page[p].dirs = dirs
         \/ p \notin N /\ dirs = <<>>,
         NEW e, e # "freed", NEW blob, blob.len \in Nat, \A g \in H : g.blob.id # blob.id, HasRoomFor(dirs, blob.len),
         NEW t, t.page[p] = Slab(WriteBlob(dirs, e, blob)), \A q \in N \ {p} : t.page[q] = s.page[q]
  PROVE  Owned(t.page, N \cup {p}, Others(H, e, p) \cup {Holding(e, p, blob)})
<1> DEFINE h == Holding(e, p, blob)
           G == Others(H, e, p) \cup {h}
           r == WriteBlob(dirs, e, blob)
           M == N \cup {p}
<1>0. HoldingsAre(H, N) BY DEF Owned
<1>1. SlabIs(r) /\ Bears(r) = { b \in Bears(dirs) : b[1] # e } \cup {<<e, blob>>} BY WriteBlobIs
<1>2. IsHolding(h) /\ h.ent = e /\ h.at = p /\ h.blob = blob BY HoldingIs
<1> HIDE DEF r, h
<1>3. t.page[p].kind = "slab" /\ t.page[p].dirs = r BY DEF Slab, r
<1>4. Bears(dirs) = Kept(H, p)
  <2>1. CASE p \in N /\ s.page[p].kind = "slab" /\ s.page[p].dirs = dirs
    <3>1. OwnSlab(s.page, H, p) BY <2>1 DEF Owned, OwnChain
    <3> QED BY <2>1, <3>1 DEF OwnSlab
  <2>2. CASE p \notin N /\ dirs = <<>>
    <3>1. Kept(H, p) = {} BY <1>0, <2>2 DEF Kept, HoldingsAre
    <3> QED BY <2>2, <3>1, EmptySlab
  <2> QED BY <2>1, <2>2
<1>5. Kept(G, p) = { b \in Kept(H, p) : b[1] # e } \cup {<<e, blob>>}
  <2>1. ASSUME NEW b \in Kept(G, p) PROVE b = <<e, blob>> \/ (b \in Kept(H, p) /\ b[1] # e)
    <3>1. PICK g \in G : g.at = p /\ b = <<g.ent, g.blob>> BY DEF Kept
    <3>2. CASE g = h BY <1>2, <3>1, <3>2
    <3>3. CASE g # h
      <4>1. g \in H /\ g.ent # e BY <3>1, <3>3 DEF Others
      <4> QED BY <3>1, <4>1 DEF Kept
    <3> QED BY <3>2, <3>3
  <2>2. <<e, blob>> \in Kept(G, p) BY <1>2 DEF Kept
  <2>3. ASSUME NEW b \in Kept(H, p), b[1] # e PROVE b \in Kept(G, p)
    <3>1. PICK g \in H : g.at = p /\ b = <<g.ent, g.blob>> BY DEF Kept
    <3>2. g \in G BY <2>3, <3>1 DEF Others
    <3> QED BY <3>1, <3>2 DEF Kept
  <2> QED BY <2>1, <2>2, <2>3
<1>6. OwnSlab(t.page, G, p) BY <1>1, <1>3, <1>4, <1>5 DEF OwnSlab
<1>7. HoldingsAre(G, M) BY <1>0, <1>2 DEF HoldingsAre, Others
<1>8. (\A g \in G : g.at # p => g \in H) /\ \A g \in H : g.at # p => g \in G BY <1>2 DEF Others
<1>9. p \in N => s.page[p].kind = "slab" OBVIOUS
<1>10. M \in {N, N \ {p}, N \cup {p}} OBVIOUS
<1> HIDE DEF G, M
<1>12. Changes(s.page, N, H, t.page, M, G, p) BY <1>6, <1>7, <1>8, <1>9, <1>10 DEF Changes
<1>11. Owned(t.page, M, G) BY <1>12, SlabChanges
<1> QED BY <1>11 DEF G, M, h

\* store_overflowed_props
LEMMA StoreIs ==
  ASSUME NEW s, NEW N, NEW H, Sound(s, N, H), NEW e, e # "freed", NEW blob, blob.len \in Nat,
         \A g \in H : g.blob.id # blob.id
  PROVE  LET r == StoreProps(s, e, blob)
         IN /\ r.page \in Nat \ {0}
            /\ \E M : Sound(r.s, M, Others(H, e, r.page) \cup {Holding(e, r.page, blob)})
<1> DEFINE r == StoreProps(s, e, blob)
           fits == s.open # None /\ s.page[s.open].kind = "slab" /\ HasRoomFor(s.page[s.open].dirs, blob.len)
<1>0. SpaceIs(s, N) /\ Owned(s.page, N, H) /\ OpenIs(s, N) BY DEF Sound
<1>1. MaxPackedBlob \in Int BY OverflowAssumption DEF MaxPackedBlob
<1>2. CASE blob.len > MaxPackedBlob
  <2>0. ~(blob.len <= MaxPackedBlob) BY <1>1, <1>2
  <2>1. r = WriteChain(s, blob) BY <1>2, <2>0 DEF StoreProps
  <2> QED BY <2>1, StoreChain
<1>3. CASE blob.len <= MaxPackedBlob /\ fits
  <2> DEFINE p == s.open
             dirs == s.page[p].dirs
             data == Slab(WriteBlob(dirs, e, blob))
             t == WritePage(s, p, data)
  <2>1. ~(blob.len > MaxPackedBlob) BY <1>1, <1>3
  <2>2. r = [s |-> t, page |-> p] BY <1>3, <2>1 DEF StoreProps
  <2>3. p \in N /\ s.page[p].kind = "slab" /\ HasRoomFor(dirs, blob.len) BY <1>0, <1>3 DEF OpenIs
  <2>4. SlabIs(dirs)
    <3>1. OwnSlab(s.page, H, p) BY <1>0, <2>3 DEF Owned, OwnChain
    <3> QED BY <3>1 DEF OwnSlab
  <2>5. p \in Nat \ {0} /\ N \subseteq 1..Len(s.page)
    <3>1. N \subseteq 1..Len(s.page) BY <1>0 DEF SpaceIs
    <3>2. p \in 1..Len(s.page) BY <2>3, <3>1
    <3> QED BY <3>1, <3>2
  <2> HIDE DEF p
  <2>6. /\ SpaceIs(t, N) /\ t.page[p] = data /\ t.open = s.open
        /\ \A q \in 1..Len(s.page) : q # p => t.page[q] = s.page[q]
    <3> HIDE DEF data
    <3> QED BY <1>0, <2>3, WriteUsed
  <2>7. (\A q \in N \ {p} : t.page[q] = s.page[q]) /\ t.page[p] = Slab(WriteBlob(dirs, e, blob)) BY <2>5, <2>6
  <2>8. t.page[p].kind = "slab" BY <2>7 DEF Slab
  <2> DEFINE d == dirs
  <2>9. d = s.page[p].dirs /\ SlabIs(d) /\ HasRoomFor(d, blob.len) /\ t.page[p] = Slab(WriteBlob(d, e, blob)) BY <2>3, <2>4, <2>7
  <2> HIDE DEF t, dirs, data, d
  <2>10. Owned(t.page, N \cup {p}, Others(H, e, p) \cup {Holding(e, p, blob)})
    BY <1>0, <2>3, <2>7, <2>9, StoreInSlab
  <2>11. N \cup {p} = N BY <2>3
  <2>12. OpenIs(t, N) BY <2>3, <2>6, <2>8 DEF OpenIs, p
  <2>13. Sound(t, N, Others(H, e, p) \cup {Holding(e, p, blob)}) BY <2>6, <2>10, <2>11, <2>12 DEF Sound
  <2>14. r.s = t /\ r.page = p BY <2>2 DEF t, data, dirs
  <2> HIDE DEF r
  <2>15. \E M : Sound(r.s, M, Others(H, e, r.page) \cup {Holding(e, r.page, blob)}) BY <2>13, <2>14
  <2> QED BY <2>5, <2>14, <2>15 DEF r
<1>4. CASE blob.len <= MaxPackedBlob /\ ~fits
  <2> DEFINE a == AllocatePage(s)
             p == a.page
             d == <<>>
             x == Slab(d)
             y == Slab(WriteBlob(d, e, blob))
             t == Opened(a.s, p, x, y)
             M == N \cup {p}
  <2>1. ~(blob.len > MaxPackedBlob) BY <1>1, <1>4
  <2>2. r = [s |-> t, page |-> p] BY <1>4, <2>1 DEF StoreProps, Opened
  <2>3. r.s = t /\ r.page = p BY <2>2
  <2>4. p \in Nat \ {0} /\ p \notin N /\ SpaceIs(a.s, N \cup {p}) /\ Agree(s, a.s, N) BY <1>0, AllocIs
  <2> DEFINE v == a.s
  <2>14. Gained(s, N, v, p) BY <2>4 DEF Gained
  <2>5. d = <<>> /\ SlabIs(d) /\ HasRoomFor(d, blob.len) BY <1>4, EmptySlab, RoomInEmpty
  <2>6. y = Slab(WriteBlob(d, e, blob)) /\ y.kind = "slab" BY DEF Slab
  <2> HIDE DEF r, d, a, x, y, p, v
  <2>7. SpaceIs(t, M) /\ t.page[p] = y /\ t.open = p /\ \A q \in N : t.page[q] = s.page[q]
    <3>1. t = Opened(v, p, x, y) BY DEF v
    <3> HIDE DEF t
    <3>2. Filled(s, N, t, p, y) BY <2>14, <3>1, OpenedIs
    <3> QED BY <3>2 DEF Filled
  <2> HIDE DEF p, t
  <2>8. t.page[p] = Slab(WriteBlob(d, e, blob)) /\ \A q \in N \ {p} : t.page[q] = s.page[q] BY <2>6, <2>7
  <2>9. p \notin N /\ d = <<>> BY <2>4, <2>5
  <2>10. Owned(t.page, M, Others(H, e, p) \cup {Holding(e, p, blob)})
    BY <1>0, <2>5, <2>8, <2>9, StoreInSlab
  <2>11. OpenIs(t, M) BY <2>6, <2>7 DEF OpenIs
  <2>12. Sound(t, M, Others(H, e, p) \cup {Holding(e, p, blob)}) BY <2>7, <2>10, <2>11 DEF Sound
  <2> HIDE DEF M
  <2>13. \E K : Sound(r.s, K, Others(H, e, r.page) \cup {Holding(e, r.page, blob)}) BY <2>3, <2>12
  <2> QED BY <2>3, <2>4, <2>13 DEF r
<1> QED BY <1>1, <1>2, <1>3, <1>4

\* A directory without live entries bears nothing.
LEMMA LiveIsBorne ==
  ASSUME NEW dirs
  PROVE  LiveEntries(dirs) = {} <=> Bears(dirs) = {}
BY DEF Bears

\* An entity has one blob in a slab page.
LEMMA OneBlob ==
  ASSUME NEW pg, NEW N, NEW H, Owned(pg, N, H), NEW g \in H, NEW h \in H, g.at = h.at, g.ent = h.ent, pg[h.at].kind = "slab"
  PROVE  g = h
<1> DEFINE p == h.at
           dirs == pg[p].dirs
<1>1. HoldingsAre(H, N) BY DEF Owned
<1>2. p \in N /\ IsHolding(g) /\ IsHolding(h) BY <1>1 DEF HoldingsAre
<1>3. OwnSlab(pg, H, p) BY <1>2 DEF Owned, OwnChain
<1>4. Laid(dirs) /\ Bears(dirs) = Kept(H, p) BY <1>3 DEF OwnSlab, SlabIs
<1>5. <<g.ent, g.blob>> \in Bears(dirs) /\ <<h.ent, h.blob>> \in Bears(dirs) BY <1>4 DEF Kept
<1>6. h.ent # "freed" BY <1>2 DEF IsHolding
<1> HIDE DEF dirs
<1>7. ReadBlob(dirs, h.ent) = g.blob
  <2>1. <<h.ent, g.blob>> \in Bears(dirs) BY <1>5
  <2> QED BY <1>4, <1>6, <2>1, ReadBlobIs
<1>8. ReadBlob(dirs, h.ent) = h.blob BY <1>4, <1>5, <1>6, ReadBlobIs
<1> QED BY <1>1, <1>7, <1>8 DEF HoldingsAre

\* Releasing a chained blob gives its pages back.
LEMMA ReleaseFromChain ==
  ASSUME NEW s, NEW N, NEW H, Sound(s, N, H), NEW h \in H, s.page[h.at].kind # "slab"
  PROVE  \E M : Sound(ReleaseProps(s, h.ent, h.at), M, H \ {h})
<1> DEFINE p == h.at
           n == Size(h)
           G == H \ {h}
           t == ReleaseProps(s, h.ent, p)
<1>0. SpaceIs(s, N) /\ Owned(s.page, N, H) /\ OpenIs(s, N) /\ HoldingsAre(H, N) /\ p \in N BY DEF Sound, Owned, HoldingsAre
<1>1. Len(s.page) \in Nat /\ N \subseteq 1..Len(s.page) BY <1>0 DEF SpaceIs, AnySeq
<1>2. s.page[p].kind = "chain" BY <1>0 DEF Owned, OwnSlab, OwnChain
<1>3. PICK c : ChainIs(s.page, N, h, c) BY <1>0, <1>2 DEF Owned
<1>4. ChainPages(s.page, p) = c BY <1>1, <1>3, ChainWalk
<1>5. n \in Nat /\ c \in [1..n -> N] /\ \A j, l \in 1..n : c[j] = c[l] => j = l BY <1>3 DEF ChainIs
<1>6. Len(c) = n BY <1>5
<1>7. \A j \in 1..n : s.page[c[j]].kind # "slab" BY <1>3, ChainPagesAre
<1>8. t = ReleaseChain(s, c) BY <1>4 DEF ReleaseProps
<1> DEFINE E == Elements(c, n)
           M == N \ E
<1> HIDE DEF n
<1>9. SpaceIs(t, M) /\ Agree(s, t, M)
  <2>1. SpaceIs(ReleaseChain(s, c), M) /\ Agree(s, ReleaseChain(s, c), M) BY <1>0, <1>5, <1>6, <1>7, ChainIsGiven
  <2> QED BY <1>8, <2>1
<1> HIDE DEF t
<1>10. Owned(s.page, M, G) BY <1>0, <1>1, <1>3, ChainLeaves DEF n
<1>11. \A q \in M : t.page[q] = s.page[q] BY <1>9 DEF Agree
<1> HIDE DEF M, G
<1>12. Owned(t.page, M, G) BY <1>10, <1>11, OwnedAgrees
<1>13. OpenIs(t, M)
  <2>1. \A q \in E : s.page[q].kind # "slab" BY <1>7 DEF Elements
  <2>2. t.open = s.open BY <1>9 DEF Agree
  <2> QED BY <1>0, <1>11, <2>1, <2>2 DEF OpenIs, M
<1>14. Sound(t, M, G) BY <1>9, <1>12, <1>13 DEF Sound
<1> QED BY <1>14 DEF t, G

\* A slab page after an entity's entry in it is freed.
Cleared(s, t, p, e) ==
  /\ t.page[p].kind = "slab" /\ t.page[p].dirs = FreeEntry(s.page[p].dirs, e)
  /\ AgreeBut(s, t, p) /\ Len(t.page) = Len(s.page) /\ t.open = s.open

\* A freed entry is written, unless there was none.
LEMMA ClearIs ==
  ASSUME NEW s, NEW N, SpaceIs(s, N), NEW p, p \in N, s.page[p].kind = "slab", NEW e
  PROVE  LET freed == FreeEntry(s.page[p].dirs, e)
             t == IF freed = s.page[p].dirs THEN s ELSE WritePage(s, p, Slab(freed))
         IN SpaceIs(t, N) /\ Cleared(s, t, p, e)
<1> DEFINE freed == FreeEntry(s.page[p].dirs, e)
           x == Slab(freed)
           w == WritePage(s, p, x)
<1>1. x.kind = "slab" /\ x.dirs = freed BY DEF Slab
<1> HIDE DEF x
<1>2. SpaceIs(w, N) /\ w.page[p] = x /\ AgreeBut(s, w, p) /\ Len(w.page) = Len(s.page) /\ w.open = s.open BY WriteOnce
<1> HIDE DEF w
<1>3. Cleared(s, w, p, e) BY <1>1, <1>2 DEF Cleared
<1>4. freed = s.page[p].dirs => Cleared(s, s, p, e) BY DEF Cleared, AgreeBut
<1> HIDE DEF freed
<1>5. CASE freed = s.page[p].dirs BY <1>4, <1>5 DEF freed
<1>6. CASE freed # s.page[p].dirs BY <1>2, <1>3, <1>6 DEF freed, w, x
<1> QED BY <1>5, <1>6

\* What a page bears once one holding is gone.
LEMMA KeptLess ==
  ASSUME NEW pg, NEW N, NEW H, Owned(pg, N, H), NEW h \in H, pg[h.at].kind = "slab"
  PROVE  Kept(H \ {h}, h.at) = { b \in Kept(H, h.at) : b[1] # h.ent }
<1> DEFINE G == H \ {h}
           p == h.at
<1>1. ASSUME NEW b \in Kept(G, p) PROVE b \in Kept(H, p) /\ b[1] # h.ent
  <2>1. PICK g \in G : g.at = p /\ b = <<g.ent, g.blob>> BY DEF Kept
  <2>2. g.ent # h.ent BY <2>1, OneBlob
  <2> QED BY <2>1, <2>2 DEF Kept
<1>2. ASSUME NEW b \in Kept(H, p), b[1] # h.ent PROVE b \in Kept(G, p)
  <2>1. PICK g \in H : g.at = p /\ b = <<g.ent, g.blob>> BY DEF Kept
  <2>2. g \in G BY <1>2, <2>1
  <2> QED BY <2>1, <2>2 DEF Kept
<1> QED BY <1>1, <1>2

\* Releasing a packed blob gives its page back with the last one.
LEMMA ReleaseFromSlab ==
  ASSUME NEW s, NEW N, NEW H, Sound(s, N, H), NEW h \in H, s.page[h.at].kind = "slab"
  PROVE  \E M : Sound(ReleaseProps(s, h.ent, h.at), M, H \ {h})
<1> DEFINE p == h.at
           e == h.ent
           G == H \ {h}
           r == ReleaseProps(s, e, p)
           dirs == s.page[p].dirs
           freed == FreeEntry(dirs, e)
           t == IF freed = dirs THEN s ELSE WritePage(s, p, Slab(freed))
<1>0. SpaceIs(s, N) /\ Owned(s.page, N, H) /\ OpenIs(s, N) /\ HoldingsAre(H, N) /\ p \in N /\ IsHolding(h)
  BY DEF Sound, Owned, HoldingsAre
<1>1. N \subseteq 1..Len(s.page) /\ e # "freed" BY <1>0 DEF SpaceIs, IsHolding
<1>2. OwnSlab(s.page, H, p) BY <1>0 DEF Owned, OwnChain
<1>3. SlabIs(dirs) /\ Laid(dirs) /\ Bears(dirs) = Kept(H, p) BY <1>2 DEF OwnSlab, SlabIs
<1>4. SpaceIs(t, N) /\ Cleared(s, t, p, e) BY <1>0, ClearIs
<1>5. SlabIs(freed) /\ Bears(freed) = { b \in Bears(dirs) : b[1] # e } BY <1>1, <1>3, FreeEntryIs, FreeEntryIsSlab
<1>6. Kept(G, p) = Bears(freed) BY <1>0, <1>3, <1>5, KeptLess
<1>7. r = IF LiveEntries(freed) # {} THEN t
          ELSE ReleasePage([t EXCEPT !.open = IF @ = p THEN None ELSE @], p)
  BY DEF ReleaseProps
<1> HIDE DEF t, r
<1>8. t.page[p].kind = "slab" /\ t.page[p].dirs = freed /\ t.open = s.open /\ \A q \in N \ {p} : t.page[q] = s.page[q]
  BY <1>1, <1>4 DEF Cleared, AgreeBut
<1>9. (\A g \in G : g.at # p => g \in H) /\ \A g \in H : g.at # p => g \in G OBVIOUS
<1>10. HoldingsAre(G, N) BY <1>0 DEF HoldingsAre
<1> HIDE DEF freed, dirs, G
<1>11. CASE LiveEntries(freed) # {}
  <2>1. OwnSlab(t.page, G, p) BY <1>5, <1>6, <1>8, <1>11, LiveIsBorne DEF OwnSlab
  <2>2. N \in {N, N \ {p}, N \cup {p}} OBVIOUS
  <2> DEFINE a == s.page
             b == t.page
  <2>3. Owned(a, N, H) /\ (p \in N => a[p].kind = "slab") /\ (\A q \in N \ {p} : b[q] = a[q]) /\ (p \in N => OwnSlab(b, G, p))
    BY <1>0, <1>8, <2>1
  <2> HIDE DEF a, b, p
  <2>9. Changes(a, N, H, b, N, G, p) BY <1>9, <1>10, <2>2, <2>3 DEF Changes
  <2>4. Owned(b, N, G) BY <2>3, <2>9, SlabChanges
  <2>5. OpenIs(t, N)
    <3>1. CASE s.open = p BY <1>0, <1>8, <3>1 DEF OpenIs
    <3>2. CASE s.open # p BY <1>0, <1>8, <3>2 DEF OpenIs
    <3> QED BY <3>1, <3>2
  <2>6. Sound(t, N, G) BY <1>4, <2>4, <2>5 DEF Sound, b
  <2>7. r = t BY <1>7, <1>11
  <2>8. Sound(ReleaseProps(s, h.ent, h.at), N, H \ {h}) BY <2>6, <2>7 DEF r, p, G
  <2> QED BY <2>8
<1>12. CASE LiveEntries(freed) = {}
  <2> DEFINE x == IF t.open = p THEN None ELSE t.open
             u == [t EXCEPT !.open = x]
             M == N \ {p}
  <2>1. SpaceIs(u, N) /\ u.page = t.page /\ u.open = x BY <1>4, OpenMoves
  <2>2. r = ReleasePage(u, p) BY <1>7, <1>12
  <2> HIDE DEF u
  <2>3. u.page[p].kind = "slab" => LiveEntries(u.page[p].dirs) = {} BY <1>8, <1>12, <2>1
  <2>4. SpaceIs(r, M) /\ Agree(u, r, M)
    <3> DEFINE k == p
    <3>1. k \in N /\ (u.page[k].kind = "slab" => LiveEntries(u.page[k].dirs) = {}) BY <1>0, <2>3
    <3> HIDE DEF k
    <3>2. SpaceIs(ReleasePage(u, k), N \ {k}) /\ Agree(u, ReleasePage(u, k), N \ {k}) BY <2>1, <3>1, ReleaseIs
    <3> QED BY <2>2, <3>2 DEF k
  <2>5. Kept(G, p) = {} BY <1>6, <1>12, LiveIsBorne
  <2>6. \A g \in G : g.at # p BY <2>5 DEF Kept
  <2>7. HoldingsAre(G, M) BY <1>10, <2>6 DEF HoldingsAre
  <2> DEFINE a == s.page
             b == t.page
  <2>8. /\ Owned(a, N, H) /\ (p \in N => a[p].kind = "slab") /\ (\A q \in N \ {p} : b[q] = a[q]) /\ p \notin M
        /\ M \in {N, N \ {p}, N \cup {p}}
    BY <1>0, <1>8
  <2> HIDE DEF a, b, p, M, x
  <2>15. Changes(a, N, H, b, M, G, p) BY <1>9, <2>7, <2>8 DEF Changes
  <2>9. Owned(b, M, G) BY <2>8, <2>15, SlabChanges
  <2>10. \A q \in M : r.page[q] = b[q] BY <2>1, <2>4 DEF Agree, b
  <2>11. Owned(r.page, M, G) BY <2>9, <2>10, OwnedAgrees
  <2>12. OpenIs(r, M)
    <3>1. r.open = x BY <2>1, <2>4 DEF Agree
    <3>2. CASE x = None BY <3>1, <3>2 DEF OpenIs
    <3>3. CASE x # None
      <4>1. x = s.open /\ x # p BY <1>8, <3>3 DEF x
      <4>2. x \in N /\ s.page[x].kind = "slab" BY <1>0, <3>3, <4>1 DEF OpenIs
      <4>3. x \in M /\ r.page[x] = s.page[x] BY <1>8, <2>10, <4>1, <4>2 DEF M, b
      <4> QED BY <3>1, <4>2, <4>3 DEF OpenIs
    <3> QED BY <3>2, <3>3
  <2>13. Sound(r, M, G) BY <2>4, <2>11, <2>12 DEF Sound
  <2>14. Sound(ReleaseProps(s, h.ent, h.at), M, H \ {h}) BY <2>13 DEF r, p, G
  <2> QED BY <2>14
<1> QED BY <1>11, <1>12

\* release_overflowed_props
LEMMA ReleasePropsIs ==
  ASSUME NEW s, NEW N, NEW H, Sound(s, N, H), NEW h \in H
  PROVE  \E M : Sound(ReleaseProps(s, h.ent, h.at), M, H \ {h})
BY ReleaseFromChain, ReleaseFromSlab

\* What the entity's slot named before: nothing, or the one blob it holds.
OldIs(H, e, old, blob) ==
  /\ old = None => \A g \in H : g.ent # e
  /\ old # None => Holding(e, old, blob) \in H /\ \A g \in H : g.ent = e => g = Holding(e, old, blob)
Rest(H, e) == { g \in H : g.ent # e }
Named(e, p, blob) == IF p = None THEN {} ELSE {Holding(e, p, blob)}

StoredIn(s, e, blob) == IF blob.len = 0 THEN [s |-> s, page |-> None] ELSE StoreProps(s, e, blob)
ReleasedIn(new, e, old) == IF old # None /\ old # new.page THEN ReleaseProps(new.s, e, old) ELSE new.s
IsNew(H, blob) == \A g \in H : g.blob.id # blob.id

\* handle_slot_overflow: what the entity holds is the new blob, or nothing.
LEMMA PutIs ==
  ASSUME NEW s, NEW N, NEW H, Sound(s, N, H), NEW e, e # "freed", NEW blob, blob.len \in Nat,
         IsNew(H, blob), NEW old, NEW ob, OldIs(H, e, old, ob)
  PROVE  LET new == StoredIn(s, e, blob)
             t == ReleasedIn(new, e, old)
         IN new.page \in Nat /\ \E M : Sound(t, M, Rest(H, e) \cup Named(e, new.page, blob))
<1> DEFINE new == IF blob.len = 0 THEN [s |-> s, page |-> None] ELSE StoreProps(s, e, blob)
           p == new.page
           t == IF old # None /\ old # p THEN ReleaseProps(new.s, e, old) ELSE new.s
           G == IF blob.len = 0 THEN H ELSE Others(H, e, p) \cup {Holding(e, p, blob)}
           h == Holding(e, old, ob)
<1> USE DEF IsNew, StoredIn, ReleasedIn
<1>1. p \in Nat /\ (blob.len = 0 <=> p = None) /\ \E M : Sound(new.s, M, G)
  <2>1. CASE blob.len = 0
    <3>1. new.s = s /\ new.page = None BY <2>1
    <3> QED BY <2>1, <3>1 DEF None
  <2>2. CASE blob.len # 0
    <3> DEFINE r == StoreProps(s, e, blob)
    <3>1. r.page \in Nat \ {0} /\ \E M : Sound(r.s, M, Others(H, e, r.page) \cup {Holding(e, r.page, blob)}) BY StoreIs
    <3>2. new = r BY <2>2
    <3> HIDE DEF r, new
    <3> QED BY <2>2, <3>1, <3>2 DEF None
  <2> QED BY <2>1, <2>2
<1>2. PICK M : Sound(new.s, M, G) BY <1>1
<1> HIDE DEF new
<1>3. Holding(e, p, blob).ent = e /\ Holding(e, p, blob).at = p /\ h.ent = e /\ h.at = old BY DEF Holding
<1>4. CASE old # None /\ old # p
  <2>1. h \in H /\ \A g \in H : g.ent = e => g = h BY <1>4 DEF OldIs
  <2>2. h \in G BY <1>3, <1>4, <2>1 DEF Others
  <2>3. t = ReleaseProps(new.s, h.ent, h.at) BY <1>3, <1>4
  <2>4. G \ {h} = Rest(H, e) \cup Named(e, p, blob)
    <3>1. CASE blob.len = 0 BY <1>1, <1>3, <2>1, <3>1 DEF Rest, Named
    <3>2. CASE blob.len # 0 BY <1>1, <1>3, <1>4, <2>1, <3>2 DEF Rest, Named, Others
    <3> QED BY <3>1, <3>2
  <2> HIDE DEF G, h, t
  <2>5. \E K : Sound(ReleaseProps(new.s, h.ent, h.at), K, G \ {h}) BY <1>2, <2>2, ReleasePropsIs
  <2>6. \E K : Sound(t, K, Rest(H, e) \cup Named(e, p, blob)) BY <2>3, <2>4, <2>5
  <2> QED BY <1>1, <2>6 DEF t, new
<1>5. CASE ~(old # None /\ old # p)
  <2>1. t = new.s BY <1>5
  <2>2. G = Rest(H, e) \cup Named(e, p, blob)
    <3>1. CASE old = None
      <4>1. \A g \in H : g.ent # e BY <3>1 DEF OldIs
      <4> QED BY <1>1, <4>1 DEF Rest, Named, Others
    <3>2. CASE old # None
      <4>1. old = p /\ p # None /\ \A g \in H : g.ent = e => g = h BY <1>5, <3>2 DEF OldIs
      <4> QED BY <1>1, <1>3, <4>1 DEF Rest, Named, Others
    <3> QED BY <3>1, <3>2
  <2> HIDE DEF G, t
  <2>3. \E K : Sound(t, K, Rest(H, e) \cup Named(e, p, blob)) BY <1>2, <2>1, <2>2
  <2> QED BY <1>1, <2>3 DEF t, new
<1> QED BY <1>4, <1>5

\* tombstone_slot: the entity holds nothing.
LEMMA DropIs ==
  ASSUME NEW s, NEW N, NEW H, Sound(s, N, H), NEW e, NEW old, NEW ob, OldIs(H, e, old, ob)
  PROVE  LET t == IF old # None THEN ReleaseProps(s, e, old) ELSE s
         IN \E M : Sound(t, M, Rest(H, e))
<1> DEFINE h == Holding(e, old, ob)
           t == IF old # None THEN ReleaseProps(s, e, old) ELSE s
<1>1. CASE old # None
  <2>1. h \in H /\ (\A g \in H : g.ent = e => g = h) /\ h.ent = e /\ h.at = old BY <1>1 DEF OldIs, Holding
  <2>2. H \ {h} = Rest(H, e) BY <2>1 DEF Rest
  <2> HIDE DEF h
  <2>3. \E M : Sound(ReleaseProps(s, h.ent, h.at), M, H \ {h}) BY <2>1, ReleasePropsIs
  <2> QED BY <1>1, <2>1, <2>2, <2>3
<1>2. CASE old = None
  <2>1. Rest(H, e) = H BY <1>2 DEF OldIs, Rest
  <2> QED BY <1>2, <2>1
<1> QED BY <1>1, <1>2

\* The state of the file is what counts, not what was logged on the way.
LEMMA SoundSame ==
  ASSUME NEW s, NEW N, NEW H, Sound(s, N, H), NEW t, IsSpace(t), t.page = s.page, t.head = s.head, t.spare = s.spare,
         t.count = s.count, t.open = s.open
  PROVE  Sound(t, N, H)
<1>1. SpaceIs(s, N) /\ Owned(s.page, N, H) /\ OpenIs(s, N) BY DEF Sound
<1>2. PICK m, D, En : FreeIs(s, (1..Len(s.page)) \ N, m, D, En) BY <1>1 DEF SpaceIs
<1>3. FreeIs(t, (1..Len(t.page)) \ N, m, D, En) BY <1>2 DEF FreeIs
<1>4. SpaceIs(t, N) BY <1>1, <1>3 DEF SpaceIs
<1> QED BY <1>1, <1>4 DEF Sound, OpenIs

-----------------------------------------------------------------------------
(* The invariant.                                                          *)

BlobRecords == [len : Nat, id : Nat]
SlotRecords == [live : BOOLEAN, at : Nat, blob : BlobRecords]
Held == { Holding(e, slot[e].at, slot[e].blob) : e \in { e \in Entities : slot[e].at # None } }

SlotsAreTyped == slot \in [Entities -> SlotRecords] /\ stored \in [Entities -> BlobRecords] /\ puts \in Nat
SlotsAreStored ==
  \A e \in Entities : /\ slot[e].blob.id <= puts
                      /\ slot[e].live => stored[e] = slot[e].blob
                      /\ slot[e].at # None => slot[e].live
SpaceIsSound == \E N : Sound(Space, N, Held)
OverflowInv == SlotsAreTyped /\ SlotsAreStored /\ SpaceIsSound

\* What is held is what slots name.
LEMMA HeldIs ==
  ASSUME NEW g \in Held
  PROVE  g.ent \in Entities /\ g.at = slot[g.ent].at /\ g.blob = slot[g.ent].blob /\ g.at # None
         /\ g = Holding(g.ent, slot[g.ent].at, slot[g.ent].blob)
<1>1. PICK e \in Entities : slot[e].at # None /\ g = Holding(e, slot[e].at, slot[e].blob) BY DEF Held
<1>2. g.ent = e /\ g.at = slot[e].at /\ g.blob = slot[e].blob BY <1>1 DEF Holding
<1> QED BY <1>1, <1>2

\* An entity holds at most what its slot names.
LEMMA OldHeld ==
  ASSUME NEW e \in Entities
  PROVE  OldIs(Held, e, slot[e].at, slot[e].blob)
<1>1. slot[e].at # None => Holding(e, slot[e].at, slot[e].blob) \in Held BY DEF Held
<1>2. \A g \in Held : g.ent = e => g.at = slot[e].at /\ g.at # None /\ g = Holding(e, slot[e].at, slot[e].blob) BY HeldIs
<1> QED BY <1>1, <1>2 DEF OldIs

\* A slot write changes what its entity holds only.
LEMMA HeldNext ==
  ASSUME NEW e \in Entities, slot \in [Entities -> SlotRecords], NEW p, NEW blob,
         slot'[e].at = p, slot'[e].blob = blob, \A f \in Entities : f # e => slot'[f] = slot[f]
  PROVE  Held' = Rest(Held, e) \cup Named(e, p, blob)
<1>1. ASSUME NEW g \in Held' PROVE g \in Rest(Held, e) \cup Named(e, p, blob)
  <2>1. PICK f \in Entities : slot'[f].at # None /\ g = Holding(f, slot'[f].at, slot'[f].blob) BY DEF Held
  <2>2. CASE f = e BY <2>1, <2>2 DEF Named
  <2>3. CASE f # e
    <3>1. slot'[f] = slot[f] BY <2>3
    <3>2. g \in Held BY <2>1, <3>1 DEF Held
    <3>3. g.ent = f BY <2>1 DEF Holding
    <3> QED BY <2>3, <3>2, <3>3 DEF Rest
  <2> QED BY <2>2, <2>3
<1>2. ASSUME NEW g \in Rest(Held, e) PROVE g \in Held'
  <2>1. PICK f \in Entities : slot[f].at # None /\ g = Holding(f, slot[f].at, slot[f].blob) BY DEF Held, Rest
  <2>2. g.ent = f /\ g.ent # e BY <2>1 DEF Holding, Rest
  <2>3. slot'[f] = slot[f] BY <2>2
  <2> QED BY <2>1, <2>3 DEF Held
<1>3. ASSUME NEW g \in Named(e, p, blob) PROVE g \in Held'
  <2>1. p # None /\ g = Holding(e, p, blob) BY DEF Named
  <2>2. slot'[e].at # None /\ g = Holding(e, slot'[e].at, slot'[e].blob) BY <2>1
  <2> QED BY <2>2 DEF Held
<1> QED BY <1>1, <1>2, <1>3

\* The space of a state.
LEMMA SpaceFieldsAre ==
  /\ IsSpace(Space) /\ Space.page = page /\ Space.head = dirHead /\ Space.spare = spare /\ Space.count = freeCount /\ Space.open = openPage
BY DEF Space, IsSpace, SpaceFields

\* The space of the next state.
LEMMA SpaceFieldsNext ==
  /\ IsSpace(Space') /\ (Space').page = page' /\ (Space').head = dirHead' /\ (Space').spare = spare' /\ (Space').count = freeCount'
  /\ (Space').open = openPage'
BY DEF Space, IsSpace, SpaceFields

\* The space an operation leaves is the one of the next state.
LEMMA InstalledIs ==
  ASSUME NEW s, NEW N, NEW H, Sound(s, N, H), InstallSpace(s)
  PROVE  Sound(Space', N, H)
<1> DEFINE t == Space'
<1>1. IsSpace(t) /\ t.page = s.page /\ t.head = s.head /\ t.spare = s.spare /\ t.count = s.count /\ t.open = s.open
  BY SpaceFieldsNext DEF InstallSpace
<1> HIDE DEF t
<1>2. Sound(t, N, H) BY <1>1, SoundSame
<1> QED BY <1>2 DEF t

\* An empty file satisfies the invariant.
LEMMA OverflowInit == InitOverflow => OverflowInv
<1> SUFFICES ASSUME InitOverflow PROVE OverflowInv OBVIOUS
<1>1. page = <<>> /\ dirHead = None /\ spare = None /\ freeCount = 0 /\ openPage = None /\ puts = 0
      /\ slot = [e \in Entities |-> NoSlot] /\ stored = [e \in Entities |-> NoBlob]
  BY DEF InitOverflow
<1>2. NoBlob \in BlobRecords /\ NoSlot \in SlotRecords /\ NoSlot.at = None /\ NoSlot.live = FALSE /\ NoSlot.blob.id = 0
  BY DEF NoBlob, NoSlot, BlobRecords, SlotRecords, None
<1>3. SlotsAreTyped BY <1>1, <1>2 DEF SlotsAreTyped
<1>4. \A e \in Entities : slot[e] = NoSlot BY <1>1
<1>5. SlotsAreStored BY <1>1, <1>2, <1>4 DEF SlotsAreStored
<1>6. Held = {} BY <1>2, <1>4 DEF Held
<1>7. SpaceIs(Space, {})
  <2> DEFINE D == [i \in 1..0 |-> 0]
             En == [i \in 1..0 |-> <<>>]
             s == Space
  <2>1. /\ IsSpace(s) /\ s.page = <<>> /\ s.head = None /\ s.spare = None /\ s.count = 0 BY <1>1, SpaceFieldsAre
  <2> HIDE DEF s
  <2>2. Len(s.page) = 0 /\ AnySeq(s.page) /\ 1..0 = {} BY <2>1, EmptySlab DEF Laid, Entries
  <2>3. D \in [1..0 -> 1..0] /\ En \in [1..0 -> Seq(1..0)] BY <2>2
  <2> HIDE DEF D, En
  <2>4. ListIs(0, D, En, None, None, 0)
    <3>1. DirsAre(0, D, En, None, None, 0) BY <2>2, <2>3 DEF DirsAre, None
    <3>2. OnceNamed(0, D, En, None) BY <2>2 DEF OnceNamed
    <3> QED BY <3>1, <3>2 DEF ListIs
  <2>5. HoldsDirs(s.page, 0, D, En) BY <2>2 DEF HoldsDirs
  <2>6. NamedSet(0, En, None, 0) = {} /\ DirSet(0, D) = {} BY <2>2 DEF NamedSet, DirSet
  <2>7. Cardinality({}) = 0 BY FS_EmptySet
  <2>8. (1..Len(s.page)) \ {} = {} BY <2>2
  <2>9. NoneLive(s.page, {}) BY DEF NoneLive
  <2>10. FreeIs(s, (1..Len(s.page)) \ {}, 0, D, En) BY <2>1, <2>2, <2>4, <2>5, <2>6, <2>7, <2>8, <2>9 DEF FreeIs
  <2>11. SpaceIs(s, {}) BY <2>1, <2>2, <2>10 DEF SpaceIs
  <2> QED BY <2>11 DEF s
<1>8. Owned(Space.page, {}, {}) BY DEF Owned, HoldingsAre
<1>9. OpenIs(Space, {}) BY <1>1, SpaceFieldsAre DEF OpenIs
<1>10. Sound(Space, {}, Held) BY <1>6, <1>7, <1>8, <1>9 DEF Sound
<1>11. SpaceIsSound BY <1>10 DEF SpaceIsSound
<1> QED BY <1>3, <1>5, <1>11 DEF OverflowInv

\* Writing a record's properties keeps the invariant.
LEMMA OverflowPut ==
  ASSUME OverflowInv, NEW e \in Entities, NEW len \in BlobLens, PutProps(e, len)
  PROVE  OverflowInv'
<1> DEFINE blob == [len |-> len, id |-> puts + 1]
           s == Space
           new == IF len = 0 THEN [s |-> s, page |-> None] ELSE StoreProps(s, e, blob)
           old == slot[e].at
           t == IF old # None /\ old # new.page THEN ReleaseProps(new.s, e, old) ELSE new.s
           H == Held
           x == [live |-> TRUE, at |-> new.page, blob |-> blob]
<1>1. /\ InstallSpace(t) /\ slot' = [slot EXCEPT ![e] = x] /\ stored' = [stored EXCEPT ![e] = blob] /\ puts' = puts + 1
  BY DEF PutProps
<1>2. e # "freed" /\ len \in Nat BY OverflowAssumption
<1>3. slot \in [Entities -> SlotRecords] /\ stored \in [Entities -> BlobRecords] /\ puts \in Nat BY DEF OverflowInv, SlotsAreTyped
<1>4. \A f \in Entities : slot[f].blob.id <= puts /\ slot[f].blob.id \in Nat BY <1>3 DEF OverflowInv, SlotsAreStored, SlotRecords, BlobRecords
<1>5. blob.len = len /\ blob.id = puts + 1 /\ blob \in BlobRecords BY <1>2, <1>3 DEF BlobRecords
<1>6. \A g \in H : g.blob.id # blob.id
  <2>1. ASSUME NEW g \in H PROVE g.blob.id # blob.id
    <3>1. g.ent \in Entities /\ g.blob = slot[g.ent].blob BY HeldIs
    <3>2. g.blob.id <= puts /\ g.blob.id \in Nat BY <1>4, <3>1
    <3> QED BY <1>3, <1>5, <3>2
  <2> QED BY <2>1
<1>7. PICK N : Sound(s, N, H) BY DEF OverflowInv, SpaceIsSound
<1>8. OldIs(H, e, old, slot[e].blob) BY OldHeld
<1> HIDE DEF s, H, old, blob
<1>9. new.page \in Nat /\ \E M : Sound(t, M, Rest(H, e) \cup Named(e, new.page, blob))
  <2> DEFINE ob == slot[e].blob
  <2>1. OldIs(H, e, old, ob) BY <1>8
  <2> HIDE DEF ob
  <2>2. new = StoredIn(s, e, blob) BY <1>5 DEF StoredIn
  <2> HIDE DEF new
  <2>3. t = ReleasedIn(new, e, old) BY DEF ReleasedIn
  <2>4. IsNew(H, blob) /\ blob.len \in Nat BY <1>2, <1>5, <1>6 DEF IsNew
  <2> DEFINE n == StoredIn(s, e, blob)
             u == ReleasedIn(n, e, old)
  <2> HIDE DEF t
  <2>5. n.page \in Nat /\ \E M : Sound(u, M, Rest(H, e) \cup Named(e, n.page, blob)) BY <1>2, <1>7, <2>1, <2>4, PutIs
  <2> QED BY <2>2, <2>3, <2>5
<1>10. PICK M : Sound(t, M, Rest(H, e) \cup Named(e, new.page, blob)) BY <1>9
<1> HIDE DEF t, new
<1>11. x \in SlotRecords BY <1>5, <1>9 DEF SlotRecords
<1>12. x.at = new.page /\ x.blob = blob /\ x.live = TRUE OBVIOUS
<1> HIDE DEF x
<1>13. slot'[e] = x /\ stored'[e] = blob /\ (\A f \in Entities : f # e => slot'[f] = slot[f] /\ stored'[f] = stored[f]) BY <1>1, <1>3
<1>14. Held' = Rest(H, e) \cup Named(e, new.page, blob)
  <2> DEFINE p == new.page
  <2>1. slot'[e].at = p /\ slot'[e].blob = blob /\ \A f \in Entities : f # e => slot'[f] = slot[f] BY <1>12, <1>13
  <2> HIDE DEF p
  <2>2. Held' = Rest(Held, e) \cup Named(e, p, blob) BY <1>3, <2>1, HeldNext
  <2> QED BY <2>2 DEF p, H
<1>15. SpaceIsSound'
  <2>1. Sound(Space', M, Rest(H, e) \cup Named(e, new.page, blob)) BY <1>1, <1>10, InstalledIs
  <2>2. Sound(Space', M, Held') BY <1>14, <2>1
  <2> QED BY <2>2 DEF SpaceIsSound
<1>16. SlotsAreTyped' BY <1>1, <1>3, <1>5, <1>11 DEF SlotsAreTyped
<1>17. SlotsAreStored'
  <2>1. ASSUME NEW f \in Entities
        PROVE  slot'[f].blob.id <= puts' /\ (slot'[f].live => stored'[f] = slot'[f].blob) /\ (slot'[f].at # None => slot'[f].live)
    <3>1. CASE f = e
      <4>1. puts + 1 <= puts + 1 BY <1>3
      <4> QED BY <1>1, <1>5, <1>12, <1>13, <3>1, <4>1
    <3>2. CASE f # e
      <4>1. slot'[f] = slot[f] /\ stored'[f] = stored[f] BY <1>13, <3>2
      <4>2. slot[f].blob.id <= puts' BY <1>1, <1>3, <1>4
      <4> QED BY <4>1, <4>2 DEF OverflowInv, SlotsAreStored
    <3> QED BY <3>1, <3>2
  <2> QED BY <2>1 DEF SlotsAreStored
<1> QED BY <1>15, <1>16, <1>17 DEF OverflowInv

\* Deleting a record keeps the invariant.
LEMMA OverflowDrop ==
  ASSUME OverflowInv, NEW e \in Entities, DropEntity(e)
  PROVE  OverflowInv'
<1> DEFINE s == Space
           old == slot[e].at
           t == IF old # None THEN ReleaseProps(s, e, old) ELSE s
           H == Held
<1>1. /\ InstallSpace(t) /\ slot' = [slot EXCEPT ![e] = NoSlot] /\ stored' = [stored EXCEPT ![e] = NoBlob] /\ puts' = puts
  BY DEF DropEntity
<1>3. slot \in [Entities -> SlotRecords] /\ stored \in [Entities -> BlobRecords] /\ puts \in Nat BY DEF OverflowInv, SlotsAreTyped
<1>7. PICK N : Sound(s, N, H) BY DEF OverflowInv, SpaceIsSound
<1>8. OldIs(H, e, old, slot[e].blob) BY OldHeld
<1> HIDE DEF s, H, old
<1>9. \E M : Sound(t, M, Rest(H, e))
  <2> DEFINE ob == slot[e].blob
  <2>1. OldIs(H, e, old, ob) BY <1>8
  <2> HIDE DEF ob
  <2> QED BY <1>7, <2>1, DropIs
<1>10. PICK M : Sound(t, M, Rest(H, e)) BY <1>9
<1> HIDE DEF t
<1>11. NoBlob \in BlobRecords /\ NoSlot \in SlotRecords /\ NoSlot.at = None /\ NoSlot.live = FALSE /\ NoSlot.blob = NoBlob /\ NoBlob.id = 0
  BY DEF NoBlob, NoSlot, BlobRecords, SlotRecords, None
<1>13. slot'[e] = NoSlot /\ stored'[e] = NoBlob /\ (\A f \in Entities : f # e => slot'[f] = slot[f] /\ stored'[f] = stored[f]) BY <1>1, <1>3
<1>14. Held' = Rest(H, e)
  <2>1. slot'[e].at = None /\ slot'[e].blob = NoBlob /\ \A f \in Entities : f # e => slot'[f] = slot[f] BY <1>11, <1>13
  <2>2. Held' = Rest(Held, e) \cup Named(e, None, NoBlob) BY <1>3, <2>1, HeldNext
  <2> QED BY <2>2 DEF H, Named
<1>15. SpaceIsSound'
  <2>1. Sound(Space', M, Rest(H, e)) BY <1>1, <1>10, InstalledIs
  <2>2. Sound(Space', M, Held') BY <1>14, <2>1
  <2> QED BY <2>2 DEF SpaceIsSound
<1>16. SlotsAreTyped' BY <1>1, <1>3, <1>11 DEF SlotsAreTyped
<1>17. SlotsAreStored'
  <2>1. ASSUME NEW f \in Entities
        PROVE  slot'[f].blob.id <= puts' /\ (slot'[f].live => stored'[f] = slot'[f].blob) /\ (slot'[f].at # None => slot'[f].live)
    <3>1. CASE f = e BY <1>1, <1>3, <1>11, <1>13, <3>1
    <3>2. CASE f # e
      <4>1. slot'[f] = slot[f] /\ stored'[f] = stored[f] BY <1>13, <3>2
      <4> QED BY <1>1, <4>1 DEF OverflowInv, SlotsAreStored
    <3> QED BY <3>1, <3>2
  <2> QED BY <2>1 DEF SlotsAreStored
<1> QED BY <1>15, <1>16, <1>17 DEF OverflowInv

\* Opening the graph again keeps the invariant.
LEMMA OverflowReopen ==
  ASSUME OverflowInv, Reopen
  PROVE  OverflowInv'
<1>1. openPage' = None /\ page' = page /\ dirHead' = dirHead /\ spare' = spare /\ freeCount' = freeCount /\ slot' = slot
      /\ stored' = stored /\ puts' = puts
  BY DEF Reopen, space
<1>2. PICK N : Sound(Space, N, Held) BY DEF OverflowInv, SpaceIsSound
<1> DEFINE s == Space
           t == [s EXCEPT !.open = None]
<1>3. SpaceIs(s, N) /\ Owned(s.page, N, Held) BY <1>2 DEF Sound
<1>4. s.page = page /\ s.head = dirHead /\ s.spare = spare /\ s.count = freeCount /\ IsSpace(s) BY SpaceFieldsAre
<1> HIDE DEF s
<1>5. SpaceIs(t, N) /\ t.page = s.page /\ t.open = None BY <1>3, OpenMoves
<1>6. t.head = s.head /\ t.spare = s.spare /\ t.count = s.count BY <1>4 DEF IsSpace, SpaceFields
<1> HIDE DEF t
<1>7. Sound(t, N, Held) BY <1>3, <1>5 DEF Sound, OpenIs
<1>8. InstallSpace(t) BY <1>1, <1>4, <1>5, <1>6 DEF InstallSpace
<1>9. Sound(Space', N, Held) BY <1>7, <1>8, InstalledIs
<1>10. Held' = Held BY <1>1 DEF Held
<1>11. SpaceIsSound' BY <1>9, <1>10 DEF SpaceIsSound
<1> QED BY <1>1, <1>11 DEF OverflowInv, SlotsAreTyped, SlotsAreStored

\* Every step keeps the invariant.
LEMMA OverflowStep == OverflowInv /\ [NextOverflow]_overflowVars => OverflowInv'
<1> SUFFICES ASSUME OverflowInv, [NextOverflow]_overflowVars PROVE OverflowInv' OBVIOUS
<1>1. CASE UNCHANGED overflowVars
  <2>1. page' = page /\ dirHead' = dirHead /\ spare' = spare /\ freeCount' = freeCount /\ slot' = slot /\ openPage' = openPage
        /\ stored' = stored /\ puts' = puts
    BY <1>1 DEF overflowVars, space
  <2>2. Space' = Space /\ Held' = Held BY <2>1 DEF Space, Held
  <2>3. SpaceIsSound' BY <2>2 DEF OverflowInv, SpaceIsSound
  <2> QED BY <2>1, <2>3 DEF OverflowInv, SlotsAreTyped, SlotsAreStored
<1>2. ASSUME NEW e \in Entities, NEW len \in BlobLens, PutProps(e, len) PROVE OverflowInv' BY <1>2, OverflowPut
<1>3. ASSUME NEW e \in Entities, DropEntity(e) PROVE OverflowInv' BY <1>3, OverflowDrop
<1>4. CASE Reopen BY <1>4, OverflowReopen
<1> QED BY <1>1, <1>2, <1>3, <1>4 DEF NextOverflow

-----------------------------------------------------------------------------
(* What the invariant says of the walks and of the records.                *)

\* The free list of the state.
ListHere(N, m, D, En) == /\ Len(page) \in Nat /\ N \subseteq 1..Len(page)
                         /\ ListIs(m, D, En, dirHead, spare, Len(page)) /\ HoldsDirs(page, m, D, En)
                         /\ (1..Len(page)) \ N = NamedSet(m, En, spare, Len(page)) \cup DirSet(m, D)
                         /\ freeCount = Cardinality(NamedSet(m, En, spare, Len(page)))
                         /\ NoneLive(page, (1..Len(page)) \ N)

\* The free list of a sound state.
LEMMA SpaceHere ==
  ASSUME NEW N, SpaceIs(Space, N)
  PROVE  \E m, D, En : ListHere(N, m, D, En)
<1> DEFINE s == Space
<1>1. s.page = page /\ s.head = dirHead /\ s.spare = spare /\ s.count = freeCount BY SpaceFieldsAre
<1> HIDE DEF s
<1>2. AnySeq(s.page) /\ N \subseteq 1..Len(s.page) /\ \E m, D, En : FreeIs(s, (1..Len(s.page)) \ N, m, D, En) BY DEF SpaceIs, s
<1>3. Len(page) \in Nat BY <1>1, <1>2 DEF AnySeq
<1>4. PICK m, D, En : FreeIs(s, (1..Len(s.page)) \ N, m, D, En) BY <1>2
<1>5. ListHere(N, m, D, En) BY <1>1, <1>2, <1>3, <1>4 DEF FreeIs, ListHere
<1> QED BY <1>5

\* The walk of the free list passes the directory pages, each once.
LEMMA DirPagesAre ==
  ASSUME NEW N, NEW m, NEW D, NEW En, ListHere(N, m, D, En)
  PROVE  ToSet(DirPages) = DirSet(m, D) /\ IsInjective(DirPages)
<1>1. /\ m \in Nat /\ D \in [1..m -> 1..Len(page)] /\ dirHead = (IF m = 0 THEN None ELSE D[m]) /\ Len(page) \in Nat
      /\ \A i, k \in 1..m : D[i] = D[k] => i = k
  BY DEF ListHere, ListIs, DirsAre
<1>2. CASE m = 0
  <2>1. DirPages = <<>> BY <1>1, <1>2 DEF DirPages
  <2>2. DirSet(m, D) = {} BY <1>2 DEF DirSet
  <2> QED BY <2>1, <2>2 DEF ToSet, IsInjective
<1>3. CASE m # 0
  <2> DEFINE c == [j \in 1..m |-> D[m + 1 - j]]
  <2>0. m \in Nat \ {0} /\ m \in 1..m /\ 1 \in 1..m BY <1>1, <1>3
  <2>1. \A j \in 1..m : m + 1 - j \in 1..m /\ c[j] = D[m + 1 - j] /\ c[j] \in 1..Len(page) BY <1>1
  <2>2. c \in [1..m -> 1..Len(page)] /\ DOMAIN c = 1..m BY <2>1
  <2> HIDE DEF c
  <2>3. ASSUME NEW j \in 1..m, NEW l \in 1..m, c[j] = c[l] PROVE j = l
    <3>1. m + 1 - j = m + 1 - l BY <1>1, <2>1, <2>3
    <3> QED BY <1>1, <3>1
  <2>4. ASSUME NEW j \in 1..m PROVE page[c[j]].kind = "dir" /\ page[c[j]].next = IF j < m THEN c[j + 1] ELSE None
    <3> DEFINE i == m + 1 - j
    <3>1. i \in 1..m /\ c[j] = D[i] BY <2>1
    <3>2. page[D[i]] = [kind |-> "dir", next |-> IF i = 1 THEN None ELSE D[i - 1], entries |-> En[i]]
      BY <3>1 DEF ListHere, HoldsDirs
    <3>3. page[c[j]].kind = "dir" /\ page[c[j]].next = IF i = 1 THEN None ELSE D[i - 1] BY <3>1, <3>2
    <3>4. CASE j < m
      <4>1. j + 1 \in 1..m /\ i # 1 /\ m + 1 - (j + 1) = i - 1 BY <1>1, <3>4
      <4>2. c[j + 1] = D[i - 1] BY <2>1, <4>1
      <4> QED BY <3>3, <3>4, <4>1, <4>2
    <3>5. CASE ~(j < m)
      <4>1. i = 1 BY <1>1, <3>5
      <4> QED BY <3>3, <3>5, <4>1
    <3> QED BY <3>4, <3>5
  <2>5. Follow(page, "dir", c, m) BY <1>1, <2>0, <2>2, <2>3, <2>4 DEF Follow
  <2>6. PagesFrom(page, "dir", c[1]) = c BY <2>5, WalkIs
  <2>7. c[1] = D[m] /\ dirHead = D[m] /\ dirHead # None
    <3>1. m + 1 - 1 = m BY <1>1
    <3> QED BY <1>1, <1>3, <2>0, <2>1, <3>1 DEF None
  <2>8. DirPages = c BY <2>6, <2>7 DEF DirPages
  <2>9. { c[j] : j \in 1..m } = DirSet(m, D)
    <3>1. \A i \in 1..m : m + 1 - i \in 1..m /\ c[m + 1 - i] = D[i]
      <4> SUFFICES ASSUME NEW i \in 1..m PROVE m + 1 - i \in 1..m /\ c[m + 1 - i] = D[i] OBVIOUS
      <4>1. m + 1 - i \in 1..m /\ m + 1 - (m + 1 - i) = i BY <1>1
      <4> QED BY <2>1, <4>1
    <3>2. \A j \in 1..m : c[j] \in DirSet(m, D) BY <2>1 DEF DirSet
    <3>3. \A i \in 1..m : D[i] \in { c[j] : j \in 1..m } BY <3>1
    <3> QED BY <3>2, <3>3 DEF DirSet
  <2> QED BY <2>2, <2>3, <2>8, <2>9 DEF ToSet, IsInjective
<1> QED BY <1>2, <1>3

\* The places of the free list.
LEMMA PlacesAre ==
  ASSUME NEW N, NEW m, NEW D, NEW En, ListHere(N, m, D, En)
  PROVE  /\ \A x \in FreePlaces : \/ spare # None /\ x = <<None, 1>> /\ FreeAt(x) = spare
                                  \/ \E i \in 1..m : \E j \in 1..Len(En[i]) : x = <<D[i], j>> /\ FreeAt(x) = En[i][j]
         /\ spare # None => <<None, 1>> \in FreePlaces /\ FreeAt(<<None, 1>>) = spare
         /\ \A i \in 1..m : \A j \in 1..Len(En[i]) : <<D[i], j>> \in FreePlaces /\ FreeAt(<<D[i], j>>) = En[i][j]
<1>1. ToSet(DirPages) = DirSet(m, D) BY DirPagesAre
<1>2. D \in [1..m -> 1..Len(page)] /\ En \in [1..m -> Seq(1..Len(page))] BY DEF ListHere, ListIs, DirsAre
<1>3. ASSUME NEW i \in 1..m
      PROVE  /\ D[i] \in ToSet(DirPages) /\ D[i] # None /\ page[D[i]].kind = "dir" /\ page[D[i]].entries = En[i]
             /\ DOMAIN page[D[i]].entries = 1..Len(En[i])
  <2>1. page[D[i]] = [kind |-> "dir", next |-> IF i = 1 THEN None ELSE D[i - 1], entries |-> En[i]] BY DEF ListHere, HoldsDirs
  <2>2. page[D[i]].kind = "dir" /\ page[D[i]].entries = En[i] BY <2>1
  <2>3. D[i] \in DirSet(m, D) BY DEF DirSet
  <2>4. D[i] # None BY <1>2 DEF None
  <2>5. DOMAIN En[i] = 1..Len(En[i]) BY <1>2
  <2> QED BY <1>1, <2>2, <2>3, <2>4, <2>5
<1>4. FreeAt(<<None, 1>>) = spare BY DEF FreeAt
<1>5. ASSUME NEW i \in 1..m, NEW j \in 1..Len(En[i]) PROVE FreeAt(<<D[i], j>>) = En[i][j]
  BY <1>3 DEF FreeAt
<1> DEFINE Ds == { d \in ToSet(DirPages) : page[d].kind = "dir" }
<1>6. ASSUME NEW x
      PROVE  x \in FreePlaces <=> \/ spare # None /\ x = <<None, 1>>
                                  \/ \E d \in Ds : x \in {d} \X DOMAIN page[d].entries
  BY DEF FreePlaces
<1>7. Ds = DirSet(m, D) BY <1>1, <1>3 DEF DirSet
<1> HIDE DEF Ds
<1>8. ASSUME NEW x \in FreePlaces
      PROVE  \/ spare # None /\ x = <<None, 1>> /\ FreeAt(x) = spare
             \/ \E i \in 1..m : \E j \in 1..Len(En[i]) : x = <<D[i], j>> /\ FreeAt(x) = En[i][j]
  <2>1. CASE spare # None /\ x = <<None, 1>> BY <1>4, <2>1
  <2>2. CASE \E d \in Ds : x \in {d} \X DOMAIN page[d].entries
    <3>1. PICK d \in Ds : x \in {d} \X DOMAIN page[d].entries BY <2>2
    <3>2. PICK i \in 1..m : d = D[i] BY <1>7, <3>1 DEF DirSet
    <3>3. x \in {D[i]} \X (1..Len(En[i])) BY <1>3, <3>1, <3>2
    <3>4. PICK j \in 1..Len(En[i]) : x = <<D[i], j>> BY <3>3
    <3> QED BY <1>5, <3>4
  <2> QED BY <1>6, <2>1, <2>2
<1>9. ASSUME NEW i \in 1..m, NEW j \in 1..Len(En[i]) PROVE <<D[i], j>> \in FreePlaces
  <2> DEFINE d == D[i]
  <2>1. d \in Ds BY <1>7 DEF DirSet
  <2>2. <<d, j>> \in {d} \X DOMAIN page[d].entries BY <1>3
  <2> HIDE DEF d
  <2>3. <<d, j>> \in FreePlaces BY <1>6, <2>1, <2>2
  <2> QED BY <2>3 DEF d
<1>10. spare # None => <<None, 1>> \in FreePlaces BY <1>6
<1> QED BY <1>4, <1>5, <1>8, <1>9, <1>10

\* The free list names every page that is not in use once, and counts them.
LEMMA FreeListIsSound ==
  ASSUME NEW N, NEW m, NEW D, NEW En, ListHere(N, m, D, En)
  PROVE  /\ IsInjective(DirPages) /\ NamedPages \cap ToSet(DirPages) = {}
         /\ \A a, b \in FreePlaces : FreeAt(a) = FreeAt(b) => a = b
         /\ FreePages = (1..Len(page)) \ N
         /\ freeCount = Cardinality(NamedPages)
<1> DEFINE top == Len(page)
           Nm == NamedSet(m, En, spare, top)
<1>1. ToSet(DirPages) = DirSet(m, D) /\ IsInjective(DirPages) BY DirPagesAre
<1>2. /\ ListIs(m, D, En, dirHead, spare, top) /\ OnceNamed(m, D, En, spare)
      /\ En \in [1..m -> Seq(1..top)] /\ spare \in 0..top /\ top \in Nat
  BY DEF ListHere, ListIs, DirsAre
<1>3. /\ \A x \in FreePlaces : \/ spare # None /\ x = <<None, 1>> /\ FreeAt(x) = spare
                               \/ \E i \in 1..m : \E j \in 1..Len(En[i]) : x = <<D[i], j>> /\ FreeAt(x) = En[i][j]
      /\ spare # None => <<None, 1>> \in FreePlaces /\ FreeAt(<<None, 1>>) = spare
      /\ \A i \in 1..m : \A j \in 1..Len(En[i]) : <<D[i], j>> \in FreePlaces /\ FreeAt(<<D[i], j>>) = En[i][j]
  BY PlacesAre
<1>4. \A i \in 1..m : \A j \in 1..Len(En[i]) : En[i][j] \in 1..top BY <1>2
<1>5. spare # None => spare \in 1..top BY <1>2 DEF None
<1>6. NamedPages = Nm
  <2>1. ASSUME NEW x \in FreePlaces PROVE FreeAt(x) \in Nm
    <3>1. CASE spare # None /\ FreeAt(x) = spare BY <1>5, <3>1 DEF NamedSet
    <3>2. CASE \E i \in 1..m : \E j \in 1..Len(En[i]) : x = <<D[i], j>> /\ FreeAt(x) = En[i][j]
      <4>1. PICK i \in 1..m : \E j \in 1..Len(En[i]) : x = <<D[i], j>> /\ FreeAt(x) = En[i][j] BY <3>2
      <4>2. PICK j \in 1..Len(En[i]) : FreeAt(x) = En[i][j] BY <4>1
      <4> QED BY <1>4, <4>2 DEF NamedSet
    <3> QED BY <1>3, <3>1, <3>2
  <2>2. ASSUME NEW p \in Nm PROVE \E x \in FreePlaces : p = FreeAt(x)
    <3>0. p # None BY DEF NamedSet, None
    <3>1. CASE p = spare BY <1>3, <3>0, <3>1
    <3>2. CASE \E i \in 1..m : \E j \in 1..Len(En[i]) : p = En[i][j]
      <4>1. PICK i \in 1..m : \E j \in 1..Len(En[i]) : p = En[i][j] BY <3>2
      <4>2. PICK j \in 1..Len(En[i]) : p = En[i][j] BY <4>1
      <4> QED BY <1>3, <4>2
    <3> QED BY <3>1, <3>2 DEF NamedSet
  <2> HIDE DEF Nm
  <2> QED BY <2>1, <2>2 DEF NamedPages
<1>7. Nm \cap DirSet(m, D) = {} BY <1>2, ListApart
<1>8. (1..top) \ N = Nm \cup DirSet(m, D) /\ freeCount = Cardinality(Nm) BY DEF ListHere
<1>9. ASSUME NEW a \in FreePlaces, NEW b \in FreePlaces, FreeAt(a) = FreeAt(b) PROVE a = b
  <2>1. CASE spare # None /\ a = <<None, 1>> /\ FreeAt(a) = spare
    <3>1. CASE spare # None /\ b = <<None, 1>> BY <2>1, <3>1
    <3>2. CASE \E i \in 1..m : \E j \in 1..Len(En[i]) : b = <<D[i], j>> /\ FreeAt(b) = En[i][j]
      <4>1. PICK i \in 1..m : \E j \in 1..Len(En[i]) : FreeAt(b) = En[i][j] BY <3>2
      <4>2. PICK j \in 1..Len(En[i]) : FreeAt(b) = En[i][j] BY <4>1
      <4>3. En[i][j] # spare BY <1>2 DEF OnceNamed
      <4> QED BY <1>9, <2>1, <4>2, <4>3
    <3> QED BY <1>3, <3>1, <3>2
  <2>2. CASE \E i \in 1..m : \E j \in 1..Len(En[i]) : a = <<D[i], j>> /\ FreeAt(a) = En[i][j]
    <3>1. PICK i \in 1..m : \E j \in 1..Len(En[i]) : a = <<D[i], j>> /\ FreeAt(a) = En[i][j] BY <2>2
    <3>2. PICK j \in 1..Len(En[i]) : a = <<D[i], j>> /\ FreeAt(a) = En[i][j] BY <3>1
    <3>3. CASE spare # None /\ b = <<None, 1>> /\ FreeAt(b) = spare
      <4>1. En[i][j] # spare BY <1>2 DEF OnceNamed
      <4> QED BY <1>9, <3>2, <3>3, <4>1
    <3>4. CASE \E k \in 1..m : \E l \in 1..Len(En[k]) : b = <<D[k], l>> /\ FreeAt(b) = En[k][l]
      <4>1. PICK k \in 1..m : \E l \in 1..Len(En[k]) : b = <<D[k], l>> /\ FreeAt(b) = En[k][l] BY <3>4
      <4>2. PICK l \in 1..Len(En[k]) : b = <<D[k], l>> /\ FreeAt(b) = En[k][l] BY <4>1
      <4>3. En[i][j] = En[k][l] BY <1>9, <3>2, <4>2
      <4>4. i = k /\ j = l BY <1>2, <4>3 DEF OnceNamed
      <4> QED BY <3>2, <4>2, <4>4
    <3> QED BY <1>3, <3>3, <3>4
  <2> QED BY <1>3, <2>1, <2>2
<1> HIDE DEF Nm
<1>10. FreePages = (1..top) \ N BY <1>1, <1>6, <1>8 DEF FreePages
<1> QED BY <1>1, <1>6, <1>7, <1>8, <1>9, <1>10

PagesHere(N) == Len(page) \in Nat /\ N \subseteq 1..Len(page) /\ Owned(page, N, Held)
SlotHolding(e) == Holding(e, slot[e].at, slot[e].blob)

\* The page a slot names is a slab page that bears its blob or the first page of its chain.
SlotLeads(N, e, h) ==
  /\ h \in Held /\ h.at = slot[e].at /\ h.ent = e /\ h.blob = slot[e].blob /\ h.at \in N
  /\ page[h.at].kind = "slab" => OwnSlab(page, Held, h.at) /\ PagesOf(e) = {h.at}
  /\ page[h.at].kind # "slab" =>
       \E c : ChainIs(page, N, h, c) /\ ChainPages(page, h.at) = c /\ PagesOf(e) = Elements(c, Size(h))

\* Every slot leads to pages in use that bear its blob.
LEMMA PagesOfAre ==
  ASSUME NEW N, PagesHere(N), NEW e \in Entities, slot[e].at # None, NEW h, h = SlotHolding(e)
  PROVE  SlotLeads(N, e, h)
<1>0. Len(page) \in Nat /\ N \subseteq 1..Len(page) /\ Owned(page, N, Held) BY DEF PagesHere
<1>1. h \in Held BY DEF Held, SlotHolding
<1>2. h.at = slot[e].at /\ h.ent = e /\ h.blob = slot[e].blob BY DEF Holding, SlotHolding
<1>3. h.at \in N BY <1>0, <1>1 DEF Owned, HoldingsAre
<1>4. CASE page[h.at].kind = "slab"
  <2>1. OwnSlab(page, Held, h.at) BY <1>0, <1>3, <1>4 DEF Owned, OwnChain
  <2>2. PagesOf(e) = {h.at} BY <1>2, <1>4 DEF PagesOf
  <2> QED BY <1>1, <1>2, <1>3, <1>4, <2>1, <2>2 DEF SlotLeads
<1>5. CASE page[h.at].kind # "slab"
  <2>1. page[h.at].kind = "chain" BY <1>0, <1>3, <1>5 DEF Owned, OwnSlab, OwnChain
  <2>2. PICK c : ChainIs(page, N, h, c) BY <1>0, <1>1, <2>1 DEF Owned
  <2>3. ChainPages(page, h.at) = c BY <1>0, <2>2, ChainWalk
  <2>4. DOMAIN c = 1..Size(h) BY <2>2 DEF ChainIs
  <2>5. PagesOf(e) = ToSet(c) BY <1>2, <2>1, <2>3 DEF PagesOf
  <2>6. PagesOf(e) = Elements(c, Size(h)) BY <2>4, <2>5 DEF ToSet, Elements
  <2>7. \E d : ChainIs(page, N, h, d) /\ ChainPages(page, h.at) = d /\ PagesOf(e) = Elements(d, Size(h)) BY <2>2, <2>3, <2>6
  <2> QED BY <1>1, <1>2, <1>3, <1>5, <2>7 DEF SlotLeads
<1> QED BY <1>4, <1>5

\* The same, from what is held.
LEMMA HeldLeads ==
  ASSUME NEW N, PagesHere(N), NEW h \in Held
  PROVE  h.ent \in Entities /\ SlotLeads(N, h.ent, h)
<1>1. h.ent \in Entities /\ h = SlotHolding(h.ent) /\ slot[h.ent].at # None BY HeldIs DEF SlotHolding
<1> DEFINE e == h.ent
<1>2. e \in Entities /\ h = SlotHolding(e) /\ slot[e].at # None BY <1>1
<1> HIDE DEF e
<1>3. SlotLeads(N, e, h) BY <1>2, PagesOfAre
<1> QED BY <1>1, <1>3 DEF e

\* The pages in use are the pages slots lead to.
LEMMA LivePagesAre ==
  ASSUME NEW N, PagesHere(N)
  PROVE  LivePages = N
<1>1. ASSUME NEW e \in Entities, NEW p \in PagesOf(e) PROVE p \in N
  <2>0. slot[e].at # None BY <1>1 DEF PagesOf
  <2>a. PICK h : h = SlotHolding(e) OBVIOUS
  <2>b. SlotLeads(N, e, h) BY <2>0, <2>a, PagesOfAre
  <2>2. CASE page[h.at].kind = "slab" BY <1>1, <2>b, <2>2 DEF SlotLeads
  <2>3. CASE page[h.at].kind # "slab"
    <3>1. PICK c : ChainIs(page, N, h, c) /\ PagesOf(e) = Elements(c, Size(h)) BY <2>b, <2>3 DEF SlotLeads
    <3>2. PICK j \in 1..Size(h) : p = c[j] BY <1>1, <3>1 DEF Elements
    <3> QED BY <3>1, <3>2, ChainPagesAre
  <2> QED BY <2>2, <2>3
<1>2. ASSUME NEW p \in N PROVE \E e \in Entities : p \in PagesOf(e)
  <2>1. OwnSlab(page, Held, p) \/ OwnChain(page, N, Held, p) BY DEF Owned, PagesHere
  <2>2. CASE OwnSlab(page, Held, p)
    <3>1. Kept(Held, p) # {} /\ page[p].kind = "slab" BY <2>2 DEF OwnSlab
    <3>2. PICK h \in Held : h.at = p BY <3>1 DEF Kept
    <3>3. h.ent \in Entities /\ SlotLeads(N, h.ent, h) BY HeldLeads
    <3>4. PagesOf(h.ent) = {h.at} BY <3>1, <3>2, <3>3 DEF SlotLeads
    <3> QED BY <3>2, <3>3, <3>4
  <2>3. CASE OwnChain(page, N, Held, p)
    <3>1. PICK h \in Held : \E c : ChainIs(page, N, h, c) /\ p \in Elements(c, Size(h)) BY <2>3 DEF OwnChain
    <3>2. PICK c : ChainIs(page, N, h, c) /\ p \in Elements(c, Size(h)) BY <3>1
    <3>3. h.ent \in Entities /\ SlotLeads(N, h.ent, h) BY HeldLeads
    <3>4. page[h.at].kind # "slab"
      <4>1. 1 \in 1..Size(h) /\ c[1] = h.at BY <3>2 DEF ChainIs
      <4>2. page[h.at].kind = "chain" BY <3>2, <4>1, ChainPagesAre
      <4> QED BY <4>2
    <3>5. \E d : ChainIs(page, N, h, d) /\ ChainPages(page, h.at) = d /\ PagesOf(h.ent) = Elements(d, Size(h))
      BY <3>3, <3>4 DEF SlotLeads
    <3>6. ChainPages(page, h.at) = c BY <3>2, ChainWalk DEF PagesHere
    <3>7. PagesOf(h.ent) = Elements(c, Size(h)) BY <3>5, <3>6
    <3> QED BY <3>2, <3>3, <3>7
  <2> QED BY <2>1, <2>2, <2>3
<1> QED BY <1>1, <1>2 DEF LivePages

\* A record that is live reads back what it was given.
LEMMA RecordsRead ==
  ASSUME NEW N, PagesHere(N), NEW e \in Entities, slot[e].live, stored[e] = slot[e].blob
  PROVE  ReadProps(page, e, slot[e]) = stored[e]
<1> DEFINE sl == slot[e]
<1>1. CASE sl.at = None BY <1>1 DEF ReadProps
<1>2. CASE sl.at # None
  <2>a. PICK h : h = SlotHolding(e) OBVIOUS
  <2>b. SlotLeads(N, e, h) BY <1>2, <2>a, PagesOfAre
  <2>1. /\ h \in Held /\ h.at = sl.at /\ h.ent = e /\ h.blob = sl.blob
        /\ page[h.at].kind = "slab" => OwnSlab(page, Held, h.at)
        /\ page[h.at].kind # "slab" => \E c : ChainIs(page, N, h, c) /\ ChainPages(page, h.at) = c
    BY <2>b DEF SlotLeads
  <2>2. CASE page[h.at].kind = "slab"
    <3> DEFINE dirs == page[h.at].dirs
    <3>1. Laid(dirs) /\ Bears(dirs) = Kept(Held, h.at) BY <2>1, <2>2 DEF OwnSlab, SlabIs
    <3>2. <<e, sl.blob>> \in Bears(dirs) BY <2>1, <3>1 DEF Kept
    <3>3. e # "freed" BY OverflowAssumption
    <3>4. ReadProps(page, e, sl) = ReadBlob(dirs, e) BY <1>2, <2>1, <2>2 DEF ReadProps
    <3> HIDE DEF dirs
    <3> DEFINE b == sl.blob
    <3>5. <<e, b>> \in Bears(dirs) BY <3>2
    <3> HIDE DEF b
    <3>6. ReadBlob(dirs, e) = b BY <3>1, <3>3, <3>5, ReadBlobIs
    <3> QED BY <3>4, <3>6 DEF b
  <2>3. CASE page[h.at].kind # "slab"
    <3>1. PICK c : ChainIs(page, N, h, c) /\ ChainPages(page, h.at) = c BY <2>1, <2>3
    <3>2. 1 \in 1..Size(h) /\ c[1] = h.at /\ DOMAIN c = 1..Size(h) BY <3>1 DEF ChainIs
    <3>a. \A i \in 1..Size(h) : page[c[i]].blob = h.blob
      <4> SUFFICES ASSUME NEW i \in 1..Size(h) PROVE page[c[i]].blob = h.blob OBVIOUS
      <4> QED BY <3>1, ChainPagesAre
    <3>3. page[h.at].blob = h.blob BY <3>2, <3>a
    <3>4. \A i \in DOMAIN c : page[c[i]].kind = "chain" /\ page[c[i]].part = i /\ page[c[i]].blob = page[h.at].blob
      <4> SUFFICES ASSUME NEW i \in 1..Size(h)
                   PROVE  page[c[i]].kind = "chain" /\ page[c[i]].part = i /\ page[c[i]].blob = page[h.at].blob
        BY <3>2
      <4>1. page[c[i]] = LinkAt(h.blob, c, i) /\ page[c[i]].kind = "chain" /\ page[c[i]].blob = h.blob BY <3>1, ChainPagesAre
      <4>2. LinkAt(h.blob, c, i).part = i BY DEF LinkAt
      <4> QED BY <3>3, <4>1, <4>2
    <3>5. ReadProps(page, e, sl) = page[h.at].blob
      <4>1. ChainPages(page, sl.at) = c /\ page[sl.at].kind # "slab" BY <2>1, <2>3, <3>1
      <4>2. \A i \in DOMAIN c : page[c[i]].kind = "chain" /\ page[c[i]].part = i /\ page[c[i]].blob = page[sl.at].blob BY <2>1, <3>4
      <4>3. ReadProps(page, e, sl) = page[sl.at].blob BY <1>2, <4>1, <4>2 DEF ReadProps
      <4> QED BY <2>1, <4>3
    <3> QED BY <2>1, <3>3, <3>5
  <2> QED BY <2>2, <2>3
<1> QED BY <1>1, <1>2

\* The live blobs of a laid page lie apart, below the page's end and above its directory.
LEMMA SlabIsApart ==
  ASSUME NEW dirs, SlabIs(dirs)
  PROVE  LET live == LiveEntries(dirs)
             end(i) == dirs[i].off + dirs[i].blob.len
         IN /\ \A i \in live : dirs[i].off >= BlobDirEnd(dirs) /\ end(i) <= Payload
            /\ \A i, j \in live : i # j => end(i) <= dirs[j].off \/ end(j) <= dirs[i].off
<1>1. DOMAIN dirs = 1..Len(dirs) /\ Laid(dirs) BY DEF SlabIs, Laid, Entries
<1>2. ASSUME NEW i \in LiveEntries(dirs) PROVE i \in 1..Len(dirs) /\ dirs[i].ent # "freed" BY <1>1 DEF LiveEntries
<1>3. ASSUME NEW i \in LiveEntries(dirs) PROVE dirs[i].off >= BlobDirEnd(dirs) /\ dirs[i].off + dirs[i].blob.len <= Payload
  BY <1>1, <1>2 DEF SlabIs, Laid
<1>4. ASSUME NEW i \in LiveEntries(dirs), NEW j \in LiveEntries(dirs), i # j
      PROVE  dirs[i].off + dirs[i].blob.len <= dirs[j].off \/ dirs[j].off + dirs[j].blob.len <= dirs[i].off
  <2>1. ClearOf(dirs[i], dirs[j]) BY <1>1, <1>2, <1>4 DEF Laid
  <2> QED BY <2>1 DEF ClearOf, Below
<1> QED BY <1>3, <1>4

\* The invariant implies the property.
LEMMA OverflowInvImplies == OverflowInv => OverflowIsSound
<1> SUFFICES ASSUME OverflowInv PROVE OverflowIsSound OBVIOUS
<1>1. PICK N : Sound(Space, N, Held) BY DEF OverflowInv, SpaceIsSound
<1>2. SpaceIs(Space, N) /\ Owned(page, N, Held) BY <1>1, SpaceFieldsAre DEF Sound
<1>3. PICK m, D, En : ListHere(N, m, D, En) BY <1>2, SpaceHere
<1>4. Len(page) \in Nat /\ N \subseteq 1..Len(page) /\ NoneLive(page, (1..Len(page)) \ N) BY <1>3 DEF ListHere
<1>5. /\ IsInjective(DirPages) /\ NamedPages \cap ToSet(DirPages) = {}
      /\ \A a, b \in FreePlaces : FreeAt(a) = FreeAt(b) => a = b
      /\ FreePages = (1..Len(page)) \ N
      /\ freeCount = Cardinality(NamedPages)
  BY <1>3, FreeListIsSound
<1>a. PagesHere(N) BY <1>2, <1>4 DEF PagesHere
<1>6. LivePages = N BY <1>a, LivePagesAre
<1>7. DOMAIN page = 1..Len(page)
  <2>1. AnySeq(page) BY <1>2, SpaceFieldsAre DEF SpaceIs
  <2> QED BY <2>1 DEF AnySeq
<1>8. PropsReadBack
  <2>1. \A e \in Entities : slot[e].live => stored[e] = slot[e].blob BY DEF OverflowInv, SlotsAreStored
  <2> QED BY <1>a, <2>1, RecordsRead DEF PropsReadBack
<1>9. BlobsKeepApart
  <2> SUFFICES ASSUME NEW p \in DOMAIN page, page[p].kind = "slab"
               PROVE  LET dirs == page[p].dirs
                          live == LiveEntries(dirs)
                          end(i) == dirs[i].off + dirs[i].blob.len
                      IN /\ \A i \in live : dirs[i].off >= BlobDirEnd(dirs) /\ end(i) <= Payload
                         /\ \A i, j \in live : i # j => end(i) <= dirs[j].off \/ end(j) <= dirs[i].off
    BY DEF BlobsKeepApart
  <2> DEFINE dirs == page[p].dirs
  <2>1. CASE p \in N
    <3>1. SlabIs(dirs) BY <1>2, <2>1 DEF Owned, OwnSlab, OwnChain
    <3> HIDE DEF dirs
    <3>2. LET live == LiveEntries(dirs)
              end(i) == dirs[i].off + dirs[i].blob.len
          IN /\ \A i \in live : dirs[i].off >= BlobDirEnd(dirs) /\ end(i) <= Payload
             /\ \A i, j \in live : i # j => end(i) <= dirs[j].off \/ end(j) <= dirs[i].off
      BY <3>1, SlabIsApart
    <3> QED BY <3>2 DEF dirs
  <2>2. CASE p \notin N
    <3>1. LiveEntries(dirs) = {} BY <1>4, <1>7, <2>2 DEF NoneLive
    <3> QED BY <3>1
  <2> QED BY <2>1, <2>2
<1>10. SlotPagesAreNotFree BY <1>5, <1>6 DEF SlotPagesAreNotFree
<1>11. LivePages \cup FreePages = DOMAIN page BY <1>4, <1>5, <1>6, <1>7
<1>12. NoPageIsLost BY <1>5, <1>11 DEF NoPageIsLost
<1> QED BY <1>8, <1>9, <1>10, <1>12 DEF OverflowIsSound

\* Whatever the page, slab and directory sizes and the lengths of the blobs,
\* every record reads back the properties it was last given, the blobs of a
\* slab page lie apart, and every page of overflow.db is either led to by a
\* slot or in the free list, once, and counted.
THEOREM OverflowHolds == SpecOverflow => []OverflowIsSound
<1>1. InitOverflow => OverflowInv BY OverflowInit
<1>2. OverflowInv /\ [NextOverflow]_overflowVars => OverflowInv' BY OverflowStep
<1>3. OverflowInv => OverflowIsSound BY OverflowInvImplies
<1> QED BY <1>1, <1>2, <1>3, PTL DEF SpecOverflow
=============================================================================
