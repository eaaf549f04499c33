-------------------------- MODULE DurabilityProofs --------------------------
(***************************************************************************)
(* A crash loses and invents nothing: proofs about the write-ahead log     *)
(* under the transaction engine, for every number of records, transactions *)
(* and values, every graph and every order of commits, failures, vacuums,  *)
(* evictions, batches, checkpoints and crashes.                            *)
(***************************************************************************)
EXTENDS Durability, MvccProofs, FiniteSetTheorems, SequenceTheorems

-----------------------------------------------------------------------------
(* What recovery makes of the first n records of a log.                    *)

WriteRecord == [kind : {"Write"}, key : Keys, val : Versions, txn : TxnIds \cup {NoTxn}]
LogRecord == WriteRecord \cup [kind : {"Commit"}, txn : TxnIds]

IsWriteOf(r, k) == r.kind = "Write" /\ r.key = k

\* Transaction u has a Commit marker there, or needs none.
MarkedIn(log, n, u) == u = NoTxn \/ \E i \in 1 .. n : log[i].kind = "Commit" /\ log[i].txn = u

\* The places of the records of k that are replayed.
Replayed(log, n, k) == {i \in 1 .. n : IsWriteOf(log[i], k) /\ MarkedIn(log, n, log[i].txn)}

\* The last of them writes v.
LastIs(log, n, k, v) ==
    \E j \in Replayed(log, n, k) : (\A i \in Replayed(log, n, k) : i <= j) /\ log[j].val = v

\* Recovery from the first n records and the version `stored` in the file makes
\* it v; without a record, writing the page in the pool first would not matter.
Recovers(log, n, k, v, stored, pooled) ==
    \/ Replayed(log, n, k) = {} /\ stored = v /\ pooled = v
    \/ LastIs(log, n, k, v)

\* The greatest of a bounded set of naturals is in it.
LEMMA MaxIsGreatest ==
    ASSUME NEW T \in SUBSET Nat, T # {}, NEW b \in Nat, \A x \in T : x <= b
    PROVE  Max(T) \in T /\ \A x \in T : x <= Max(T)
<1> DEFINE U == {b - x : x \in T}
<1>0. \A x \in T : x \in Nat /\ b - x \in Nat
    OBVIOUS
<1>1. U \in SUBSET Nat /\ U # {}
    BY <1>0
<1>2. PICK y \in U : \A z \in U : y <= z
    BY <1>1, LeastNat
<1>3. PICK m \in T : y = b - m
    OBVIOUS
<1>4. \A x \in T : m >= x
    <2> SUFFICES ASSUME NEW x \in T PROVE m >= x
        OBVIOUS
    <2>1. y <= b - x
        BY <1>2
    <2> QED
        BY <1>3, <2>1
<1>5. Max(T) \in T /\ \A x \in T : Max(T) >= x
    BY <1>4 DEF Max
<1> QED
    BY <1>5

\* What FileBackend::open replays is what Recovers says.
LEMMA ReplayIsRecovery ==
    ASSUME NEW log \in Seq(LogRecord), NEW n \in 0 .. Len(log), NEW k \in Keys, NEW v,
           Recovers(log, n, k, v, disk[k], page[k])
    PROVE  ReplayRecords(SubSeq(log, 1, n))[k] = v
<1> DEFINE cut == SubSeq(log, 1, n)
           own == {i \in DurableRecords(cut) : cut[i].key = k}
<1>1. /\ cut \in Seq(LogRecord) /\ Len(cut) = n
      /\ \A i \in 1 .. n : cut[i] = log[i]
    <2>1. \A i \in 1 .. n : log[i] \in LogRecord
        BY ElementOfSeq
    <2>2. cut \in Seq(LogRecord) /\ Len(cut) = (IF 1 <= n THEN n - 1 + 1 ELSE 0)
        BY <2>1, SubSeqProperties
    <2>3. \A i \in 1 .. n - 1 + 1 : cut[i] = log[1 + i - 1]
        BY <2>1, SubSeqProperties
    <2> QED
        BY <2>2, <2>3
<1>2. DOMAIN cut = 1 .. n
    BY <1>1, LenProperties
<1> HIDE DEF cut
<1>3. \A u : u \in CommittedTxnIds(cut) \cup {NoTxn} <=> MarkedIn(log, n, u)
    BY <1>1, <1>2 DEF CommittedTxnIds, Range, MarkedIn
<1>4. own = Replayed(log, n, k)
    BY <1>1, <1>2, <1>3 DEF DurableRecords, Replayed, IsWriteOf
<1>5. ReplayRecords(cut)[k] = IF own = {} THEN disk[k] ELSE cut[Max(own)].val
    BY DEF ReplayRecords
<1> HIDE DEF own
<1>6. CASE Replayed(log, n, k) = {}
    BY <1>4, <1>5, <1>6 DEF Recovers, LastIs, cut
<1>7. CASE Replayed(log, n, k) # {}
    <2>1. PICK j \in Replayed(log, n, k) :
              (\A i \in Replayed(log, n, k) : i <= j) /\ log[j].val = v
        BY <1>7 DEF Recovers, LastIs
    <2>2. own \in SUBSET Nat /\ own # {} /\ n \in Nat /\ \A x \in own : x <= n
        BY <1>4, <1>7 DEF Replayed
    <2>3. Max(own) \in own /\ \A x \in own : x <= Max(own)
        BY <2>2, MaxIsGreatest
    <2>4. Max(own) = j
        BY <1>4, <2>1, <2>2, <2>3
    <2>5. cut[Max(own)] = log[j]
        BY <1>1, <2>1, <2>4 DEF Replayed
    <2> QED
        BY <1>5, <2>1, <2>2, <2>5 DEF cut
<1> QED
    BY <1>6, <1>7

\* The first records of a log decide about themselves, whatever follows them.
LEMMA PrefixDecides ==
    ASSUME NEW log, NEW more, NEW n \in Nat, \A i \in 1 .. n : more[i] = log[i], NEW k,
           NEW v, NEW stored, NEW pooled, Recovers(log, n, k, v, stored, pooled)
    PROVE  Recovers(more, n, k, v, stored, pooled)
<1>1. \A u : MarkedIn(more, n, u) <=> MarkedIn(log, n, u)
    BY DEF MarkedIn
<1>2. Replayed(more, n, k) = Replayed(log, n, k)
    BY <1>1 DEF Replayed
<1>3. LastIs(more, n, k, v) <=> LastIs(log, n, k, v)
    BY <1>2 DEF LastIs, Replayed
<1> QED
    BY <1>2, <1>3 DEF Recovers

\* Further records change nothing for k when none of them is a record of k that
\* is replayed, and the records of k their markers bring in are overwritten.
LEMMA NothingAdded ==
    ASSUME NEW log, NEW more, NEW m \in Nat, NEW n \in Nat, m <= n,
           \A i \in 1 .. m : more[i] = log[i], NEW k,
           \A i \in (m + 1) .. n : IsWriteOf(more[i], k) => ~ MarkedIn(more, n, more[i].txn),
           \A i \in 1 .. m : IsWriteOf(log[i], k) =>
               \/ MarkedIn(log, m, log[i].txn)
               \/ ~ MarkedIn(more, n, log[i].txn)
               \/ \E j \in Replayed(log, m, k) : i < j,
           NEW v, NEW stored, NEW pooled, Recovers(log, m, k, v, stored, pooled)
    PROVE  Recovers(more, n, k, v, stored, pooled)
<1>1. \A u : MarkedIn(log, m, u) => MarkedIn(more, n, u)
    BY DEF MarkedIn
<1>2. Replayed(log, m, k) \subseteq Replayed(more, n, k)
    BY <1>1 DEF Replayed
<1>3. \A i \in Replayed(more, n, k) : i \in Replayed(log, m, k) \/ \E j \in Replayed(log, m, k) : i < j
    <2> SUFFICES ASSUME NEW i \in Replayed(more, n, k), i \notin Replayed(log, m, k)
                 PROVE  \E j \in Replayed(log, m, k) : i < j
        OBVIOUS
    <2>1. i \in 1 .. n /\ IsWriteOf(more[i], k) /\ MarkedIn(more, n, more[i].txn)
        BY DEF Replayed
    <2>2. i \in 1 .. m
        BY <2>1
    <2> QED
        BY <2>1, <2>2 DEF Replayed
<1>4. CASE Replayed(log, m, k) = {}
    <2>1. Replayed(more, n, k) = {}
        BY <1>3, <1>4
    <2> QED
        BY <1>4, <2>1 DEF Recovers, LastIs
<1>5. CASE Replayed(log, m, k) # {}
    <2>1. PICK j \in Replayed(log, m, k) :
              (\A i \in Replayed(log, m, k) : i <= j) /\ log[j].val = v
        BY <1>5 DEF Recovers, LastIs
    <2>2. \A i \in Replayed(log, m, k) : i \in 1 .. m
        BY DEF Replayed
    <2>3. \A i \in Replayed(more, n, k) : i \in 1 .. n
        BY DEF Replayed
    <2>4. \A i \in Replayed(more, n, k) : i <= j
        BY <1>3, <2>1, <2>2, <2>3
    <2>5. more[j].val = v
        BY <2>1, <2>2
    <2> QED
        BY <1>2, <2>1, <2>4, <2>5 DEF Recovers, LastIs
<1> QED
    BY <1>4, <1>5

\* A replayed record that no record of k follows decides.
LEMMA LastDecides ==
    ASSUME NEW log, NEW n \in Nat, NEW k, NEW j \in Replayed(log, n, k),
           \A i \in 1 .. n : IsWriteOf(log[i], k) => i <= j
    PROVE  LastIs(log, n, k, log[j].val)
BY DEF LastIs, Replayed

-----------------------------------------------------------------------------
(* The inductive invariant.                                                *)

Budget == [lives : Nat, flush : Nat, fail : Nat, batch : Nat]

DurabilityType ==
    /\ wal \in Seq(LogRecord)
    /\ synced \in 0 .. Len(wal)
    /\ disk \in [Keys -> Versions]
    /\ diskIds \in (1 .. (MaxNode + 1)) \X ((MaxNode + 1) .. (MaxNode + MaxEdge + 1))
    /\ batchOpen \in BOOLEAN
    /\ committing \in active \cup {NoTxn}
    /\ budget \in Budget

\* The reverse index names live transactions, and records they have deltas of.
WritesHaveDeltas ==
    \A t \in TxnIds : \A k \in written[t] : t \in active /\ OfTxn(chain[k], t) # {}

\* The commit under way writes k.
Pending(k) == committing # NoTxn /\ k \in written[committing]

\* Recovery from the first n records yields what an auto-commit reader sees.
Sound(n, k) == Recovers(wal, n, k, ReadAutoCommit(k), disk[k], page[k])

\* Only a sync that a batch has put off is in the way of the record's recovery.
OnlyBatch(k) == causes[k] \subseteq {"batch"}

\* With the whole log, what the commit under way wrote comes last.
CommitIsLogged ==
    \A k \in Keys : Pending(k) =>
        \E j \in Replayed(wal, Len(wal), k) :
            /\ wal[j].val = OwnNewest(committing, k)
            /\ \A i \in 1 .. Len(wal) : IsWriteOf(wal[i], k) => i <= j

\* A record that has no marker is overwritten, or its transaction belongs to
\* this life of the process and, while it lives, still writes the key: no later
\* marker brings back a version that nobody committed.
UnmarkedIsHarmless ==
    \A k \in Keys : OnlyBatch(k) =>
        \A i \in 1 .. Len(wal) : IsWriteOf(wal[i], k) =>
            \/ MarkedIn(wal, Len(wal), wal[i].txn)
            \/ \E j \in Replayed(wal, Len(wal), k) : i < j
            \/ wal[i].txn < nextTxn /\ (wal[i].txn \in active => k \in written[wal[i].txn])

WholeLogIsSound == \A k \in Keys : OnlyBatch(k) /\ ~ Pending(k) => Sound(Len(wal), k)

\* Whatever part of the log a crash keeps.
EveryCutIsSound ==
    \A k \in Keys : causes[k] = {} =>
        \A n \in synced .. Len(wal) : n < Len(wal) \/ ~ Pending(k) => Sound(n, k)

DInv ==
    /\ DurabilityType
    /\ WritesHaveDeltas
    /\ CommitIsLogged
    /\ UnmarkedIsHarmless
    /\ WholeLogIsSound
    /\ EveryCutIsSound

-----------------------------------------------------------------------------
(* The records of a commit.                                                *)

\* A function on 1 .. c is a sequence.
LEMMA FunctionIsSeq ==
    ASSUME NEW S, NEW c \in Nat, NEW f \in [1 .. c -> S]
    PROVE  f \in Seq(S) /\ Len(f) = c /\ DOMAIN f = 1 .. c
OBVIOUS

\* SetToSeq lists a finite set, each element once.
LEMMA SetToSeqLists ==
    ASSUME NEW S, IsFiniteSet(S)
    PROVE  \E c \in Nat : /\ SetToSeq(S) \in [1 .. c -> S]
                          /\ \A i, j \in 1 .. c : SetToSeq(S)[i] = SetToSeq(S)[j] => i = j
                          /\ \A x \in S : \E i \in 1 .. c : SetToSeq(S)[i] = x
<1> DEFINE c == Cardinality(S)
           f == SetToSeq(S)
<1>1. c \in Nat /\ ExistsBijection(1 .. c, S)
    BY FS_CardinalityType
<1>2. PICK g : g \in Bijection(1 .. c, S)
    BY <1>1 DEF ExistsBijection
<1>3. g \in [1 .. c -> S] /\ IsInjective(g)
    BY <1>2 DEF Bijection, Injection
<1>4. f \in [1 .. c -> S] /\ IsInjective(f)
    BY <1>3 DEF SetToSeq
<1>5. f \in Injection(1 .. c, S)
    BY <1>4 DEF Injection
<1>6. IsFiniteSet(1 .. c) /\ Cardinality(1 .. c) = c
    BY <1>1, FS_Interval
<1> HIDE DEF f
<1>7. f \in Surjection(1 .. c, S)
    BY <1>5, <1>6, FS_Injection
<1>8. \A x \in S : \E i \in 1 .. c : f[i] = x
    BY <1>7 DEF Surjection
<1>9. \A i, j \in 1 .. c : f[i] = f[j] => i = j
    BY <1>4 DEF IsInjective
<1> QED
    BY <1>1, <1>4, <1>8, <1>9 DEF f

\* There are finitely many records.
LEMMA KeysAreFinite == IsFiniteSet(Nodes) /\ IsFiniteSet(Edges) /\ IsFiniteSet(Keys)
<1>1. IsFiniteSet(Nodes) /\ IsFiniteSet(Edges)
    BY BoundsAssumption, FS_Interval DEF Nodes, Edges
<1> QED
    BY <1>1, FS_Union DEF Keys

\* A redo for each record the transaction wrote, then the marker.
LEMMA CommitRecordsShape ==
    ASSUME TypeInv, IInv, WritesHaveDeltas, NEW t \in active
    PROVE  \E c \in Nat : \E f \in [1 .. c -> written[t]] :
               /\ CommitRecords(t) \in Seq(LogRecord) /\ Len(CommitRecords(t)) = c + 1
               /\ \A i \in 1 .. c : CommitRecords(t)[i] = Redo(f[i], OwnNewest(t, f[i]), t)
               /\ CommitRecords(t)[c + 1] = CommitMarker(t)
               /\ \A i, j \in 1 .. c : f[i] = f[j] => i = j
               /\ \A k \in written[t] : \E i \in 1 .. c : f[i] = k
<1>1. t \in TxnIds /\ written[t] \subseteq Keys
    BY DEF TypeInv, TypeOK
<1>2. {k \in written[t] : OfTxn(chain[k], t) # {}} = written[t]
    BY <1>1 DEF WritesHaveDeltas
<1>3. IsFiniteSet(Keys)
    BY KeysAreFinite
<1>4. IsFiniteSet(written[t])
    BY <1>1, <1>3, FS_Subset
<1> DEFINE f == SetToSeq(written[t])
<1>5. PICK c \in Nat : /\ f \in [1 .. c -> written[t]]
                       /\ \A i, j \in 1 .. c : f[i] = f[j] => i = j
                       /\ \A k \in written[t] : \E i \in 1 .. c : f[i] = k
    BY <1>4, SetToSeqLists
<1> HIDE DEF f
<1> DEFINE redos == [i \in DOMAIN f |-> Redo(f[i], OwnNewest(t, f[i]), t)]
<1>6. CommitRecords(t) = Append(redos, CommitMarker(t))
    BY <1>2 DEF CommitRecords, f
<1>7. ASSUME NEW k \in written[t] PROVE OwnNewest(t, k) \in Versions
    <2>1. k \in Keys /\ chain[k] \in SUBSET Delta /\ Bounded(chain[k])
        BY <1>1 DEF TypeInv, TypeOK, ChainsBounded
    <2>2. OfTxn(chain[k], t) \in SUBSET chain[k] /\ OfTxn(chain[k], t) # {}
        BY <1>1 DEF OfTxn, WritesHaveDeltas
    <2>3. OfTxn(chain[k], t) \in SUBSET Delta /\ Bounded(OfTxn(chain[k], t))
        BY <2>1, <2>2, BoundedSubset
    <2>4. Newest(OfTxn(chain[k], t)) \in Delta
        BY <2>2, <2>3, NewestIsGreatest
    <2> QED
        BY <2>4 DEF OwnNewest, Delta
<1>8. \A i \in 1 .. c : Redo(f[i], OwnNewest(t, f[i]), t) \in LogRecord
    BY <1>1, <1>5, <1>7 DEF Redo, LogRecord, WriteRecord
<1>9. redos \in [1 .. c -> LogRecord]
    BY <1>5, <1>8
<1>10. redos \in Seq(LogRecord) /\ Len(redos) = c
    BY <1>9, FunctionIsSeq
<1>11. \A i \in 1 .. c : redos[i] = Redo(f[i], OwnNewest(t, f[i]), t)
    BY <1>5
<1> HIDE DEF redos
<1>12. CommitMarker(t) \in LogRecord
    BY <1>1 DEF CommitMarker, LogRecord
<1>13. /\ Append(redos, CommitMarker(t)) \in Seq(LogRecord)
       /\ Len(Append(redos, CommitMarker(t))) = c + 1
       /\ \A i \in 1 .. c : Append(redos, CommitMarker(t))[i] = redos[i]
       /\ Append(redos, CommitMarker(t))[c + 1] = CommitMarker(t)
    BY <1>10, <1>12, AppendProperties
<1> QED
    BY <1>5, <1>6, <1>11, <1>13

\* A log with more records at its end.
LEMMA LongerLog ==
    ASSUME NEW log \in Seq(LogRecord), NEW ext \in Seq(LogRecord)
    PROVE  /\ log \o ext \in Seq(LogRecord)
           /\ Len(log \o ext) = Len(log) + Len(ext)
           /\ Len(log) \in Nat /\ Len(ext) \in Nat
           /\ \A i \in 1 .. Len(log) : (log \o ext)[i] = log[i]
           /\ \A i \in (Len(log) + 1) .. (Len(log) + Len(ext)) :
                  i - Len(log) \in 1 .. Len(ext) /\ (log \o ext)[i] = ext[i - Len(log)]
           /\ \A i \in 1 .. Len(ext) : (log \o ext)[Len(log) + i] = ext[i]
<1>1. Len(log) \in Nat /\ Len(ext) \in Nat
    BY LenProperties
<1>2. /\ log \o ext \in Seq(LogRecord)
      /\ Len(log \o ext) = Len(log) + Len(ext)
      /\ \A i \in 1 .. Len(log) + Len(ext) : (log \o ext)[i] =
             IF i <= Len(log) THEN log[i] ELSE ext[i - Len(log)]
    BY ConcatProperties
<1> HIDE DEF LogRecord
<1>3. \A i \in 1 .. Len(log) : (log \o ext)[i] = log[i]
    BY <1>1, <1>2
<1>4. ASSUME NEW i \in (Len(log) + 1) .. (Len(log) + Len(ext))
      PROVE  i - Len(log) \in 1 .. Len(ext) /\ (log \o ext)[i] = ext[i - Len(log)]
    BY <1>1, <1>2
<1>5. ASSUME NEW i \in 1 .. Len(ext) PROVE (log \o ext)[Len(log) + i] = ext[i]
    BY <1>1, <1>2
<1> QED
    BY <1>1, <1>2, <1>3, <1>4, <1>5

-----------------------------------------------------------------------------
(* The engine under the log.                                               *)

\* Every step but a crash is, for the engine, one of its own or none.
LEMMA EngineSteps ==
    NextDurability => [Next]_vars \/ \E kept \in synced .. Len(wal) : CrashAndReopen(kept)
<1> SUFFICES ASSUME NextDurability
             PROVE  [Next]_vars \/ \E kept \in synced .. Len(wal) : CrashAndReopen(kept)
    OBVIOUS
<1>1. CASE MemoryStep
    BY <1>1 DEF MemoryStep, Next, LocalStep
<1>2. ASSUME NEW t \in active, LogCommit(t) \/ FailAppend(t) \/ Rollback(t) PROVE [Next]_vars
    BY <1>2 DEF LogCommit, FailAppend, Rollback, Next, LocalStep
<1>3. CASE FinishCommit
    BY <1>3 DEF FinishCommit, CommitTxn, Next
<1>4. CASE FailSync
    BY <1>4 DEF FailSync, CommitTxnFails, Next, LocalStep
<1>5. CASE BeginBatch \/ EndBatch \/ Flush \/ Evict(Nodes) \/ Evict(Edges)
    BY <1>5 DEF BeginBatch, EndBatch, Flush, Evict
<1> QED
    BY <1>1, <1>2, <1>3, <1>4, <1>5 DEF NextDurability

\* What the replay of any part of the log makes of a slot is a version.
LEMMA ReplayType ==
    ASSUME DurabilityType, NEW n \in 0 .. Len(wal)
    PROVE  ReplayRecords(SubSeq(wal, 1, n)) \in [Keys -> Versions]
<1> DEFINE cut == SubSeq(wal, 1, n)
<1>1. wal \in Seq(LogRecord) /\ Len(wal) \in Nat
    BY LenProperties DEF DurabilityType
<1>2. \A i \in 1 .. n : wal[i] \in LogRecord
    BY <1>1, ElementOfSeq
<1>3. cut \in Seq(LogRecord) /\ Len(cut) = (IF 1 <= n THEN n - 1 + 1 ELSE 0)
    BY <1>1, <1>2, SubSeqProperties
<1>4. Len(cut) \in Nat /\ DOMAIN cut = 1 .. Len(cut)
    BY <1>3, LenProperties
<1> HIDE DEF cut
<1>5. ASSUME NEW k \in Keys
      PROVE  LET own == {i \in DurableRecords(cut) : cut[i].key = k}
             IN  (IF own = {} THEN disk[k] ELSE cut[Max(own)].val) \in Versions
    <2> DEFINE own == {i \in DurableRecords(cut) : cut[i].key = k}
    <2>1. own \in SUBSET Nat /\ \A i \in own : i \in 1 .. Len(cut) /\ cut[i].kind = "Write"
        BY <1>4 DEF DurableRecords
    <2>2. \A i \in own : cut[i] \in LogRecord /\ i <= Len(cut)
        BY <1>3, <1>4, <2>1, ElementOfSeq
    <2>3. \A i \in own : cut[i].val \in Versions
        BY <2>1, <2>2 DEF LogRecord, WriteRecord
    <2> HIDE DEF own
    <2>4. own # {} => Max(own) \in own
        BY <1>4, <2>1, <2>2, MaxIsGreatest
    <2>5. disk[k] \in Versions
        BY DEF DurabilityType
    <2> QED
        BY <2>3, <2>4, <2>5 DEF own
<1> QED
    BY <1>5 DEF ReplayRecords, cut

\* The ids a reopened store hands out are past every live record.
LEMMA NextIdBounds ==
    ASSUME NEW lo \in Nat, NEW hi \in Nat, NEW stored \in lo .. hi, NEW live \in SUBSET Nat,
           \A k \in live : lo <= k + 1 /\ k + 1 <= hi
    PROVE  NextId(stored, live) \in lo .. hi /\ \A k \in live : k < NextId(stored, live)
<1> DEFINE T == {stored} \cup {k + 1 : k \in live}
<1>1. \A x \in T : x \in Nat /\ lo <= x /\ x <= hi
    OBVIOUS
<1>2. T \in SUBSET Nat /\ T # {}
    BY <1>1
<1>3. \A k \in live : k + 1 \in T
    OBVIOUS
<1>4. NextId(stored, live) = Max(T)
    BY DEF NextId
<1> HIDE DEF T
<1>5. Max(T) \in T /\ \A x \in T : x <= Max(T)
    BY <1>1, <1>2, MaxIsGreatest
<1> QED
    BY <1>1, <1>3, <1>4, <1>5

\* A reopened store has an engine just started over the recovered pages.
LEMMA CrashEngine ==
    ASSUME DurabilityType, NEW kept \in synced .. Len(wal), CrashAndReopen(kept)
    PROVE  TypeInv' /\ IInv'
<1>1. kept \in 0 .. Len(wal)
    BY LenProperties DEF DurabilityType
<1>2. page' \in [Keys -> Versions]
    BY <1>1, ReplayType DEF CrashAndReopen
<1>3. exists' = {k \in Keys : page'[k] # Absent}
    BY DEF CrashAndReopen
<1>4. /\ clock' = 1 /\ nextTxn' = 1 /\ active' = {}
      /\ startTs' = [t \in TxnIds |-> 0] /\ used' = [t \in TxnIds |-> 0]
      /\ written' = [t \in TxnIds |-> {}] /\ pending' = [t \in TxnIds |-> {}]
      /\ chain' = [k \in Keys |-> {}]
    BY DEF CrashAndReopen
<1>5. /\ diskIds[1] \in 1 .. (MaxNode + 1)
      /\ diskIds[2] \in (MaxNode + 1) .. (MaxNode + MaxEdge + 1)
    BY DEF DurabilityType
<1>6. nextNode' \in 1 .. (MaxNode + 1) /\ \A k \in exists' \cap Nodes : k < nextNode'
    <2>1. nextNode' = NextId(diskIds[1], exists' \cap Nodes)
        BY DEF CrashAndReopen
    <2>2. \A k \in exists' \cap Nodes : k \in Nat /\ 1 <= k + 1 /\ k + 1 <= MaxNode + 1
        BY BoundsAssumption DEF Nodes
    <2>3. exists' \cap Nodes \in SUBSET Nat /\ 1 \in Nat /\ MaxNode + 1 \in Nat
        BY <2>2, BoundsAssumption
    <2> QED
        BY <1>5, <2>1, <2>2, <2>3, NextIdBounds
<1>7. nextEdge' \in (MaxNode + 1) .. (MaxNode + MaxEdge + 1) /\ \A k \in exists' \cap Edges : k < nextEdge'
    <2>1. nextEdge' = NextId(diskIds[2], exists' \cap Edges)
        BY DEF CrashAndReopen
    <2>2. \A k \in exists' \cap Edges :
              k \in Nat /\ MaxNode + 1 <= k + 1 /\ k + 1 <= MaxNode + MaxEdge + 1
        BY BoundsAssumption DEF Edges
    <2>3. exists' \cap Edges \in SUBSET Nat /\ MaxNode + 1 \in Nat /\ MaxNode + MaxEdge + 1 \in Nat
        BY <2>2, BoundsAssumption
    <2> QED
        BY <1>5, <2>1, <2>2, <2>3, NextIdBounds
<1>8. TypeOK'
    BY <1>2, <1>3, <1>4, <1>6, <1>7, BoundsAssumption DEF TypeOK, TxnIds
<1>9. \A k \in Keys : chain'[k] = {}
    BY <1>4
<1>10. ChainsBounded'
    BY <1>9 DEF ChainsBounded, Bounded
<1>11. /\ NoOrphanDelta' /\ CommittedAreSettled' /\ LiveAreBegun' /\ PushOrderIsTotal'
       /\ CommitIsAtomic' /\ WritesAreRooted'
    BY <1>4, <1>9 DEF NoOrphanDelta, CommittedAreSettled, LiveAreBegun, PushOrderIsTotal, CommitIsAtomic,
                      WritesAreRooted
<1>12. ExistenceCovers'
    BY <1>3, <1>9 DEF ExistenceCovers
<1>13. FreshIds'
    <2>1. \A k \in exists' : (k \in Nodes => k \in Nat) /\ (k \in Edges => k \in Nat)
        BY BoundsAssumption DEF Nodes, Edges
    <2>2. nextNode' \in Nat /\ nextEdge' \in Nat
        BY <1>6, <1>7, BoundsAssumption
    <2> QED
        BY <1>6, <1>7, <1>9, <2>1, <2>2 DEF FreshIds
<1> QED
    BY <1>8, <1>10, <1>11, <1>12, <1>13 DEF TypeInv, IInv

\* The engine's invariant survives every step, crashes included.
LEMMA EngineInvariantKept ==
    ASSUME DurabilityType, TypeInv, IInv, [NextDurability]_durVars
    PROVE  TypeInv' /\ IInv'
<1>1. CASE \E kept \in synced .. Len(wal) : CrashAndReopen(kept)
    BY <1>1, CrashEngine
<1>2. CASE [Next]_vars
    BY <1>2, TypeStep, IInvStep
<1>3. CASE UNCHANGED durVars
    <2>1. UNCHANGED vars
        BY <1>3 DEF durVars
    <2> QED
        BY <2>1, TypeStep, IInvStep
<1> QED
    BY <1>1, <1>2, <1>3, EngineSteps

\* A live transaction keeps its writes and its deltas until it ends.
LEMMA WritesKept ==
    ASSUME TypeInv, IInv, WritesHaveDeltas, [Next]_vars
    PROVE  /\ WritesHaveDeltas'
           /\ nextTxn <= nextTxn'
           /\ \A u \in active' : u < nextTxn => u \in active /\ written[u] \subseteq written'[u]
<1>0. StepShape
    BY NextShape
<1>a. /\ nextTxn \in Nat /\ active \subseteq TxnIds /\ written \in [TxnIds -> SUBSET Keys]
      /\ chain \in [Keys -> SUBSET Delta]
    BY BoundsAssumption DEF TypeInv, TypeOK
<1>b. ASSUME active' \subseteq active, nextTxn' = nextTxn,
             \A u \in TxnIds : u \in active' => written[u] \subseteq written'[u],
             \A u \in TxnIds : \A k \in written'[u] : u \in active' /\ OfTxn(chain'[k], u) # {}
      PROVE  /\ WritesHaveDeltas'
             /\ nextTxn <= nextTxn'
             /\ \A u \in active' : u < nextTxn => u \in active /\ written[u] \subseteq written'[u]
    BY <1>a, <1>b DEF WritesHaveDeltas
<1>c. ASSUME NEW t \in active, EndTxn(t), nextTxn' = nextTxn,
             \A k \in Keys, u \in TxnIds : u # t => OfTxn(chain'[k], u) = OfTxn(chain[k], u)
      PROVE  /\ WritesHaveDeltas'
             /\ nextTxn <= nextTxn'
             /\ \A u \in active' : u < nextTxn => u \in active /\ written[u] \subseteq written'[u]
    <2>1. /\ active' = active \ {t}
          /\ \A u \in TxnIds : written'[u] = IF u = t THEN {} ELSE written[u]
        BY <1>a, <1>c DEF EndTxn
    <2>2. \A u \in TxnIds : \A k \in written'[u] : u \in active' /\ OfTxn(chain'[k], u) # {}
        BY <1>a, <1>c, <2>1 DEF WritesHaveDeltas
    <2> QED
        BY <1>b, <1>c, <2>1, <2>2
<1>1. CASE BeginTxn
    <2>1. /\ nextTxn' = nextTxn + 1 /\ active \subseteq active' /\ active' \subseteq active \cup {nextTxn}
          /\ written' = written /\ chain' = chain
        BY <1>1 DEF BeginTxn
    <2>2. \A u \in active' : u < nextTxn => u \in active
        BY <1>a, <2>1
    <2> QED
        BY <1>a, <2>1, <2>2 DEF WritesHaveDeltas
<1>2. ASSUME NEW t \in active, CommitTxn(t)
      PROVE  /\ WritesHaveDeltas'
             /\ nextTxn <= nextTxn'
             /\ \A u \in active' : u < nextTxn => u \in active /\ written[u] \subseteq written'[u]
    <2>1. \A k \in Keys, u \in TxnIds : u # t => OfTxn(chain'[k], u) = OfTxn(chain[k], u)
        BY <1>2, CommittedChain
    <2>2. EndTxn(t) /\ nextTxn' = nextTxn
        BY <1>2 DEF CommitTxn
    <2> QED
        BY <1>c, <2>1, <2>2
<1>3. ASSUME NEW t \in active, UndoStep(t)
      PROVE  /\ WritesHaveDeltas'
             /\ nextTxn <= nextTxn'
             /\ \A u \in active' : u < nextTxn => u \in active /\ written[u] \subseteq written'[u]
    <2>1. EndTxn(t) /\ nextTxn' = nextTxn
        BY <1>3 DEF UndoStep, Undo
    <2>2. \A k \in Keys : chain'[k] = RemoveTxn(chain[k], t) \/ chain'[k] = chain[k]
        BY <1>3 DEF UndoStep, Undo
    <2>3. \A k \in Keys, u \in TxnIds : u # t => OfTxn(chain'[k], u) = OfTxn(chain[k], u)
        BY <2>2 DEF RemoveTxn, OfTxn
    <2> QED
        BY <1>c, <2>1, <2>3
<1>4. ASSUME NEW t \in active, NEW k \in Keys, NEW op \in Ops, NEW prior \in Versions,
             NEW new \in Versions, PushStep(t, k, op, prior, new)
      PROVE  /\ WritesHaveDeltas'
             /\ nextTxn <= nextTxn'
             /\ \A u \in active' : u < nextTxn => u \in active /\ written[u] \subseteq written'[u]
    <2>1. PICK x \in Delta : /\ x.txn = t
                             /\ chain'[k] = chain[k] \cup {x}
                             /\ \A l \in Keys : l # k => chain'[l] = chain[l]
        BY <1>4, PushedChain
    <2>2. /\ nextTxn' = nextTxn /\ active' = active
          /\ written' = [written EXCEPT ![t] = @ \cup {k}]
        BY <1>4 DEF PushStep, PushTxnDelta
    <2>3. \A u \in TxnIds : written'[u] = IF u = t THEN written[u] \cup {k} ELSE written[u]
        BY <1>a, <2>2
    <2>4. \A l \in Keys, u \in TxnIds : OfTxn(chain[l], u) \subseteq OfTxn(chain'[l], u)
        BY <2>1 DEF OfTxn
    <2>5. OfTxn(chain'[k], t) # {}
        BY <2>1 DEF OfTxn
    <2>6. \A u \in TxnIds : \A l \in written'[u] : u \in active' /\ OfTxn(chain'[l], u) # {}
        BY <1>a, <2>2, <2>3, <2>4, <2>5 DEF WritesHaveDeltas
    <2> QED
        BY <1>b, <2>2, <2>3, <2>6
<1>5. CASE VacuumOnce
    <2>1. /\ nextTxn' = nextTxn /\ active' = active /\ written' = written
          /\ \A k \in Keys : chain'[k] = IF k \in Drainable THEN {} ELSE chain[k]
        BY <1>5 DEF VacuumOnce, registryVars
    <2>2. \A u \in active : \A k \in Keys : OfTxn(chain[k], u) # {} => k \notin Drainable
        BY DEF OfTxn, Drainable, AllSafeToVacuum, SafeToVacuum, IInv, CommittedAreSettled
    <2>3. \A u \in TxnIds : \A l \in written'[u] : u \in active' /\ OfTxn(chain'[l], u) # {}
        BY <1>a, <2>1, <2>2 DEF WritesHaveDeltas
    <2> QED
        BY <1>b, <2>1, <2>3
<1>6. ASSUME UNCHANGED <<nextTxn, active, written, chain>>
      PROVE  /\ WritesHaveDeltas'
             /\ nextTxn <= nextTxn'
             /\ \A u \in active' : u < nextTxn => u \in active /\ written[u] \subseteq written'[u]
    BY <1>a, <1>6 DEF WritesHaveDeltas
<1>7. ASSUME NEW t \in active, CommitTxnFails(t) PROVE UNCHANGED <<nextTxn, active, written, chain>>
    BY <1>7 DEF CommitTxnFails, registryVars
<1>8. CASE UNCHANGED vars
    BY <1>6, <1>8 DEF vars, registryVars
<1> QED
    BY <1>0, <1>1, <1>2, <1>3, <1>4, <1>5, <1>6, <1>7, <1>8 DEF StepShape

-----------------------------------------------------------------------------
(* Steps that append nothing to the log.                                   *)

\* Writing back the page, or materialising the version readers see, does not
\* change what a log recovers.
LEMMA RecoversFrame ==
    ASSUME NEW log, NEW n, NEW k, NEW v, NEW stored, NEW pooled,
           NEW stored2 \in {stored, pooled}, NEW pooled2 \in {pooled, v},
           Recovers(log, n, k, v, stored, pooled)
    PROVE  Recovers(log, n, k, v, stored2, pooled2)
BY DEF Recovers

\* Begins, writes, rollbacks and vacuums change nothing an auto-commit reader
\* sees, and put nothing else into a page.
LEMMA QuietEngine ==
    ASSUME TypeInv, TypeInv', IInv, IInv', NEW k \in Keys,
           \/ BeginTxn \/ WriteInTxn \/ VacuumOnce
           \/ \E t \in active : RollbackTxn(t)
           \/ UNCHANGED vars
    PROVE  ReadAutoCommit(k)' = ReadAutoCommit(k) /\ page'[k] \in {page[k], ReadAutoCommit(k)}
<1>1. [Next]_vars
    BY DEF Next, LocalStep
<1>2. clock' = clock \/ active \subseteq active'
    BY DEF BeginTxn, VacuumOnce, RollbackTxn, vars, WriteInTxn, AddNodeInTxn, AddEdgeInTxn,
           UpdateNodeInTxn, UpdateEdgeInTxn, RemoveNodeInTxn, RemoveEdgeInTxn
<1>3. ReadAutoCommit(k)' = ReadAutoCommit(k)
    BY <1>1, <1>2, PublishStep
<1>4. ASSUME VacuumOnce, k \in Drainable PROVE page'[k] = ReadAutoCommit(k)
    <2>1. chain[k] # {} /\ \A d \in chain[k] : d.cts # Uncommitted
        BY <1>4 DEF Drainable, AllSafeToVacuum, SafeToVacuum
    <2>2. Committed(k) = chain[k]
        BY <2>1 DEF Committed
    <2>3. ReadAutoCommit(k) = Newest(chain[k]).new
        BY <2>1, <2>2, AutoCommitSees DEF AutoCommitView
    <2> QED
        BY <1>4, <2>3 DEF VacuumOnce
<1>5. ASSUME VacuumOnce, k \notin Drainable PROVE page'[k] = page[k]
    BY <1>5 DEF VacuumOnce
<1>6. VacuumOnce \/ page' = page
    BY DEF BeginTxn, RollbackTxn, vars, WriteInTxn, AddNodeInTxn, AddEdgeInTxn,
           UpdateNodeInTxn, UpdateEdgeInTxn, RemoveNodeInTxn, RemoveEdgeInTxn
<1> QED
    BY <1>3, <1>4, <1>5, <1>6

\* Such a step keeps the invariant: at most it syncs the log, settles what a
\* batch put off, writes pages back or materialises them.
LEMMA QuietStep ==
    ASSUME TypeInv, TypeInv', IInv, DInv, DurabilityType', [Next]_vars,
           committing' = NoTxn, wal' = wal,
           synced' \in {synced, Len(wal)},
           \A k \in Keys : OnlyBatch(k)' =>
               /\ ~ Pending(k)
               /\ \/ causes'[k] = causes[k]
                  \/ causes'[k] = Settled(causes[k]) /\ synced' = Len(wal),
           \A k \in Keys : /\ ReadAutoCommit(k)' = ReadAutoCommit(k)
                           /\ page'[k] \in {page[k], ReadAutoCommit(k)}
                           /\ disk'[k] \in {disk[k], page[k]}
    PROVE  DInv'
<1>0. /\ wal \in Seq(LogRecord) /\ Len(wal) \in Nat /\ synced \in 0 .. Len(wal)
      /\ WritesHaveDeltas
    BY LenProperties DEF DInv, DurabilityType
<1>1. /\ WritesHaveDeltas'
      /\ nextTxn <= nextTxn'
      /\ \A u \in active' : u < nextTxn => u \in active /\ written[u] \subseteq written'[u]
    BY <1>0, WritesKept
<1>2. CommitIsLogged'
    BY DEF CommitIsLogged, Pending
<1>3. \A k \in Keys : OnlyBatch(k)' => ~ Pending(k)
    OBVIOUS
<1>4. \A k \in Keys : OnlyBatch(k)' => OnlyBatch(k)
    BY DEF OnlyBatch, Settled
<1>5. ASSUME NEW k \in Keys, NEW n, Sound(n, k) PROVE Sound(n, k)'
    BY <1>5, RecoversFrame DEF Sound
<1>6. UnmarkedIsHarmless'
    <2> SUFFICES ASSUME NEW k \in Keys, OnlyBatch(k), NEW i \in 1 .. Len(wal), IsWriteOf(wal[i], k)
                 PROVE  \/ MarkedIn(wal, Len(wal), wal[i].txn)
                        \/ \E j \in Replayed(wal, Len(wal), k) : i < j
                        \/ wal[i].txn < nextTxn' /\ (wal[i].txn \in active' => k \in written'[wal[i].txn])
        BY <1>4 DEF UnmarkedIsHarmless
    <2>1. \/ MarkedIn(wal, Len(wal), wal[i].txn)
          \/ \E j \in Replayed(wal, Len(wal), k) : i < j
          \/ wal[i].txn < nextTxn /\ (wal[i].txn \in active => k \in written[wal[i].txn])
        BY DEF DInv, UnmarkedIsHarmless
    <2>2. wal[i] \in LogRecord
        BY <1>0, ElementOfSeq
    <2>3. wal[i].txn \in Nat
        BY <2>2, BoundsAssumption DEF LogRecord, WriteRecord, TxnIds, NoTxn
    <2>4. nextTxn \in Nat /\ nextTxn' \in Nat
        BY BoundsAssumption DEF TypeInv, TypeOK
    <2> QED
        BY <1>1, <2>1, <2>3, <2>4
<1>7. WholeLogIsSound'
    BY <1>3, <1>4, <1>5 DEF WholeLogIsSound, DInv
<1>8. EveryCutIsSound'
    <2> SUFFICES ASSUME NEW k \in Keys, causes'[k] = {}, NEW n \in synced' .. Len(wal)
                 PROVE  Sound(n, k)
        BY <1>5 DEF EveryCutIsSound
    <2>0. OnlyBatch(k)'
        BY DEF OnlyBatch
    <2>1. CASE causes[k] = {}
        <3>1. n \in synced .. Len(wal)
            BY <1>0
        <3> QED
            BY <1>3, <2>0, <2>1, <3>1 DEF DInv, EveryCutIsSound
    <2>2. CASE causes'[k] = Settled(causes[k]) /\ synced' = Len(wal)
        <3>1. OnlyBatch(k) /\ n = Len(wal)
            BY <1>0, <2>2 DEF OnlyBatch, Settled
        <3> QED
            BY <1>3, <2>0, <3>1 DEF DInv, WholeLogIsSound
    <2> QED
        BY <2>0, <2>1, <2>2
<1> QED
    BY <1>1, <1>2, <1>6, <1>7, <1>8 DEF DInv

-----------------------------------------------------------------------------
(* Appends: a commit's records, whole or cut short, and the linking of new *)
(* edges.                                                                  *)

\* Appending keeps what is marked and what is replayed.
LEMMA AppendKeeps ==
    ASSUME NEW log, NEW more, NEW m \in Nat, NEW n \in Nat, m <= n,
           \A i \in 1 .. m : more[i] = log[i], NEW k
    PROVE  /\ \A u : MarkedIn(log, m, u) => MarkedIn(more, n, u)
           /\ Replayed(log, m, k) \subseteq Replayed(more, n, k)
<1>1. \A u : MarkedIn(log, m, u) => MarkedIn(more, n, u)
    BY DEF MarkedIn
<1> QED
    BY <1>1 DEF Replayed

\* The first i of t's commit records: redos of records it wrote, then the marker.
RecordsOf(ext, t, c, f) ==
    \A i \in 1 .. Len(ext) :
        /\ ext[i].txn = t
        /\ i <= c => ext[i].kind = "Write" /\ ext[i].key = f[i] /\ ext[i].val = OwnNewest(t, f[i])
        /\ i > c => ext[i].kind = "Commit"

\* They do not change what is recovered of a record of an earlier commit, unless
\* the marker is among them and t wrote the record.
LEMMA RecordsAreNeutral ==
    ASSUME TypeInv, IInv, DInv, NEW t \in active, NEW c \in Nat, NEW f \in [1 .. c -> written[t]],
           NEW ext \in Seq(LogRecord), Len(ext) <= c + 1, RecordsOf(ext, t, c, f),
           NEW k \in Keys, OnlyBatch(k), ~ (t \in CommittedTxnIds(wal) /\ k \in written[t]),
           NEW n \in Len(wal) .. (Len(wal) + Len(ext)), n < Len(wal) + c + 1 \/ k \notin written[t],
           Sound(Len(wal), k)
    PROVE  Recovers(wal \o ext, n, k, ReadAutoCommit(k), disk[k], page[k])
<1> DEFINE m == Len(wal)
           more == wal \o ext
<1>0. wal \in Seq(LogRecord) /\ m \in Nat /\ DOMAIN wal = 1 .. m /\ Len(ext) \in Nat
    BY LenProperties DEF DInv, DurabilityType
<1>1. /\ \A i \in 1 .. m : more[i] = wal[i]
      /\ \A i \in (m + 1) .. (m + Len(ext)) : i - m \in 1 .. Len(ext) /\ more[i] = ext[i - m]
    BY <1>0, LongerLog
<1>2. n \in Nat /\ m <= n
    BY <1>0
<1>3. t \in TxnIds /\ t # NoTxn /\ t < nextTxn
    BY BoundsAssumption DEF TypeInv, TypeOK, TxnIds, NoTxn, IInv, LiveAreBegun
<1> HIDE DEF more
<1>4. ASSUME NEW i \in (m + 1) .. n
      PROVE  /\ i - m \in 1 .. Len(ext) /\ more[i] = ext[i - m]
             /\ more[i].txn = t
             /\ i - m <= c => more[i].kind = "Write" /\ more[i].key = f[i - m]
             /\ i - m > c => more[i].kind = "Commit"
    <2>1. i \in (m + 1) .. (m + Len(ext))
        BY <1>0
    <2>2. i - m \in 1 .. Len(ext) /\ more[i] = ext[i - m]
        BY <1>1, <2>1
    <2> QED
        BY <2>2 DEF RecordsOf
<1>5. ASSUME NEW i \in (m + 1) .. n, more[i].kind = "Commit"
      PROVE  more[i].txn = t /\ k \notin written[t]
    <2>1. i - m > c
        BY <1>0, <1>4, <1>5
    <2>2. n >= m + c + 1
        BY <1>0, <2>1
    <2> QED
        BY <1>0, <1>4, <2>1, <2>2
<1>6. ASSUME NEW u, MarkedIn(more, n, u), ~ MarkedIn(wal, m, u) PROVE u = t /\ k \notin written[t]
    <2>1. PICK i \in 1 .. n : more[i].kind = "Commit" /\ more[i].txn = u
        BY <1>6 DEF MarkedIn
    <2>2. i \in (m + 1) .. n
        BY <1>0, <1>1, <1>6, <2>1 DEF MarkedIn
    <2>3. more[i].txn = t /\ k \notin written[t]
        BY <1>5, <2>1, <2>2
    <2> QED
        BY <2>1, <2>3
<1>7. ASSUME NEW i \in (m + 1) .. n, IsWriteOf(more[i], k)
      PROVE  ~ MarkedIn(more, n, more[i].txn)
    <2>1. i - m <= c /\ i - m \in 1 .. c
        BY <1>0, <1>4, <1>7 DEF IsWriteOf
    <2>2. more[i].txn = t /\ k = f[i - m]
        BY <1>4, <1>7, <2>1 DEF IsWriteOf
    <2>3. k \in written[t]
        BY <2>1, <2>2
    <2>4. ~ MarkedIn(wal, m, t)
        BY <1>0, <1>3, <2>3 DEF MarkedIn, CommittedTxnIds, Range
    <2> QED
        BY <1>6, <2>2, <2>3, <2>4
<1>8. ASSUME NEW i \in 1 .. m, IsWriteOf(wal[i], k)
      PROVE  \/ MarkedIn(wal, m, wal[i].txn)
             \/ ~ MarkedIn(more, n, wal[i].txn)
             \/ \E j \in Replayed(wal, m, k) : i < j
    <2>1. \/ MarkedIn(wal, m, wal[i].txn)
          \/ \E j \in Replayed(wal, m, k) : i < j
          \/ wal[i].txn < nextTxn /\ (wal[i].txn \in active => k \in written[wal[i].txn])
        BY <1>8 DEF DInv, UnmarkedIsHarmless
    <2> QED
        BY <1>6, <2>1
<1>9. Recovers(wal, m, k, ReadAutoCommit(k), disk[k], page[k])
    BY DEF Sound
<1>10. Recovers(more, n, k, ReadAutoCommit(k), disk[k], page[k])
    BY <1>0, <1>1, <1>2, <1>7, <1>8, <1>9, NothingAdded
<1> QED
    BY <1>10 DEF more

\* Appending a transaction's commit records keeps the invariant: with the marker
\* its commit is under way, without it the records are never replayed.
LEMMA AppendStep ==
    ASSUME TypeInv, IInv, DInv, NEW t \in active, NEW c \in Nat, NEW f \in [1 .. c -> written[t]],
           \A i, j \in 1 .. c : f[i] = f[j] => i = j,
           \A k \in written[t] : \E i \in 1 .. c : f[i] = k,
           NEW ext \in Seq(LogRecord), RecordsOf(ext, t, c, f),
           \/ committing' = t /\ Len(ext) = c + 1
           \/ committing' = NoTxn /\ Len(ext) <= c,
           committing = NoTxn, wal' = wal \o ext,
           \A k \in Keys : causes'[k] = causes[k] \cup ReuseCause(t, k),
           \A k \in Keys : ReadAutoCommit(k)' = ReadAutoCommit(k),
           budget' \in Budget,
           UNCHANGED <<synced, disk, diskIds, batchOpen, page, chain, active, written, nextTxn>>
    PROVE  DInv'
<1> DEFINE m == Len(wal)
           l == Len(ext)
<1>0. /\ wal \in Seq(LogRecord) /\ m \in Nat /\ DOMAIN wal = 1 .. m /\ l \in Nat /\ l <= c + 1
      /\ synced \in 0 .. m /\ disk \in [Keys -> Versions] /\ batchOpen \in BOOLEAN
      /\ m = Len(wal) /\ l = Len(ext)
    BY LenProperties DEF DInv, DurabilityType
<1>1. /\ wal' \in Seq(LogRecord) /\ Len(wal') = m + l
      /\ \A i \in 1 .. m : wal'[i] = wal[i]
      /\ \A i \in (m + 1) .. (m + l) : i - m \in 1 .. l /\ wal'[i] = ext[i - m]
      /\ \A i \in 1 .. l : wal'[m + i] = ext[i]
    BY <1>0, LongerLog
<1> HIDE DEF m, l
<1>a. ASSUME NEW i \in (m + 1) .. (m + l), NEW k, IsWriteOf(wal'[i], k)
      PROVE  /\ i - m \in 1 .. c /\ f[i - m] = k /\ k \in written[t]
             /\ wal'[i].txn = t
    <2> DEFINE p == i - m
    <2>1. p \in 1 .. l /\ wal'[i] = ext[p]
        BY <1>1
    <2> HIDE DEF p
    <2>2. ext[p].kind = "Write" /\ ext[p].key = k
        BY <1>a, <2>1 DEF IsWriteOf
    <2>a. p \in 1 .. Len(ext) /\ p \in Int
        BY <1>0, <2>1
    <2>b. /\ ext[p].txn = t
          /\ p <= c => ext[p].key = f[p]
          /\ p > c => ext[p].kind = "Commit"
        BY <2>a DEF RecordsOf
    <2>3. p <= c /\ ext[p].key = f[p] /\ ext[p].txn = t
        BY <2>2, <2>a, <2>b
    <2>4. p \in 1 .. c
        BY <1>0, <2>1, <2>3
    <2> QED
        BY <2>1, <2>2, <2>3, <2>4 DEF p
<1>2. t \in TxnIds /\ t # NoTxn /\ t < nextTxn
    BY BoundsAssumption DEF TypeInv, TypeOK, TxnIds, NoTxn, IInv, LiveAreBegun
<1>3. \A k \in Keys : ~ Pending(k) /\ (Pending(k)' => l = c + 1 /\ k \in written[t])
    BY <1>0, <1>2 DEF Pending
<1>4. ASSUME NEW k \in Keys, OnlyBatch(k)'
      PROVE  OnlyBatch(k) /\ ~ (t \in CommittedTxnIds(wal) /\ k \in written[t]) /\ Sound(m, k)
    <2>1. OnlyBatch(k) /\ ReuseCause(t, k) \subseteq {"batch"}
        BY <1>4 DEF OnlyBatch
    <2>2. "reuse" \notin ReuseCause(t, k)
        BY <2>1
    <2>3. Sound(m, k)
        BY <1>0, <1>3, <2>1 DEF DInv, WholeLogIsSound
    <2> QED
        BY <2>1, <2>2, <2>3 DEF ReuseCause
<1>5. ASSUME NEW k \in Keys, OnlyBatch(k)', NEW n \in m .. (m + l), n < m + l \/ ~ Pending(k)'
      PROVE  Sound(n, k)'
    <2>1. n < m + c + 1 \/ k \notin written[t]
        BY <1>0, <1>2, <1>5 DEF Pending
    <2>2. Recovers(wal \o ext, n, k, ReadAutoCommit(k), disk[k], page[k])
        BY <1>0, <1>4, <1>5, <2>1, RecordsAreNeutral
    <2> QED
        BY <2>2 DEF Sound
<1>6. DurabilityType'
    BY <1>0, <1>1 DEF DurabilityType, DInv
<1>7. WritesHaveDeltas'
    BY DEF WritesHaveDeltas, DInv
<1>8. CommitIsLogged'
    <2> SUFFICES ASSUME NEW k \in Keys, Pending(k)'
                 PROVE  \E j \in Replayed(wal', Len(wal'), k) :
                            /\ wal'[j].val = OwnNewest(t, k)
                            /\ \A i \in 1 .. Len(wal') : IsWriteOf(wal'[i], k) => i <= j
        BY <1>2 DEF CommitIsLogged, Pending, OwnNewest
    <2>1. l = c + 1 /\ k \in written[t]
        BY <1>3
    <2>2. PICK p \in 1 .. c : f[p] = k
        BY <2>1
    <2>3. /\ wal'[m + p] = ext[p] /\ p \in 1 .. l /\ p <= c
          /\ ext[p].kind = "Write" /\ ext[p].key = k /\ ext[p].val = OwnNewest(t, k) /\ ext[p].txn = t
        <3>1. p \in 1 .. l /\ p <= c
            BY <2>1
        <3> QED
            BY <1>0, <1>1, <2>2, <3>1 DEF RecordsOf
    <2>4. wal'[m + l] = ext[l] /\ ext[l].kind = "Commit" /\ ext[l].txn = t
        <3>1. l \in 1 .. l /\ l > c
            BY <1>0, <2>1
        <3> QED
            BY <1>0, <1>1, <3>1 DEF RecordsOf
    <2>5. MarkedIn(wal', m + l, t)
        <3>1. m + l \in 1 .. (m + l)
            BY <1>0, <2>1
        <3> QED
            BY <2>4, <3>1 DEF MarkedIn
    <2>6. m + p \in 1 .. (m + l)
        BY <1>0, <2>3
    <2>7. m + p \in Replayed(wal', Len(wal'), k)
        BY <1>1, <2>3, <2>5, <2>6 DEF Replayed, IsWriteOf
    <2>8. ASSUME NEW i \in 1 .. Len(wal'), IsWriteOf(wal'[i], k) PROVE i <= m + p
        <3>1. CASE i <= m
            BY <1>0, <3>1
        <3>2. CASE i > m
            <4>1. i \in (m + 1) .. (m + l)
                BY <1>0, <1>1, <3>2
            <4>5. f[i - m] = k /\ i - m \in 1 .. c
                BY <1>a, <2>8, <4>1
            <4>6. i - m = p
                BY <2>2, <4>5
            <4> QED
                BY <1>0, <4>6
        <3> QED
            BY <1>0, <1>1, <3>1, <3>2
    <2> QED
        BY <2>3, <2>7, <2>8
<1>9. UnmarkedIsHarmless'
    <2> SUFFICES ASSUME NEW k \in Keys, OnlyBatch(k)', NEW i \in 1 .. Len(wal'), IsWriteOf(wal'[i], k)
                 PROVE  \/ MarkedIn(wal', Len(wal'), wal'[i].txn)
                        \/ \E j \in Replayed(wal', Len(wal'), k) : i < j
                        \/ wal'[i].txn < nextTxn' /\ (wal'[i].txn \in active' => k \in written'[wal'[i].txn])
        BY DEF UnmarkedIsHarmless
    <2>1. CASE i \in 1 .. m
        <3>1. \/ MarkedIn(wal, m, wal[i].txn)
              \/ \E j \in Replayed(wal, m, k) : i < j
              \/ wal[i].txn < nextTxn /\ (wal[i].txn \in active => k \in written[wal[i].txn])
            BY <1>0, <1>1, <1>4, <2>1 DEF DInv, UnmarkedIsHarmless
        <3>2. m + l \in Nat /\ m <= m + l
            BY <1>0
        <3>3. /\ \A u : MarkedIn(wal, m, u) => MarkedIn(wal', m + l, u)
              /\ Replayed(wal, m, k) \subseteq Replayed(wal', m + l, k)
            BY <1>0, <1>1, <3>2, AppendKeeps
        <3> QED
            BY <1>1, <2>1, <3>1, <3>3
    <2>2. CASE i \in (m + 1) .. (m + l)
        <3>1. wal'[i].txn = t /\ k \in written[t]
            BY <1>a, <2>2
        <3> QED
            BY <1>2, <3>1
    <2> QED
        BY <1>0, <1>1, <2>1, <2>2
<1>10. WholeLogIsSound'
    <2>1. m + l \in m .. (m + l)
        BY <1>0
    <2> QED
        BY <1>1, <1>5, <2>1 DEF WholeLogIsSound
<1>11. EveryCutIsSound'
    <2> SUFFICES ASSUME NEW k \in Keys, causes'[k] = {}, NEW n \in synced .. (m + l),
                        n < m + l \/ ~ Pending(k)'
                 PROVE  Sound(n, k)'
        BY <1>1 DEF EveryCutIsSound
    <2>1. OnlyBatch(k)' /\ causes[k] = {}
        BY DEF OnlyBatch
    <2>2. CASE n \in m .. (m + l)
        BY <1>5, <2>1, <2>2
    <2>3. CASE n \in synced .. m
        <3>1. Sound(n, k)
            BY <1>0, <1>3, <2>1, <2>3 DEF DInv, EveryCutIsSound
        <3>2. n \in Nat /\ \A i \in 1 .. n : wal'[i] = wal[i]
            BY <1>0, <1>1, <2>3
        <3>3. Recovers(wal, n, k, ReadAutoCommit(k), disk[k], page[k])
            BY <3>1 DEF Sound
        <3>4. Recovers(wal', n, k, ReadAutoCommit(k), disk[k], page[k])
            BY <3>2, <3>3, PrefixDecides
        <3> QED
            BY <3>4 DEF Sound
    <2> QED
        BY <1>0, <2>2, <2>3
<1> QED
    BY <1>6, <1>7, <1>8, <1>9, <1>10, <1>11 DEF DInv

\* Auto-commit redos, one per record, that write what is recovered anyway.
LEMMA RedosAreNeutral ==
    ASSUME NEW log \in Seq(LogRecord), NEW ext \in Seq(LogRecord),
           \A i, j \in 1 .. Len(ext) : ext[i].key = ext[j].key => i = j,
           \A i \in 1 .. Len(ext) : ext[i].kind = "Write" /\ ext[i].txn = NoTxn,
           NEW k, NEW v, NEW stored, NEW pooled,
           \A i \in 1 .. Len(ext) : ext[i].key = k => ext[i].val = v,
           NEW n \in Len(log) .. (Len(log) + Len(ext)),
           Recovers(log, Len(log), k, v, stored, pooled)
    PROVE  Recovers(log \o ext, n, k, v, stored, pooled)
<1> DEFINE m == Len(log)
           l == Len(ext)
           more == log \o ext
<1>0. m \in Nat /\ l \in Nat /\ n \in Nat /\ m <= n /\ n <= m + l /\ m = Len(log) /\ l = Len(ext)
    BY LenProperties
<1>1. /\ \A i \in 1 .. m : more[i] = log[i]
      /\ \A i \in (m + 1) .. (m + l) : i - m \in 1 .. l /\ more[i] = ext[i - m]
      /\ \A i \in 1 .. l : more[m + i] = ext[i]
    BY LongerLog
<1> HIDE DEF m, l, more
<1>2. ASSUME NEW i \in (m + 1) .. n
      PROVE  /\ i - m \in 1 .. l /\ more[i] = ext[i - m]
             /\ more[i].kind = "Write" /\ more[i].txn = NoTxn
    <2>1. i - m \in 1 .. l /\ more[i] = ext[i - m]
        BY <1>0, <1>1
    <2> QED
        BY <1>0, <2>1
<1>3. CASE \E i \in (m + 1) .. n : IsWriteOf(more[i], k)
    <2>1. PICK i \in (m + 1) .. n : IsWriteOf(more[i], k)
        BY <1>3
    <2>2. i - m \in 1 .. l /\ ext[i - m].key = k /\ more[i] = ext[i - m] /\ more[i].txn = NoTxn
        BY <1>0, <1>1, <1>2, <2>1 DEF IsWriteOf
    <2>3. more[i].val = v
        BY <1>0, <2>2
    <2>4. i \in Replayed(more, n, k)
        BY <1>0, <2>1, <2>2 DEF Replayed, MarkedIn
    <2>5. ASSUME NEW h \in 1 .. n, IsWriteOf(more[h], k) PROVE h <= i
        <3>1. CASE h <= m
            BY <1>0, <3>1
        <3>2. CASE h > m
            <4>1. h \in (m + 1) .. n
                BY <1>0, <3>2
            <4>2. h - m \in 1 .. l /\ ext[h - m].key = k
                BY <1>2, <2>5, <4>1 DEF IsWriteOf
            <4>3. h - m = i - m
                BY <1>0, <2>2, <4>2
            <4> QED
                BY <1>0, <4>3
        <3> QED
            BY <1>0, <3>1, <3>2
    <2>6. LastIs(more, n, k, more[i].val)
        BY <1>0, <2>4, <2>5, LastDecides
    <2> QED
        BY <2>3, <2>6 DEF Recovers, more
<1>4. CASE \A i \in (m + 1) .. n : ~ IsWriteOf(more[i], k)
    <2>1. ASSUME NEW u, MarkedIn(more, n, u) PROVE MarkedIn(log, m, u)
        <3>1. CASE u = NoTxn
            BY <3>1 DEF MarkedIn
        <3>2. CASE u # NoTxn
            <4>1. PICK i \in 1 .. n : more[i].kind = "Commit" /\ more[i].txn = u
                BY <2>1, <3>2 DEF MarkedIn
            <4>2. i \in 1 .. m
                BY <1>0, <1>2, <4>1
            <4> QED
                BY <1>1, <4>1, <4>2 DEF MarkedIn
        <3> QED
            BY <3>1, <3>2
    <2>2. Recovers(log, m, k, v, stored, pooled)
        BY <1>0
    <2>3. Recovers(more, n, k, v, stored, pooled)
        BY <1>0, <1>1, <1>4, <2>1, <2>2, NothingAdded
    <2> QED
        BY <2>3 DEF more
<1> QED
    BY <1>3, <1>4

\* What a commit puts into a page is what it makes visible.
LEMMA CommitPages ==
    ASSUME TypeInv, TypeInv', IInv, IInv', NEW t \in active, CommitTxn(t), NEW k \in Keys,
           k \notin written[t]
    PROVE  ReadAutoCommit(k)' = ReadAutoCommit(k) /\ page'[k] \in {page[k], ReadAutoCommit(k)}
<1>1. OfTxn(chain[k], t) = {}
    BY DEF OfTxn, IInv, NoOrphanDelta, CommittedAreSettled
<1>2. ReadAutoCommit(k)' = ReadAutoCommit(k)
    BY <1>1, CommitLeavesOthers
<1>3. /\ chain'[k] = StampedChain(t, k) /\ clock' = clock + 1
      /\ \/ page'[k] = page[k]
         \/ page[k] = Absent /\ page'[k] = ApplyDeltasForRead(Absent, StampedChain(t, k), clock + 1, NoTxn)
    BY DEF CommitTxn, MaterializedAtCommit
<1>4. ReadAutoCommit(k)' = ApplyDeltasForRead(CommittedBase(k)', chain'[k], clock', NoTxn)
    BY DEF ReadAutoCommit, ResolveVisible
<1>5. CASE page[k] = Absent /\ page'[k] = ApplyDeltasForRead(Absent, chain'[k], clock', NoTxn)
    <2>1. CASE VisibleDeltas(chain'[k], clock', NoTxn) = {}
        BY <1>2, <1>5, <2>1 DEF ApplyDeltasForRead
    <2>2. CASE VisibleDeltas(chain'[k], clock', NoTxn) # {}
        BY <1>2, <1>4, <1>5, <2>2 DEF ApplyDeltasForRead
    <2> QED
        BY <2>1, <2>2
<1> QED
    BY <1>2, <1>3, <1>5

\* A commit that was logged and synced keeps the invariant when it publishes its
\* versions and rewrites the endpoints of the edges it links.
LEMMA FinishStep ==
    ASSUME TypeInv, TypeInv', IInv, IInv', DInv, FinishCommit
    PROVE  DInv'
<1> DEFINE t == committing
           S == {n \in Endpoints(t) : MaterializedAtCommit(t)[n] # Absent}
           g == SetToSeq(S)
           ext == [i \in DOMAIN g |-> Redo(g[i], page'[g[i]], NoTxn)]
           m == Len(wal)
<1>0. /\ wal \in Seq(LogRecord) /\ m \in Nat /\ synced \in 0 .. m /\ disk \in [Keys -> Versions]
      /\ batchOpen \in BOOLEAN
      /\ diskIds \in (1 .. (MaxNode + 1)) \X ((MaxNode + 1) .. (MaxNode + MaxEdge + 1))
      /\ budget \in Budget
    BY LenProperties DEF DInv, DurabilityType
<1>1. t \in active /\ CommitTxn(t) /\ t # NoTxn /\ t \in TxnIds
    BY DEF FinishCommit, DInv, DurabilityType, TypeInv, TypeOK
<1>2. S \subseteq Keys /\ IsFiniteSet(S)
    <2>1. S \subseteq Nodes
        BY EndsAssumption DEF Endpoints, Edges
    <2> QED
        BY <2>1, KeysAreFinite, FS_Subset DEF Keys
<1>3. PICK c \in Nat : /\ g \in [1 .. c -> S]
                       /\ \A i, j \in 1 .. c : g[i] = g[j] => i = j
                       /\ \A x \in S : \E i \in 1 .. c : g[i] = x
    BY <1>2, SetToSeqLists
<1>4. wal' = wal \o ext
    BY DEF FinishCommit
<1>f. \A k \in Keys : causes'[k] =
          (IF k \in written[t] THEN {} ELSE causes[k])
          \cup {x \in {"order"} : k \in written[t] /\ OwnNewest(t, k) # ReadAutoCommit(k)'}
          \cup {x \in {"pointer"} : k \in Range(g) /\ page'[k] # ReadAutoCommit(k)'}
          \cup {x \in {"batch"} : batchOpen /\ k \in written[t]}
    BY DEF FinishCommit
<1>g. /\ committing' = NoTxn /\ synced' = IF batchOpen THEN synced ELSE m
      /\ UNCHANGED <<disk, diskIds, batchOpen, budget>>
    BY DEF FinishCommit, WalSync, diskVars
<1> HIDE DEF g, S
<1>5. /\ ext \in Seq(LogRecord) /\ Len(ext) = c
      /\ \A i \in 1 .. c : /\ ext[i].kind = "Write" /\ ext[i].key = g[i] /\ ext[i].txn = NoTxn
                           /\ ext[i].val = page'[g[i]]
    <2>1. \A i \in 1 .. c : g[i] \in Keys /\ page'[g[i]] \in Versions
        BY <1>2, <1>3 DEF TypeInv, TypeOK
    <2>2. \A i \in 1 .. c : Redo(g[i], page'[g[i]], NoTxn) \in LogRecord
        BY <2>1 DEF Redo, LogRecord, WriteRecord
    <2>3. ext \in [1 .. c -> LogRecord]
        BY <1>3, <2>2
    <2>4. ext \in Seq(LogRecord) /\ Len(ext) = c
        BY <2>3, FunctionIsSeq
    <2>5. \A i \in 1 .. c : ext[i] = Redo(g[i], page'[g[i]], NoTxn)
        BY <1>3
    <2> QED
        BY <2>4, <2>5 DEF Redo
<1>b. PICK e \in Seq(LogRecord) : e = ext
    BY <1>5
<1> HIDE DEF ext
<1>c. /\ wal' = wal \o e /\ Len(e) = c
      /\ \A i \in 1 .. c : /\ e[i].kind = "Write" /\ e[i].key = g[i] /\ e[i].txn = NoTxn
                           /\ e[i].val = page'[g[i]]
    BY <1>4, <1>5, <1>b
<1>6. /\ wal' \in Seq(LogRecord) /\ Len(wal') = m + c
      /\ \A i \in 1 .. m : wal'[i] = wal[i]
      /\ \A i \in (m + 1) .. (m + c) : i - m \in 1 .. c /\ wal'[i] = e[i - m]
    <2>1. /\ wal \o e \in Seq(LogRecord)
          /\ Len(wal \o e) = m + Len(e)
          /\ \A i \in 1 .. m : (wal \o e)[i] = wal[i]
          /\ \A i \in (m + 1) .. (m + Len(e)) : i - m \in 1 .. Len(e) /\ (wal \o e)[i] = e[i - m]
        BY <1>0, LongerLog
    <2> QED
        BY <1>c, <2>1
<1>7. ASSUME NEW k \in Keys, OnlyBatch(k)'
      PROVE  /\ k \in written[t] => OwnNewest(t, k) = ReadAutoCommit(k)'
             /\ \A i \in 1 .. c : g[i] = k => page'[k] = ReadAutoCommit(k)'
             /\ k \notin written[t] => causes[k] \subseteq causes'[k] /\ OnlyBatch(k) /\ ~ Pending(k)
    <2>1. "order" \notin causes'[k] /\ "pointer" \notin causes'[k]
        BY <1>7 DEF OnlyBatch
    <2>2. k \in written[t] => OwnNewest(t, k) = ReadAutoCommit(k)'
        BY <1>f, <2>1
    <2>3. k \in Range(g) => page'[k] = ReadAutoCommit(k)'
        BY <1>f, <2>1
    <2>4. \A i \in 1 .. c : g[i] \in Range(g)
        BY <1>3 DEF Range
    <2>5. k \notin written[t] => causes[k] \subseteq causes'[k]
        BY <1>f
    <2> QED
        BY <1>7, <2>2, <2>3, <2>4, <2>5 DEF OnlyBatch, Pending
<1>8. ASSUME NEW k \in Keys, k \notin written[t]
      PROVE  ReadAutoCommit(k)' = ReadAutoCommit(k) /\ page'[k] \in {page[k], ReadAutoCommit(k)}
    BY <1>1, <1>8, CommitPages
<1>9. ASSUME NEW k \in Keys, OnlyBatch(k)', NEW n \in m .. (m + c) PROVE Sound(n, k)'
    <2>1. Recovers(wal, m, k, ReadAutoCommit(k)', disk[k], page'[k])
        <3>1. CASE k \in written[t]
            <4>1. Pending(k)
                BY <1>1, <3>1 DEF Pending
            <4>2. PICK j \in Replayed(wal, m, k) :
                      /\ wal[j].val = OwnNewest(t, k)
                      /\ \A i \in 1 .. m : IsWriteOf(wal[i], k) => i <= j
                BY <4>1 DEF DInv, CommitIsLogged
            <4>3. LastIs(wal, m, k, wal[j].val)
                BY <1>0, <4>2, LastDecides
            <4> QED
                BY <1>7, <1>9, <3>1, <4>2, <4>3 DEF Recovers
        <3>2. CASE k \notin written[t]
            <4>1. Sound(m, k)
                BY <1>7, <1>9, <3>2 DEF DInv, WholeLogIsSound
            <4> QED
                BY <1>8, <3>2, <4>1, RecoversFrame DEF Sound
        <3> QED
            BY <3>1, <3>2
    <2>2. /\ \A i \in 1 .. Len(e) : e[i].key = k => e[i].val = ReadAutoCommit(k)'
          /\ \A i \in 1 .. Len(e) : e[i].kind = "Write" /\ e[i].txn = NoTxn
          /\ \A i, j \in 1 .. Len(e) : e[i].key = e[j].key => i = j
        <3>1. \A i \in 1 .. c : g[i] = k => page'[k] = ReadAutoCommit(k)'
            BY <1>7, <1>9
        <3>2. ASSUME NEW i \in 1 .. c, e[i].key = k PROVE e[i].val = ReadAutoCommit(k)'
            <4>1. g[i] = k /\ e[i].val = page'[g[i]]
                BY <1>c, <3>2
            <4> QED
                BY <3>1, <4>1
        <3>3. \A i, j \in 1 .. c : e[i].key = e[j].key => i = j
            BY <1>3, <1>c
        <3>4. \A i \in 1 .. c : e[i].kind = "Write" /\ e[i].txn = NoTxn
            BY <1>c
        <3>5. Len(e) = c
            BY <1>c
        <3> QED
            BY <3>2, <3>3, <3>4, <3>5
    <2>3. n \in Len(wal) .. (Len(wal) + Len(e))
        BY <1>c
    <2>4. Recovers(wal \o e, n, k, ReadAutoCommit(k)', disk[k], page'[k])
        BY <1>0, <2>1, <2>2, <2>3, RedosAreNeutral
    <2> QED
        BY <1>c, <1>g, <2>4 DEF Sound
<1>10. DurabilityType'
    BY <1>0, <1>6, <1>g DEF DurabilityType
<1>a. [Next]_vars /\ WritesHaveDeltas
    BY <1>1 DEF Next, DInv
<1>11. /\ WritesHaveDeltas' /\ nextTxn <= nextTxn'
       /\ \A u \in active' : u < nextTxn => u \in active /\ written[u] \subseteq written'[u]
    BY <1>a, WritesKept
<1>12. CommitIsLogged'
    BY <1>g DEF CommitIsLogged, Pending
<1>13. UnmarkedIsHarmless'
    <2> SUFFICES ASSUME NEW k \in Keys, OnlyBatch(k)', NEW i \in 1 .. Len(wal'), IsWriteOf(wal'[i], k)
                 PROVE  \/ MarkedIn(wal', Len(wal'), wal'[i].txn)
                        \/ \E j \in Replayed(wal', Len(wal'), k) : i < j
                        \/ wal'[i].txn < nextTxn' /\ (wal'[i].txn \in active' => k \in written'[wal'[i].txn])
        BY DEF UnmarkedIsHarmless
    <2>1. CASE i \in 1 .. m
        <3>0. wal'[i] = wal[i] /\ Len(wal') \in Nat /\ m <= Len(wal')
            BY <1>0, <1>6, <2>1
        <3>1. /\ \A u : MarkedIn(wal, m, u) => MarkedIn(wal', Len(wal'), u)
              /\ Replayed(wal, m, k) \subseteq Replayed(wal', Len(wal'), k)
            BY <1>0, <1>6, <3>0, AppendKeeps
        <3>2. CASE k \in written[t]
            <4>1. Pending(k)
                BY <1>1, <3>2 DEF Pending
            <4>2. PICK j \in Replayed(wal, m, k) : \A h \in 1 .. m : IsWriteOf(wal[h], k) => h <= j
                BY <4>1 DEF DInv, CommitIsLogged
            <4>3. i <= j /\ j \in 1 .. m /\ MarkedIn(wal, m, wal[j].txn)
                BY <2>1, <3>0, <4>2 DEF Replayed
            <4>4. i < j \/ i = j
                BY <1>0, <2>1, <4>3
            <4> QED
                BY <3>0, <3>1, <4>2, <4>3, <4>4
        <3>3. CASE k \notin written[t]
            <4>1. \/ MarkedIn(wal, m, wal[i].txn)
                  \/ \E j \in Replayed(wal, m, k) : i < j
                  \/ wal[i].txn < nextTxn /\ (wal[i].txn \in active => k \in written[wal[i].txn])
                BY <1>7, <2>1, <3>0, <3>3 DEF DInv, UnmarkedIsHarmless
            <4>2. wal[i] \in LogRecord
                BY <1>0, <2>1, ElementOfSeq
            <4>3. wal[i].txn \in Nat
                BY <4>2, BoundsAssumption DEF LogRecord, WriteRecord, TxnIds, NoTxn
            <4>4. nextTxn \in Nat /\ nextTxn' \in Nat
                BY BoundsAssumption DEF TypeInv, TypeOK
            <4> QED
                BY <1>11, <3>0, <3>1, <4>1, <4>3, <4>4
        <3> QED
            BY <3>2, <3>3
    <2>2. CASE i \in (m + 1) .. (m + c)
        <3>1. i - m \in 1 .. c /\ wal'[i] = e[i - m]
            BY <1>6, <2>2
        <3>2. wal'[i].txn = NoTxn
            BY <1>c, <3>1
        <3> QED
            BY <3>2 DEF MarkedIn
    <2> QED
        BY <1>0, <1>6, <2>1, <2>2
<1>14. WholeLogIsSound'
    <2>1. m + c \in m .. (m + c)
        BY <1>0
    <2> QED
        BY <1>6, <1>9, <2>1 DEF WholeLogIsSound
<1>15. EveryCutIsSound'
    <2> SUFFICES ASSUME NEW k \in Keys, causes'[k] = {}, NEW n \in synced' .. Len(wal')
                 PROVE  Sound(n, k)'
        BY DEF EveryCutIsSound
    <2>0. OnlyBatch(k)'
        BY DEF OnlyBatch
    <2>1. CASE n >= m
        <3>1. n \in m .. (m + c)
            BY <1>0, <1>6, <1>g, <2>1
        <3> QED
            BY <1>9, <2>0, <3>1
    <2>2. CASE n < m
        <3>1. batchOpen /\ n \in synced .. m
            BY <1>0, <1>6, <1>g, <2>2
        <3>2. k \notin written[t]
            BY <1>f, <3>1
        <3>3. causes[k] = {} /\ ~ Pending(k)
            BY <1>7, <2>0, <3>2
        <3>4. Sound(n, k)
            BY <3>1, <3>3 DEF DInv, EveryCutIsSound
        <3>5. Recovers(wal, n, k, ReadAutoCommit(k)', disk[k], page'[k])
            BY <1>8, <3>2, <3>4, RecoversFrame DEF Sound
        <3>6. n \in Nat /\ \A i \in 1 .. n : wal'[i] = wal[i]
            BY <1>0, <1>6, <3>1
        <3>7. Recovers(wal', n, k, ReadAutoCommit(k)', disk[k], page'[k])
            BY <3>5, <3>6, PrefixDecides
        <3> QED
            BY <1>g, <3>7 DEF Sound
    <2> QED
        BY <1>0, <1>6, <1>g, <2>1, <2>2
<1> QED
    BY <1>10, <1>11, <1>12, <1>13, <1>14, <1>15 DEF DInv

\* Spending some of the budget leaves a budget, and the lives as they were.
LEMMA BudgetSpent ==
    ASSUME NEW b \in Budget
    PROVE  /\ b.fail > 0 => [b EXCEPT !.fail = @ - 1] \in Budget /\ [b EXCEPT !.fail = @ - 1].lives = b.lives
           /\ b.batch > 0 => [b EXCEPT !.batch = @ - 1] \in Budget /\ [b EXCEPT !.batch = @ - 1].lives = b.lives
           /\ b.flush > 0 => [b EXCEPT !.flush = @ - 1] \in Budget /\ [b EXCEPT !.flush = @ - 1].lives = b.lives
           /\ b.lives > 0 => [b EXCEPT !.lives = @ - 1] \in Budget
<1>1. b.lives \in Nat /\ b.flush \in Nat /\ b.fail \in Nat /\ b.batch \in Nat
    BY DEF Budget
<1>2. b.fail > 0 => [b EXCEPT !.fail = @ - 1] \in Budget /\ [b EXCEPT !.fail = @ - 1].lives = b.lives
    BY <1>1 DEF Budget
<1>3. b.batch > 0 => [b EXCEPT !.batch = @ - 1] \in Budget /\ [b EXCEPT !.batch = @ - 1].lives = b.lives
    BY <1>1 DEF Budget
<1>4. b.flush > 0 => [b EXCEPT !.flush = @ - 1] \in Budget /\ [b EXCEPT !.flush = @ - 1].lives = b.lives
    BY <1>1 DEF Budget
<1>5. b.lives > 0 => [b EXCEPT !.lives = @ - 1] \in Budget
    BY <1>1 DEF Budget
<1> QED
    BY <1>2, <1>3, <1>4, <1>5

\* A commit logged whole, and one whose appends stop short of the marker.
LEMMA LogStep ==
    ASSUME TypeInv, TypeInv', IInv, IInv', DInv, NEW t \in active, LogCommit(t) \/ FailAppend(t)
    PROVE  DInv'
<1> DEFINE all == CommitRecords(t)
<1>1. WritesHaveDeltas
    BY DEF DInv
<1>2. PICK c \in Nat : \E f \in [1 .. c -> written[t]] :
          /\ all \in Seq(LogRecord) /\ Len(all) = c + 1
          /\ \A i \in 1 .. c : all[i] = Redo(f[i], OwnNewest(t, f[i]), t)
          /\ all[c + 1] = CommitMarker(t)
          /\ \A i, j \in 1 .. c : f[i] = f[j] => i = j
          /\ \A k \in written[t] : \E i \in 1 .. c : f[i] = k
    BY <1>1, CommitRecordsShape
<1>3. PICK f \in [1 .. c -> written[t]] :
          /\ all \in Seq(LogRecord) /\ Len(all) = c + 1
          /\ \A i \in 1 .. c : all[i] = Redo(f[i], OwnNewest(t, f[i]), t)
          /\ all[c + 1] = CommitMarker(t)
          /\ \A i, j \in 1 .. c : f[i] = f[j] => i = j
          /\ \A k \in written[t] : \E i \in 1 .. c : f[i] = k
    BY <1>2
<1> HIDE DEF all
<1>4. /\ \A i \in 1 .. (c + 1) : all[i].txn = t
      /\ \A i \in 1 .. c : /\ all[i].kind = "Write" /\ all[i].key = f[i]
                           /\ all[i].val = OwnNewest(t, f[i])
      /\ all[c + 1].kind = "Commit"
    <2>1. ASSUME NEW i \in 1 .. c
          PROVE  /\ all[i].txn = t /\ all[i].kind = "Write" /\ all[i].key = f[i]
                 /\ all[i].val = OwnNewest(t, f[i])
        <3>1. all[i] = Redo(f[i], OwnNewest(t, f[i]), t)
            BY <1>3
        <3> QED
            BY <3>1 DEF Redo
    <2>2. all[c + 1].txn = t /\ all[c + 1].kind = "Commit"
        BY <1>3 DEF CommitMarker
    <2> QED
        BY <2>1, <2>2
<1>5. /\ budget \in Budget
      /\ committing = NoTxn
      /\ UNCHANGED <<synced, disk, diskIds, batchOpen, page, chain, active, written, nextTxn>>
      /\ \A k \in Keys : causes'[k] = causes[k] \cup ReuseCause(t, k)
    BY DEF DInv, DurabilityType, LogCommit, FailAppend, diskVars, vars, registryVars, CommitTxnFails
<1>6. [Next]_vars
    BY DEF LogCommit, FailAppend, Next, LocalStep
<1>7. \A k \in Keys : ReadAutoCommit(k)' = ReadAutoCommit(k)
    BY <1>5, <1>6, PublishStep
<1>8. CASE LogCommit(t)
    <2>1. committing' = t /\ wal' = wal \o all /\ budget' = budget
        BY <1>8 DEF LogCommit, all
    <2>2. RecordsOf(all, t, c, f)
        <3> SUFFICES ASSUME NEW i \in 1 .. (c + 1)
                     PROVE  /\ all[i].txn = t
                            /\ i <= c => /\ all[i].kind = "Write" /\ all[i].key = f[i]
                                         /\ all[i].val = OwnNewest(t, f[i])
                            /\ i > c => all[i].kind = "Commit"
            BY <1>3 DEF RecordsOf
        <3>1. i \in 1 .. c \/ i = c + 1
            OBVIOUS
        <3> QED
            BY <1>4, <3>1
    <2> QED
        BY <1>3, <1>5, <1>7, <2>1, <2>2, AppendStep
<1>9. CASE FailAppend(t)
    <2>1. /\ committing' = NoTxn
          /\ budget.fail > 0 /\ budget' = [budget EXCEPT !.fail = @ - 1]
          /\ \E n \in 0 .. (Len(all) - 1) : wal' = wal \o SubSeq(all, 1, n)
        BY <1>9 DEF FailAppend, all
    <2>2. budget' \in Budget
        BY <1>5, <2>1, BudgetSpent
    <2>a. Len(all) - 1 = c
        BY <1>3
    <2>3. PICK n \in 0 .. c : wal' = wal \o SubSeq(all, 1, n)
        BY <2>1, <2>a, Zenon
    <2> DEFINE ext == SubSeq(all, 1, n)
    <2>4. \A i \in 1 .. n : all[i] \in LogRecord
        BY <1>3, ElementOfSeq
    <2>5. /\ ext \in Seq(LogRecord) /\ Len(ext) = (IF 1 <= n THEN n - 1 + 1 ELSE 0)
          /\ \A i \in 1 .. n - 1 + 1 : ext[i] = all[1 + i - 1]
        BY <1>3, <2>4, SubSeqProperties
    <2>6. Len(ext) = n /\ \A i \in 1 .. n : ext[i] = all[i]
        BY <2>5
    <2> HIDE DEF ext
    <2>7. RecordsOf(ext, t, c, f) /\ Len(ext) <= c
        BY <1>4, <2>6 DEF RecordsOf
    <2>8. wal' = wal \o ext
        BY <2>3 DEF ext
    <2> QED
        BY <1>3, <1>5, <1>7, <2>1, <2>2, <2>5, <2>7, <2>8, AppendStep
<1> QED
    BY <1>8, <1>9

-----------------------------------------------------------------------------
(* Logs without a record of the key: a checkpoint, a reopened store.       *)

\* A log that has no record of k recovers what the file holds.
LEMMA NoRecordRecovers ==
    ASSUME NEW log, NEW n \in Nat, NEW k, NEW v, \A i \in 1 .. n : ~ IsWriteOf(log[i], k)
    PROVE  Recovers(log, n, k, v, v, v)
BY DEF Recovers, Replayed

\* No commit is under way and the log has no record of a key in good order, whose
\* page, file and visible version agree.
CleanLog ==
    /\ DurabilityType /\ WritesHaveDeltas /\ committing = NoTxn
    /\ \A k \in Keys : OnlyBatch(k) =>
           /\ \A i \in 1 .. Len(wal) : ~ IsWriteOf(wal[i], k)
           /\ disk[k] = ReadAutoCommit(k) /\ page[k] = ReadAutoCommit(k)

\* The invariant then holds.
LEMMA CleanState == CleanLog => DInv
<1> SUFFICES ASSUME CleanLog PROVE DInv
    OBVIOUS
<1>c. /\ DurabilityType /\ WritesHaveDeltas /\ committing = NoTxn
      /\ \A k \in Keys : OnlyBatch(k) =>
           /\ \A i \in 1 .. Len(wal) : ~ IsWriteOf(wal[i], k)
           /\ disk[k] = ReadAutoCommit(k) /\ page[k] = ReadAutoCommit(k)
    BY DEF CleanLog
<1>0. Len(wal) \in Nat /\ synced \in 0 .. Len(wal)
    BY <1>c, LenProperties DEF DurabilityType
<1>1. ASSUME NEW k \in Keys, OnlyBatch(k), NEW n \in 0 .. Len(wal) PROVE Sound(n, k)
    <2>1. n \in Nat /\ \A i \in 1 .. n : ~ IsWriteOf(wal[i], k)
        BY <1>0, <1>1, <1>c
    <2>2. Recovers(wal, n, k, ReadAutoCommit(k), ReadAutoCommit(k), ReadAutoCommit(k))
        BY <2>1, NoRecordRecovers
    <2> QED
        BY <1>1, <1>c, <2>2 DEF Sound
<1>2. CommitIsLogged
    BY <1>c DEF CommitIsLogged, Pending
<1>3. UnmarkedIsHarmless
    BY <1>c DEF UnmarkedIsHarmless
<1>4. WholeLogIsSound
    BY <1>0, <1>1 DEF WholeLogIsSound
<1>5. EveryCutIsSound
    <2> SUFFICES ASSUME NEW k \in Keys, causes[k] = {}, NEW n \in synced .. Len(wal) PROVE Sound(n, k)
        BY DEF EveryCutIsSound
    <2>1. OnlyBatch(k) /\ n \in 0 .. Len(wal)
        BY <1>0 DEF OnlyBatch
    <2> QED
        BY <1>1, <2>1
<1> QED
    BY <1>2, <1>3, <1>4, <1>5, <1>c DEF DInv

\* The same after a step.
LEMMA CleanStateNext == CleanLog' => DInv'
BY CleanState, PTL

\* A checkpoint keeps the invariant: the keys in good order are those whose page
\* is the version readers see.
LEMMA CheckpointStep ==
    ASSUME TypeInv, TypeInv', IInv, IInv', DInv, Checkpoint, UNCHANGED vars, committing = NoTxn,
           committing' = NoTxn, batchOpen' \in BOOLEAN
    PROVE  DInv'
<1>1. /\ wal' = <<>> /\ synced' = 0 /\ disk' = page /\ diskIds' = <<nextNode, nextEdge>>
      /\ \A k \in Keys : causes'[k] = {c \in {"checkpoint"} : page[k] # ReadAutoCommit(k)}
      /\ budget.flush > 0 /\ budget' = [budget EXCEPT !.flush = @ - 1]
    BY DEF Checkpoint
<1>2. \A k \in Keys : ReadAutoCommit(k)' = ReadAutoCommit(k)
    BY QuietEngine
<1>3. wal' \in Seq(LogRecord) /\ Len(wal') = 0
    BY <1>1
<1>4. budget \in Budget
    BY DEF DInv, DurabilityType
<1>5. budget' \in Budget
    BY <1>1, <1>4, BudgetSpent
<1>6. DurabilityType'
    BY <1>1, <1>3, <1>5 DEF DurabilityType, TypeInv, TypeOK
<1>7. WritesHaveDeltas'
    BY DEF DInv, WritesHaveDeltas, vars, registryVars
<1>8. ASSUME NEW k \in Keys, OnlyBatch(k)' PROVE page[k] = ReadAutoCommit(k)
    <2>1. "checkpoint" \notin causes'[k]
        BY <1>8 DEF OnlyBatch
    <2> QED
        BY <1>1, <2>1
<1>9. page' = page
    BY DEF vars
<1>10. CleanLog'
    BY <1>1, <1>2, <1>3, <1>6, <1>7, <1>8, <1>9 DEF CleanLog
<1> QED
    BY <1>10, CleanStateNext

\* A crash leaves what the whole of the kept log recovers; the keys in good order
\* afterwards are those of which the log it starts with has no record.
LEMMA CrashStep ==
    ASSUME TypeInv', IInv', DInv, NEW kept \in synced .. Len(wal), CrashAndReopen(kept)
    PROVE  DInv'
<1> DEFINE log == SubSeq(wal, 1, kept)
<1>0. DurabilityType /\ wal \in Seq(LogRecord) /\ Len(wal) \in Nat /\ kept \in 0 .. Len(wal)
    BY LenProperties DEF DInv, DurabilityType
<1>1. log \in Seq(LogRecord)
    <2>1. \A i \in 1 .. kept : wal[i] \in LogRecord
        BY <1>0, ElementOfSeq
    <2> QED
        BY <1>0, <2>1, SubSeqProperties
<1>2. /\ page' = ReplayRecords(log) /\ disk' = page' /\ exists' = {k \in Keys : page'[k] # Absent}
      /\ wal' = IF DurableRecords(log) = {} THEN log ELSE <<>>
      /\ synced' = Len(wal') /\ active' = {} /\ batchOpen' = FALSE /\ committing' = NoTxn
      /\ written' = [t \in TxnIds |-> {}] /\ chain' = [k \in Keys |-> {}] /\ diskIds' = diskIds
      /\ \A k \in Keys : causes'[k] =
             {c \in {"reuse"} : \E r \in Range(wal') : r.kind = "Write" /\ r.key = k}
      /\ budget.lives > 0 /\ budget' = [budget EXCEPT !.lives = @ - 1]
    BY DEF CrashAndReopen
<1>3. page' \in [Keys -> Versions]
    BY <1>0, <1>2, ReplayType
<1> HIDE DEF log
<1>4. wal' \in Seq(LogRecord) /\ Len(wal') \in Nat /\ DOMAIN wal' = 1 .. Len(wal')
    <2>1. wal' \in Seq(LogRecord)
        BY <1>1, <1>2
    <2> QED
        BY <2>1, LenProperties
<1>5. budget \in Budget
    BY <1>0 DEF DurabilityType
<1>6. budget' \in Budget
    BY <1>2, <1>5, BudgetSpent
<1>7. DurabilityType'
    <2>1. /\ diskIds' \in (1 .. (MaxNode + 1)) \X ((MaxNode + 1) .. (MaxNode + MaxEdge + 1))
          /\ committing' \in active' \cup {NoTxn} /\ batchOpen' \in BOOLEAN
        BY <1>0, <1>2 DEF DurabilityType
    <2>2. synced' \in 0 .. Len(wal') /\ disk' \in [Keys -> Versions]
        BY <1>2, <1>3, <1>4
    <2> QED
        BY <1>4, <1>6, <2>1, <2>2 DEF DurabilityType
<1>8. WritesHaveDeltas'
    BY <1>2 DEF WritesHaveDeltas
<1>9. \A k \in Keys : ReadAutoCommit(k)' = page'[k]
    <2>1. \A k \in Keys : Committed(k)' = {}
        BY <1>2 DEF Committed
    <2>2. \A k \in Keys : CommittedBase(k)' = page'[k]
        BY <1>2 DEF CommittedBase
    <2> QED
        BY <2>1, <2>2, AutoCommitSeesNext DEF AutoCommitView
<1>10. ASSUME NEW k \in Keys, OnlyBatch(k)', NEW i \in 1 .. Len(wal') PROVE ~ IsWriteOf(wal'[i], k)
    <2>1. "reuse" \notin causes'[k]
        BY <1>10 DEF OnlyBatch
    <2>2. wal'[i] \in Range(wal')
        BY <1>4 DEF Range
    <2> QED
        BY <1>2, <2>1, <2>2 DEF IsWriteOf
<1>11. CleanLog'
    BY <1>2, <1>7, <1>8, <1>9, <1>10 DEF CleanLog
<1> QED
    BY <1>11, CleanStateNext

-----------------------------------------------------------------------------
(* The invariant and the theorem.                                          *)

\* A store just opened: nothing in the log, the files as the pages.
LEMMA InitDurable == InitDurability => TypeInv /\ IInv /\ DInv
<1> SUFFICES ASSUME InitDurability PROVE TypeInv /\ IInv /\ DInv
    OBVIOUS
<1>1. TypeInv /\ IInv
    BY InitTypeInv, InitIInv DEF InitDurability
<1>2. /\ wal = <<>> /\ synced = 0 /\ disk = page /\ diskIds = <<nextNode, nextEdge>>
      /\ batchOpen = FALSE /\ committing = NoTxn /\ budget \in Budgets
      /\ exists = {k \in Keys : page[k] # Absent} /\ chain = [k \in Keys |-> {}]
      /\ written = [t \in TxnIds |-> {}]
    BY DEF InitDurability, Init
<1>3. wal \in Seq(LogRecord) /\ Len(wal) = 0
    BY <1>2
<1>4. budget \in Budget
    BY <1>2, BudgetsAssumption DEF Budget
<1>5. DurabilityType
    <2>1. /\ nextNode \in 1 .. (MaxNode + 1) /\ nextEdge \in (MaxNode + 1) .. (MaxNode + MaxEdge + 1)
          /\ page \in [Keys -> Versions]
        BY <1>1 DEF TypeInv, TypeOK
    <2>2. /\ diskIds \in (1 .. (MaxNode + 1)) \X ((MaxNode + 1) .. (MaxNode + MaxEdge + 1))
          /\ disk \in [Keys -> Versions]
        BY <1>2, <2>1
    <2>3. committing \in active \cup {NoTxn} /\ batchOpen \in BOOLEAN
        BY <1>2
    <2>4. synced \in 0 .. Len(wal)
        BY <1>2, <1>3
    <2> QED
        BY <1>3, <1>4, <2>2, <2>3, <2>4 DEF DurabilityType
<1>6. WritesHaveDeltas
    BY <1>2 DEF WritesHaveDeltas
<1>7. \A k \in Keys : ReadAutoCommit(k) = page[k]
    <2>1. \A k \in Keys : Committed(k) = {}
        BY <1>2 DEF Committed
    <2>2. \A k \in Keys : CommittedBase(k) = page[k]
        BY <1>2 DEF CommittedBase
    <2> QED
        BY <1>1, <2>1, <2>2, AutoCommitSees DEF AutoCommitView
<1>8. CleanLog
    BY <1>2, <1>3, <1>5, <1>6, <1>7 DEF CleanLog
<1> QED
    BY <1>1, <1>8, CleanState

\* Begins, writes, rollbacks, vacuums, batches and evictions keep the invariant.
LEMMA QuietSteps ==
    ASSUME TypeInv, TypeInv', IInv, IInv', DInv,
           \/ MemoryStep \/ \E t \in active : Rollback(t)
           \/ BeginBatch \/ (EndBatch /\ ~ Checkpoint) \/ Evict(Nodes) \/ Evict(Edges)
    PROVE  DInv'
<1>0. /\ wal \in Seq(LogRecord) /\ Len(wal) \in Nat /\ synced \in 0 .. Len(wal)
      /\ disk \in [Keys -> Versions] /\ page \in [Keys -> Versions] /\ batchOpen \in BOOLEAN
      /\ diskIds \in (1 .. (MaxNode + 1)) \X ((MaxNode + 1) .. (MaxNode + MaxEdge + 1))
      /\ budget \in Budget
    BY LenProperties DEF DInv, DurabilityType, TypeInv, TypeOK
<1>1. \/ BeginTxn \/ WriteInTxn \/ VacuumOnce
      \/ \E t \in active : RollbackTxn(t)
      \/ UNCHANGED vars
    BY DEF MemoryStep, Rollback, BeginBatch, EndBatch, Evict
<1>2. [Next]_vars
    BY <1>1 DEF Next, LocalStep
<1>3. \A k \in Keys : ReadAutoCommit(k)' = ReadAutoCommit(k) /\ page'[k] \in {page[k], ReadAutoCommit(k)}
    BY <1>1, QuietEngine
<1>4. committing = NoTxn /\ committing' = NoTxn /\ wal' = wal /\ diskIds' = diskIds
    BY DEF MemoryStep, Rollback, BeginBatch, EndBatch, Evict, logVars, diskVars
<1>5. /\ synced' \in {synced, Len(wal)} /\ batchOpen' \in BOOLEAN
      /\ \A k \in Keys : \/ causes'[k] = causes[k]
                         \/ causes'[k] = Settled(causes[k]) /\ synced' = Len(wal)
    BY <1>0 DEF MemoryStep, Rollback, BeginBatch, EndBatch, Evict, logVars, diskVars, WalSync
<1>6. disk' \in [Keys -> Versions] /\ \A k \in Keys : disk'[k] \in {disk[k], page[k]}
    <2>1. CASE disk' = disk
        BY <1>0, <2>1
    <2>2. ASSUME NEW file, disk' = [k \in Keys |-> IF k \in file THEN page[k] ELSE disk[k]]
          PROVE  disk' \in [Keys -> Versions] /\ \A k \in Keys : disk'[k] \in {disk[k], page[k]}
        BY <1>0, <2>2
    <2> QED
        BY <2>1, <2>2 DEF MemoryStep, Rollback, BeginBatch, EndBatch, Evict, diskVars
<1>7. budget' \in Budget
    <2>1. budget' = budget \/ (budget.batch > 0 /\ budget' = [budget EXCEPT !.batch = @ - 1])
        BY DEF MemoryStep, Rollback, BeginBatch, EndBatch, Evict
    <2> QED
        BY <1>0, <2>1, BudgetSpent
<1>8. DurabilityType'
    BY <1>0, <1>4, <1>5, <1>6, <1>7 DEF DurabilityType
<1>9. \A k \in Keys : ~ Pending(k)
    BY <1>4 DEF Pending
<1> QED
    BY <1>2, <1>3, <1>4, <1>5, <1>6, <1>8, <1>9, QuietStep

\* A failed sync keeps the invariant: what the transaction wrote is in doubt.
LEMMA FailSyncStep ==
    ASSUME TypeInv, TypeInv', IInv, IInv', DInv, FailSync
    PROVE  DInv'
<1>0. /\ DurabilityType /\ budget \in Budget
      /\ committing \in active /\ CommitTxnFails(committing) /\ committing # NoTxn
    BY DEF DInv, DurabilityType, FailSync, CommitTxnFails
<1>1. /\ UNCHANGED <<wal, synced, disk, diskIds, batchOpen, active, page>> /\ committing' = NoTxn
      /\ \A k \in Keys : causes'[k] = causes[k] \cup {c \in {"failed"} : k \in written[committing]}
      /\ budget.fail > 0 /\ budget' = [budget EXCEPT !.fail = @ - 1]
    BY DEF FailSync, logVars, diskVars, CommitTxnFails, registryVars
<1>2. [Next]_vars
    BY <1>0 DEF Next, LocalStep
<1>3. \A k \in Keys : ReadAutoCommit(k)' = ReadAutoCommit(k)
    BY <1>1, <1>2, PublishStep
<1>4. budget' \in Budget
    BY <1>0, <1>1, BudgetSpent
<1>5. DurabilityType'
    BY <1>0, <1>1, <1>4 DEF DurabilityType
<1>6. ASSUME NEW k \in Keys, OnlyBatch(k)' PROVE ~ Pending(k) /\ causes'[k] = causes[k]
    <2>1. "failed" \notin causes'[k]
        BY <1>6 DEF OnlyBatch
    <2>2. k \notin written[committing]
        BY <1>1, <2>1
    <2> QED
        BY <1>1, <2>2 DEF Pending
<1> QED
    BY <1>1, <1>2, <1>3, <1>5, <1>6, QuietStep

\* The invariant is inductive.
LEMMA DurableStep ==
    ASSUME TypeInv, IInv, DInv, [NextDurability]_durVars
    PROVE  TypeInv' /\ IInv' /\ DInv'
<1>1. DurabilityType
    BY DEF DInv
<1>2. TypeInv' /\ IInv'
    BY <1>1, EngineInvariantKept
<1> SUFFICES DInv'
    BY <1>2
<1>3. CASE \/ MemoryStep \/ \E t \in active : Rollback(t)
           \/ BeginBatch \/ (EndBatch /\ ~ Checkpoint) \/ Evict(Nodes) \/ Evict(Edges)
    BY <1>2, <1>3, QuietSteps
<1>4. CASE (EndBatch /\ Checkpoint) \/ Flush
    <2>1. /\ Checkpoint /\ UNCHANGED vars /\ committing = NoTxn /\ committing' = NoTxn
          /\ batchOpen' \in BOOLEAN
        BY <1>1, <1>4 DEF EndBatch, Flush, DurabilityType
    <2> QED
        BY <1>2, <2>1, CheckpointStep
<1>5. ASSUME NEW t \in active, LogCommit(t) \/ FailAppend(t) PROVE DInv'
    BY <1>2, <1>5, LogStep
<1>6. CASE FinishCommit
    BY <1>2, <1>6, FinishStep
<1>7. CASE FailSync
    BY <1>2, <1>7, FailSyncStep
<1>8. ASSUME NEW kept \in synced .. Len(wal), CrashAndReopen(kept) PROVE DInv'
    BY <1>2, <1>8, CrashStep
<1>9. CASE UNCHANGED durVars
    <2>1. /\ UNCHANGED <<clock, nextTxn, active, written, chain, page, exists>>
          /\ UNCHANGED <<wal, synced, disk, diskIds, batchOpen, committing, causes, budget>>
        BY <1>9 DEF durVars, vars, registryVars, logVars, diskVars
    <2>2. /\ \A k \in Keys : /\ ReadAutoCommit(k)' = ReadAutoCommit(k) /\ Pending(k)' = Pending(k)
                             /\ OnlyBatch(k)' = OnlyBatch(k)
          /\ \A t, k : OwnNewest(t, k)' = OwnNewest(t, k)
        BY <2>1 DEF ReadAutoCommit, ResolveVisible, CommittedBase, Pending, OnlyBatch, OwnNewest
    <2>3. \A n : \A k \in Keys : Sound(n, k)' = Sound(n, k)
        BY <2>1, <2>2 DEF Sound
    <2>4. DurabilityType' /\ WritesHaveDeltas'
        BY <2>1 DEF DInv, DurabilityType, WritesHaveDeltas
    <2>5. CommitIsLogged' /\ UnmarkedIsHarmless'
        BY <2>1, <2>2 DEF DInv, CommitIsLogged, UnmarkedIsHarmless
    <2>6. WholeLogIsSound' /\ EveryCutIsSound'
        BY <2>1, <2>2, <2>3 DEF DInv, WholeLogIsSound, EveryCutIsSound
    <2> QED
        BY <2>4, <2>5, <2>6 DEF DInv
<1> QED
    BY <1>2, <1>3, <1>4, <1>5, <1>6, <1>7, <1>8, <1>9 DEF NextDurability

\* What a crash leaves of a key in good order.
LEMMA CrashIsExact ==
    ASSUME TypeInv, IInv, DInv, NEW kept \in synced .. Len(wal), CrashAndReopen(kept)
    PROVE  RecoversExactly({})
<1>0. wal \in Seq(LogRecord) /\ Len(wal) \in Nat /\ kept \in 0 .. Len(wal)
    BY LenProperties DEF DInv, DurabilityType
<1>1. page' = ReplayRecords(SubSeq(wal, 1, kept))
    BY DEF CrashAndReopen
<1>2. ASSUME NEW k \in Keys, causes[k] = {}, kept < Len(wal) \/ ~ Pending(k)
      PROVE  page'[k] = ReadAutoCommit(k)
    <2>1. Recovers(wal, kept, k, ReadAutoCommit(k), disk[k], page[k])
        BY <1>2 DEF DInv, EveryCutIsSound, Sound
    <2> QED
        BY <1>0, <1>1, <2>1, ReplayIsRecovery
<1>3. ASSUME NEW k \in Keys, kept = Len(wal), Pending(k)
      PROVE  page'[k] = OwnNewest(committing, k)
    <2>1. PICK j \in Replayed(wal, kept, k) :
              /\ wal[j].val = OwnNewest(committing, k)
              /\ \A i \in 1 .. kept : IsWriteOf(wal[i], k) => i <= j
        BY <1>3 DEF DInv, CommitIsLogged
    <2>2. LastIs(wal, kept, k, wal[j].val)
        BY <1>0, <2>1, LastDecides
    <2>3. Recovers(wal, kept, k, OwnNewest(committing, k), disk[k], page[k])
        BY <2>1, <2>2 DEF Recovers
    <2> QED
        BY <1>0, <1>1, <2>3, ReplayIsRecovery
<1>4. CASE kept < Len(wal)
    <2>1. \A k \in Keys : causes[k] = {} => page'[k] = ReadAutoCommit(k)
        BY <1>2, <1>4
    <2> QED
        BY <2>1 DEF RecoversExactly
<1>5. CASE kept = Len(wal)
    <2>1. ASSUME NEW k \in Keys, causes[k] = {}
          PROVE  page'[k] = IF committing # NoTxn /\ k \in written[committing]
                            THEN OwnNewest(committing, k) ELSE ReadAutoCommit(k)
        BY <1>2, <1>3, <1>5, <2>1 DEF Pending
    <2> QED
        BY <2>1 DEF RecoversExactly
<1> QED
    BY <1>0, <1>4, <1>5

\* Only a crash spends a life.
LEMMA OnlyCrashReopens ==
    ASSUME DInv, [NextDurability]_durVars, Reopened
    PROVE  \E kept \in synced .. Len(wal) : CrashAndReopen(kept)
<1>1. budget \in Budget
    BY DEF DInv, DurabilityType
<1>2. \/ budget' = budget
      \/ budget.fail > 0 /\ budget' = [budget EXCEPT !.fail = @ - 1]
      \/ budget.batch > 0 /\ budget' = [budget EXCEPT !.batch = @ - 1]
      \/ budget.flush > 0 /\ budget' = [budget EXCEPT !.flush = @ - 1]
      \/ \E kept \in synced .. Len(wal) : CrashAndReopen(kept)
    BY DEF NextDurability, MemoryStep, LogCommit, FailAppend, Rollback, FinishCommit, FailSync, BeginBatch,
           EndBatch, Flush, Checkpoint, Evict, durVars
<1> QED
    BY <1>1, <1>2, BudgetSpent DEF Reopened

\* A crash, at any point and after any history, loses and invents nothing on the
\* records that none of the named causes has touched: commit_txn is durable and
\* atomic on them, in every store, for every number of transactions and crashes.
THEOREM RecoveryHolds == SpecDurability => RecoveryIsExact
<1>1. TypeInv /\ IInv /\ DInv /\ [NextDurability]_durVars => TypeInv' /\ IInv' /\ DInv'
    BY DurableStep
<1>2. TypeInv /\ IInv /\ DInv /\ [NextDurability]_durVars => [Reopened => RecoversExactly({})]_durVars
    BY OnlyCrashReopens, CrashIsExact
<1> QED
    BY <1>1, <1>2, InitDurable, PTL DEF SpecDurability, RecoveryIsExact

=============================================================================
