------------------------------- MODULE WalFile -------------------------------
(***************************************************************************)
(* wal.log as bytes: wal/record.rs, wal/writer.rs and wal/reader.rs.       *)
(*                                                                         *)
(* A record is its length, body and checksum.  A crash leaves a torn       *)
(* record at the end, a bad sector damages bytes anywhere, and the writer  *)
(* of the next opening goes on at the end of the file whatever is there.   *)
(* The reader decodes what it can and, where it cannot, moves on by a byte *)
(* until it can again.  The checksum is taken to find all damage.          *)
(***************************************************************************)
EXTENDS Integers, Sequences, SequencesExt, FiniteSetsExt

CONSTANTS RecordLens,      \* lengths of encoded records
          Threshold,       \* wal_checkpoint_threshold_bytes
          MaxRecords, MaxDamage, MaxWalOpens

ASSUME WalAssumption == RecordLens \subseteq Nat \ {0} /\ Threshold \in Nat

VARIABLES
  bytes,        \* the file: each byte says which record it is of, and where in it
  nextLsn, bytesWritten, checkpointPending,   \* WalWriter and FileBackend
  appended,     \* history: the numbers of the records in the log that nothing has damaged
  records, damage, walOpens

walVars == <<bytes, nextLsn, bytesWritten, checkpointPending, appended, records, damage, walOpens>>

BadByte == [rec |-> 0, at |-> 0, len |-> 0, lsn |-> 0]

InitWal ==
  /\ bytes = <<>> /\ nextLsn = 1 /\ bytesWritten = 0 /\ checkpointPending = FALSE
  /\ appended = {} /\ records = 0 /\ damage = 0 /\ walOpens = 0

\* encode
Encode(rec, len, lsn) == [i \in 1..len |-> [rec |-> rec, at |-> i, len |-> len, lsn |-> lsn]]

\* decode succeeds at an offset where an undamaged record starts.
Decodes(file, o) ==
  /\ file[o].at = 1
  /\ o + file[o].len - 1 <= Len(file)
  /\ \A i \in 1..file[o].len : file[o + i - 1] = [file[o] EXCEPT !.at = i]

\* Mutant: the scan gives up at the first record that does not decode.
ReadAll_StopAtDamage(file) ==
  LET scan[o \in 1..Len(file) + 1] ==
        IF o > Len(file) THEN [found |-> <<>>, skipped |-> 0]
        ELSE IF Decodes(file, o)
        THEN LET rest == scan[o + file[o].len]
             IN [rest EXCEPT !.found = <<file[o].rec>> \o @]
        ELSE [found |-> <<>>, skipped |-> 1]
  IN scan[1]

\* WalRecordIter::next to the end: one region is counted where the scan starts
\* to move by bytes.
ReadAll(file) ==
  LET scan[o \in 1..Len(file) + 1] == [lost \in BOOLEAN |->
        IF o > Len(file) THEN [found |-> <<>>, skipped |-> 0]
        ELSE IF Decodes(file, o)
        THEN LET rest == scan[o + file[o].len][FALSE]
             IN [found |-> <<file[o].rec>> \o rest.found, skipped |-> rest.skipped]
        ELSE LET rest == scan[o + 1][TRUE]
             IN [found |-> rest.found, skipped |-> rest.skipped + IF lost THEN 0 ELSE 1]]
  IN scan[1][FALSE]

\* recover_next_lsn: unlike the reader it stops where it cannot decode.
IntactPrefix(file) ==
  LET scan[o \in 1..Len(file) + 1] ==
        IF o > Len(file) THEN [bytes |-> o - 1, lsn |-> 0]
        ELSE IF Decodes(file, o)
        THEN LET rest == scan[o + file[o].len] IN [rest EXCEPT !.lsn = Max({@, file[o].lsn})]
        ELSE [bytes |-> o - 1, lsn |-> 0]
  IN scan[1]

\* WalWriter::append and note_wal_growth.
AppendRecord(len) ==
  /\ records < MaxRecords
  /\ records' = records + 1
  /\ bytes' = bytes \o Encode(records', len, nextLsn)
  /\ appended' = appended \cup {records'}
  /\ nextLsn' = nextLsn + 1 /\ bytesWritten' = bytesWritten + len
  /\ checkpointPending' = (checkpointPending \/ bytesWritten' > Threshold)
  /\ UNCHANGED <<damage, walOpens>>

\* wal_checkpoint_and_truncate: the numbering goes on.
CheckpointAndTruncate ==
  /\ bytes # <<>>
  /\ bytes' = <<>> /\ appended' = {}
  /\ nextLsn' = nextLsn + 1 /\ bytesWritten' = 0 /\ checkpointPending' = FALSE
  /\ UNCHANGED <<records, damage, walOpens>>

\* A byte of the file goes bad.
DamageByte(o) ==
  /\ damage < MaxDamage /\ o \in DOMAIN bytes /\ bytes[o] # BadByte
  /\ damage' = damage + 1
  /\ bytes' = [bytes EXCEPT ![o] = BadByte]
  /\ appended' = appended \ {bytes[o].rec}
  /\ UNCHANGED <<nextLsn, bytesWritten, checkpointPending, records, walOpens>>

\* WalWriter::open after a crash that kept the first `keep` bytes and after a
\* recovery that found nothing to replay, which leaves the file as it is.
OpenWal(keep) ==
  LET left == SubSeq(bytes, 1, keep) IN
  /\ walOpens < MaxWalOpens
  /\ walOpens' = walOpens + 1
  /\ bytes' = left
  /\ appended' = { r \in appended : \E o \in 1..keep : bytes[o].rec = r /\ Decodes(left, o) }
  /\ nextLsn' = IntactPrefix(left).lsn + 1 /\ bytesWritten' = IntactPrefix(left).bytes
  /\ checkpointPending' = FALSE
  /\ UNCHANGED <<records, damage>>

NextWal ==
  \/ \E len \in RecordLens : AppendRecord(len)
  \/ CheckpointAndTruncate
  \/ \E o \in DOMAIN bytes : DamageByte(o)
  \/ \E keep \in 0..Len(bytes) : OpenWal(keep)

SpecWal == InitWal /\ [][NextWal]_walVars

-----------------------------------------------------------------------------
\* Recovery finds every record that was appended and not damaged, in order,
\* and nothing else: behind a torn tail that a later opening wrote on after,
\* and between two damaged regions.
EveryIntactRecordIsRead ==
  LET found == ReadAll(bytes).found
  IN /\ { found[i] : i \in DOMAIN found } = appended
     /\ \A i, j \in DOMAIN found : i < j => found[i] < found[j]

\* A damaged stretch of the file is a maximal run of bytes of no intact record.
CorruptRegions(file) ==
  LET intact == { o \in DOMAIN file : file[o] # BadByte /\ Decodes(file, o - file[o].at + 1) }
  IN { o \in DOMAIN file \ intact : o = 1 \/ o - 1 \in intact }

\* skipped_corrupt_regions counts "contiguous corrupt byte regions", not bytes
\* and not records.
RegionsAreCounted == ReadAll(bytes).skipped = Cardinality(CorruptRegions(bytes))

\* Records come "in order of appearance (by LSN)".
LsnsIncrease ==
  \A a, b \in DOMAIN bytes :
    a < b /\ Decodes(bytes, a) /\ Decodes(bytes, b) => bytes[a].lsn < bytes[b].lsn

\* Recovery reads all that is intact behind damage, and reports the damage by
\* regions (WalReader::read_all).
LogIsReadWhole ==
  EveryIntactRecordIsRead /\ RegionsAreCounted

=============================================================================
