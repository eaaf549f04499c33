---------------------------- MODULE SchemaCatalog ----------------------------
(***************************************************************************)
(* What DDL declares: indexes, unique constraints and append-only labels   *)
(* (schema/), kept in memory and in schema.bin, and the nodes that a       *)
(* declaration of the last kind exempts from versions: their reads go      *)
(* straight to the page, so they must never have a delta chain, also when  *)
(* the label was declared, withdrawn and declared again, and after any     *)
(* number of restarts.                                                     *)
(***************************************************************************)
EXTENDS Integers, SequencesExt, FiniteSetsExt, Functions, TLC, LittleEndianBytes

CONSTANTS
  Labels,             \* labels, as their bytes
  Entries,            \* pairs of a label and a property name, as their bytes
  BoundBytes,         \* bytes of since_node_id: 8
  MaxNodeId,          \* ids of the bounded instance
  MaxDdl, MaxOpens    \* statements and restarts of the bounded instance

VARIABLES
  catalog,       \* SchemaCatalog
  schemaBin,     \* the bytes of schema.bin; none when there is no such file
  nodeLabel,     \* the committed nodes: id -> label
  pending,       \* the nodes written in a transaction that is open: id -> label
  chained,       \* the ids that have a delta chain
  fastIds,       \* append_only_node_ids
  nextNodeId, flushedNext,   \* next_node_id in memory and in graph.meta
  saved,         \* history: the last change of the catalog was acknowledged
  ddls, opens

schemaVars == <<catalog, schemaBin, nodeLabel, pending, chained, fastIds,
                nextNodeId, flushedNext, saved, ddls, opens>>

Empty == [x \in {} |-> 0]
EmptyCatalog == [indexes |-> {}, constraints |-> {}, appendOnly |-> Empty]

InitSchema ==
  /\ catalog = EmptyCatalog /\ schemaBin = <<>>
  /\ nodeLabel = Empty /\ pending = Empty /\ chained = {} /\ fastIds = {}
  /\ nextNodeId = 1 /\ flushedNext = 1
  /\ saved = TRUE /\ ddls = 0 /\ opens = 0

----------------------------------------------------------------------------
(* SchemaCatalog                                                           *)

\* mark_label_append_only: a declared label keeps the bound it has, since two
\* declarations of a label are equal whatever their bounds.
MarkAppendOnly(c, label, since) ==
  IF label \in DOMAIN c.appendOnly THEN c
  ELSE [c EXCEPT !.appendOnly = (label :> since) @@ @]

UnmarkAppendOnly(c, label) ==
  [c EXCEPT !.appendOnly = Restrict(@, DOMAIN @ \ {label})]

IsAppendOnly(c, label) == label \in DOMAIN c.appendOnly

\* append_only_since and is_covered_by_append_only.
Covered(c, label, id) == IsAppendOnly(c, label) /\ id >= c.appendOnly[label]

----------------------------------------------------------------------------
(* schema.bin                                                              *)

\* SCHEMA_MAGIC ("TGSC"), SCHEMA_VERSION and the padding.
Preamble == <<84, 71, 83, 67>> \o LittleEndian(1, 2) \o <<0, 0>>
HeaderSize == 16

\* write_label and write_entry.
LabelBytes(label) == LittleEndian(Len(label), 2) \o label
PairBytes(e) == LabelBytes(e[1]) \o LabelBytes(e[2])

\* The entries of a hash set in some order.
Concat(set, Bytes(_)) == FoldLeft(LAMBDA acc, x : acc \o Bytes(x), <<>>, SetToSeq(set))

\* serialize: no bytes for an empty catalog, no append-only block when there
\* is nothing to put there.
Serialize(c) ==
  LET bound(label) == LabelBytes(label) \o LittleEndian(c.appendOnly[label], BoundBytes)
      block == LittleEndian(Cardinality(DOMAIN c.appendOnly), 4)
                 \o Concat(DOMAIN c.appendOnly, bound)
  IN  IF c = EmptyCatalog THEN <<>>
      ELSE Preamble \o LittleEndian(Cardinality(c.indexes), 4)
             \o LittleEndian(Cardinality(c.constraints), 4)
             \o Concat(c.indexes, PairBytes) \o Concat(c.constraints, PairBytes)
             \o (IF c.appendOnly = Empty THEN <<>> ELSE block)

\* The reader carries its position; a read past the end is an error, and
\* after an error nothing more is read.
Fail(r) == [r EXCEPT !.ok = FALSE]
Left(r) == Len(r.bytes) - r.pos
Ahead(r, w) == SubSeq(r.bytes, r.pos + 1, r.pos + w)

\* read_u16, read_u32 and read_str: the next w bytes, in r.got.
Take(r, w) ==
  IF ~r.ok \/ Left(r) < w THEN Fail(r)
  ELSE [r EXCEPT !.pos = @ + w, !.got = Ahead(r, w)]

\* read_label
ReadLabel(r) == LET n == Take(r, 2) IN IF n.ok THEN Take(n, FromLittle(n.got)) ELSE n

\* read_entry, into the indexes or the constraints.
ReadEntry(r, part) ==
  LET label == ReadLabel(r)
      prop == ReadLabel(label)
  IN  IF prop.ok THEN [prop EXCEPT !.cat[part] = @ \cup {<<label.got, prop.got>>}] ELSE prop

\* An append-only entry: its bound is absent only at the very end of the file.
ReadAppendOnly(r) ==
  LET label == ReadLabel(r)
      since == Take(label, BoundBytes)
  IN  IF ~label.ok THEN label
      ELSE IF since.ok
      THEN [since EXCEPT !.cat = MarkAppendOnly(@, label.got, FromLittle(since.got))]
      ELSE IF Left(label) > 0 THEN Fail(label)
      ELSE [label EXCEPT !.cat = MarkAppendOnly(@, label.got, 0)]

\* deserialize: the header, the entries its counts announce, and the block if
\* bytes remain.
Deserialize(bytes) ==
  LET start == [ok |-> TRUE, bytes |-> bytes, pos |-> HeaderSize, got |-> <<>>, cat |-> EmptyCatalog]
      count(at) == FromLittle(SubSeq(bytes, at + 1, at + 4))
      repeat(n, r, Read(_)) ==
        LET after[k \in 0..n] == IF k = 0 THEN r ELSE Read(after[k - 1]) IN after[n]
      index(r) == ReadEntry(r, "indexes")
      constraint(r) == ReadEntry(r, "constraints")
      entries == repeat(count(12), repeat(count(8), start, index), constraint)
      block == Take(entries, 4)
  IN  IF Len(bytes) < HeaderSize \/ SubSeq(bytes, 1, 6) # SubSeq(Preamble, 1, 6)
        THEN [ok |-> FALSE, cat |-> EmptyCatalog]
      ELSE LET end == IF ~entries.ok \/ Left(entries) = 0 THEN entries
                      ELSE IF ~block.ok THEN block
                      ELSE repeat(FromLittle(block.got), block, ReadAppendOnly)
           IN  [ok |-> end.ok, cat |-> end.cat]

----------------------------------------------------------------------------
(* DDL                                                                     *)

\* persist_schema: an empty catalog is not written.  The write replaces the
\* file as a whole or fails and leaves it.
Persisted(c) == IF c = EmptyCatalog THEN schemaBin ELSE Serialize(c)

\* dispatch_ddl: the catalog changes, then it is written; the statement is
\* acknowledged when it was.
Declare(c) ==
  /\ ddls < MaxDdl /\ ddls' = ddls + 1
  /\ catalog' = c
  /\ \/ schemaBin' = Persisted(c) /\ saved' = TRUE
     \/ schemaBin' = schemaBin /\ saved' = FALSE
  /\ UNCHANGED <<nodeLabel, pending, chained, nextNodeId, flushedNext, opens>>

CreateIndex(e) == Declare([catalog EXCEPT !.indexes = @ \cup {e}]) /\ UNCHANGED fastIds
DropIndex(e) == Declare([catalog EXCEPT !.indexes = @ \ {e}]) /\ UNCHANGED fastIds
CreateConstraint(e) == Declare([catalog EXCEPT !.constraints = @ \cup {e}]) /\ UNCHANGED fastIds
DropConstraint(e) == Declare([catalog EXCEPT !.constraints = @ \ {e}]) /\ UNCHANGED fastIds

\* Mutant: the nodes that have the label already are exempted too.
DeclareAppendOnly_Retroactive(label) ==
  /\ Declare(MarkAppendOnly(catalog, label, nextNodeId))
  /\ fastIds' = fastIds \cup {i \in DOMAIN nodeLabel : nodeLabel[i] = label}

\* set_label_append_only, on: from the next id.
DeclareAppendOnly(label) ==
  Declare(MarkAppendOnly(catalog, label, nextNodeId)) /\ UNCHANGED fastIds

\* set_label_append_only, off: the label's nodes get versions again.
WithdrawAppendOnly(label) ==
  /\ Declare(UnmarkAppendOnly(catalog, label))
  /\ fastIds' = fastIds \ {i \in DOMAIN nodeLabel : nodeLabel[i] = label}

----------------------------------------------------------------------------
(* Nodes                                                                   *)

NewId == nextNodeId <= MaxNodeId /\ nextNodeId' = nextNodeId + 1
Unwritten == UNCHANGED <<catalog, schemaBin, saved, ddls, opens, flushedNext>>

\* add_node_str: the node is exempt when its label is declared.
AddNode(label) ==
  /\ NewId
  /\ nodeLabel' = (nextNodeId :> label) @@ nodeLabel
  /\ fastIds' = IF IsAppendOnly(catalog, label) THEN fastIds \cup {nextNodeId} ELSE fastIds
  /\ Unwritten /\ UNCHANGED <<pending, chained>>

\* add_node_in_txn refuses a declared label before it takes an id.
AddNodeTxn(label) ==
  /\ ~IsAppendOnly(catalog, label)
  /\ NewId
  /\ pending' = (nextNodeId :> label) @@ pending
  /\ chained' = chained \cup {nextNodeId}
  /\ Unwritten /\ UNCHANGED <<nodeLabel, fastIds>>

\* update_node_in_txn and remove_node_in_txn: reject_if_append_only, then a
\* delta on the node's chain.
WriteTxn(i) ==
  /\ i \notin fastIds
  /\ pending' = (i :> nodeLabel[i]) @@ pending
  /\ chained' = chained \cup {i}
  /\ Unwritten /\ UNCHANGED <<nodeLabel, fastIds, nextNodeId>>

\* The transaction commits, or rolls back and its chains go.
EndTxn ==
  /\ pending # Empty /\ pending' = Empty
  /\ \/ nodeLabel' = pending @@ nodeLabel /\ UNCHANGED chained
     \/ nodeLabel' = nodeLabel /\ chained' = chained \ DOMAIN pending
  /\ Unwritten /\ UNCHANGED <<fastIds, nextNodeId>>

\* The chains of committed writes are dropped once nobody needs them.
Vacuum ==
  /\ chained # DOMAIN pending /\ chained' = DOMAIN pending
  /\ Unwritten /\ UNCHANGED <<nodeLabel, pending, fastIds, nextNodeId>>

\* remove_node outside a transaction; the set of exempt ids is not touched.
RemoveNode(i) ==
  /\ i \notin DOMAIN pending
  /\ nodeLabel' = Restrict(nodeLabel, DOMAIN nodeLabel \ {i})
  /\ Unwritten /\ UNCHANGED <<pending, chained, fastIds, nextNodeId>>

\* A node of one label is given another; no statement of the server does so.
Relabel(i, label) ==
  /\ i \notin DOMAIN pending /\ label # nodeLabel[i]
  /\ nodeLabel' = [nodeLabel EXCEPT ![i] = label]
  /\ Unwritten /\ UNCHANGED <<pending, chained, fastIds, nextNodeId>>

----------------------------------------------------------------------------
(* Flush and restart                                                       *)

\* The catalog's branch of flush, and the meta page.
FlushSchema ==
  /\ flushedNext' = nextNodeId
  /\ schemaBin' = Persisted(catalog) /\ saved' = TRUE
  /\ UNCHANGED <<catalog, nodeLabel, pending, chained, fastIds, nextNodeId, ddls, opens>>

\* The exempt nodes as the two rebuilds of open find them.
Rebuilt(c) == {i \in DOMAIN nodeLabel : Covered(c, nodeLabel[i], i)}

\* open after a crash: the catalog is loaded before the rebuild, a file that
\* does not parse counts as none, and ids go on from the meta page or the
\* largest node.
ReopenSchema ==
  /\ opens < MaxOpens /\ opens' = opens + 1
  /\ LET file == Deserialize(schemaBin)
         loaded == IF schemaBin # <<>> /\ file.ok THEN file.cat ELSE EmptyCatalog
     IN  catalog' = loaded /\ fastIds' = Rebuilt(loaded)
  /\ pending' = Empty /\ chained' = {}
  /\ nextNodeId' = Max({flushedNext} \cup {i + 1 : i \in DOMAIN nodeLabel})
  /\ saved' = TRUE
  /\ UNCHANGED <<schemaBin, nodeLabel, flushedNext, ddls>>

NextSchema ==
  \/ \E e \in Entries :
       CreateIndex(e) \/ DropIndex(e) \/ CreateConstraint(e) \/ DropConstraint(e)
  \/ \E l \in Labels : DeclareAppendOnly(l) \/ WithdrawAppendOnly(l)
  \/ \E l \in Labels : AddNode(l) \/ AddNodeTxn(l)
  \/ \E i \in DOMAIN nodeLabel : WriteTxn(i) \/ RemoveNode(i)
  \/ EndTxn \/ Vacuum \/ FlushSchema \/ ReopenSchema

----------------------------------------------------------------------------
(* Properties.                                                             *)

\* A node whose reads go straight to the page has no delta chain that they
\* would miss: not after its label was withdrawn and declared again, nor with
\* a transaction open across the declaration.
FastPathHasNoChain == fastIds \cap chained = {}

\* A restart would exempt no node that is not exempt now: a node freed by a
\* withdrawal is not taken again, and one written in a transaction never.
RebuildCapturesNoOther == Rebuilt(catalog) \subseteq fastIds

\* A declaration that was acknowledged is in schema.bin as it stands, with its
\* bound (the withdrawal of the last one is not written).
DeclarationsAreDurable ==
  (saved /\ catalog # EmptyCatalog) => Deserialize(schemaBin) = [ok |-> TRUE, cat |-> catalog]

\* A file cut short is an error or says less: no declaration it does not hold,
\* and no bound other than the one it has or 0.
TruncationInventsNothing ==
  LET whole == Serialize(catalog) IN
  \A n \in 0..(Len(whole) - 1) :
    LET cut == Deserialize(SubSeq(whole, 1, n))
    IN  cut.ok => /\ cut.cat.indexes = catalog.indexes
                  /\ cut.cat.constraints = catalog.constraints
                  /\ DOMAIN cut.cat.appendOnly \subseteq DOMAIN catalog.appendOnly
                  /\ \A l \in DOMAIN cut.cat.appendOnly :
                       cut.cat.appendOnly[l] \in {0, catalog.appendOnly[l]}

\* What was withdrawn is withdrawn in schema.bin as well, the last declaration
\* included.
WithdrawalsAreDurable ==
  saved => IF schemaBin = <<>> THEN catalog = EmptyCatalog
           ELSE Deserialize(schemaBin).cat = catalog

\* A file from before the bounds, which ends each entry at its label, says the
\* same declarations with the bound 0.
OldFilesRead ==
  LET old == Preamble \o LittleEndian(0, 4) \o LittleEndian(0, 4)
               \o LittleEndian(Cardinality(DOMAIN catalog.appendOnly), 4)
               \o Concat(DOMAIN catalog.appendOnly, LabelBytes)
  IN  catalog.appendOnly # Empty =>
      Deserialize(old).cat.appendOnly = [l \in DOMAIN catalog.appendOnly |-> 0]

\* The rebuild finds exactly the exempt nodes that are left.
RebuildReproduces == Rebuilt(catalog) = fastIds \cap DOMAIN nodeLabel

\* Declarations do what they promise across withdrawals, open transactions,
\* restarts and damage: exempt nodes have no versions, a restart exempts no
\* other node, and schema.bin holds what was acknowledged and nothing else.
CatalogIsSound ==
  /\ FastPathHasNoChain /\ RebuildCapturesNoOther
  /\ DeclarationsAreDurable /\ TruncationInventsNothing

=============================================================================
