# Verification of ermya-graph

A TLA+ development for the ermya-graph database (the crates of this repository):
models of its transaction engine, its store and storage formats, its recovery and
backups, its server, its wire protocol and its query language, checked by TLC on
small instances, with TLAPS proofs, for every instance, about the engine, its
indexes, its recovery, the log, the store's indexes, the page cache, the sessions,
start-up and users.

`PROJECT.json` holds the inventory in machine-readable form: components, runs,
the source lines each definition stands for (`map`), the hazards the properties
are aimed at, the findings, and the theorems.

Contents: [1 System](#1-the-system) · [2 Modules](#2-modules-and-the-code-they-model)
· [3 Runs](#3-what-the-runs-check) · [4 Proofs](#4-what-is-proved)
· [5 Findings](#5-disagreements-between-the-code-and-its-words)
· [6 Limits](#6-what-is-left-out) · [7 Plan](#7-plan)

## 1 The system

ermya-graph is a property-graph database. A server accepts Bolt connections; a
session per connection turns each message into calls on one shared `Graph`;
the graph keeps records in fixed-size page slots behind a buffer pool and a
write-ahead log, and, with MVCC enabled, keeps uncommitted and recent versions
in delta chains above the pages.

```
 client -- Bolt, PackStream --> listener, limiters, audit     crates/ermya-graph-protocol
                                   |                          crates/ermya-graph-server
                    BoltHandler (one per connection)
                       |  Cypher front end, GQL lexer, parser, compiler
                       |  GraphAccessor (open_txn, implicit batch)
                       v
                    SharedGraph: RwLock<Graph>                crates/ermya-graph
                       |            |            ^
                mvcc: clock,    category B:      | vacuum task (periodic)
                registry,       label/property   |
                delta chains    indexes, counts,
                       |        adjacency
                       v            v
                    page slots in the buffer pool  -->  data files, graph.meta, index.bin
                       |
                    write-ahead log (BufWriter, fsync)  -->  wal.log
```

| Component | State | Operations | What is hard about it | What makes it correct |
|---|---|---|---|---|
| MVCC engine (`mvcc/*`, `graph.rs` begin/write/commit/rollback/vacuum) | clock, registry of live transactions (snapshot, memory used, written keys, overlay), delta chains, page slots, existence sets, id counters | `begin_txn`, six `*_in_txn` writers, `commit_txn`, `rollback_txn`, `vacuum_once`, reads | transactions interleave method by method; commits and writes may fail midway; the vacuum rewrites pages under live readers | snapshots do not move; commits are whole; nothing uncommitted outlives its transaction; whatever is readable can be enumerated |
| Derived structures ("category B") | label indexes, property index, pair index, counts | additions at commit, removals at vacuum; save, load, rebuild | one structure serves readers at different snapshots; additions and removals are computed from different ends of the chain | an index covers every version someone reads and names no record that is gone; counters equal what they count |
| Write-ahead log and recovery (`wal/*`, `storage/file.rs`) | log records, synced length, data files, meta | append, sync, checkpoint+truncate, replay at open | crash between any two writes; sync failures; torn and damaged records; ids that restart; log order versus version order | a reopened store holds the committed versions, and whole transactions only; every undamaged record is read |
| Buffer pool | frames, dirty bits, LRU list | fetch, evict, flush | write-back at any moment; a miss in two phases | it is a memory; the list links what is cached |
| Graph store, adjacency, slabs (`graph.rs`, `adj*`) | node/edge slots, adjacency heads and pages, two caches, the open batch | auto-commit writers, linking, unlinking, growth of a list, flush, open | shared pages; deferred linking in a batch; caches of what moves | edge lists agree with the edges; sub-blocks do not overlap |
| Overflow pages, free list, string heap, codecs | blobs, chains, directory pages, offsets | put, free, append, encode, decode | release of the old against write of the new; lengths kept twice | no page owned twice or lost; what is written is read back |
| Schema catalog and constraints | declarations, `schema.bin`, exempt nodes | DDL, checks on write, restart | declarations across open transactions and restarts | exempt nodes have no chain; unique values stay unique |
| Backup and restore | directories and their siblings | snapshot, restore, reconcile | any file operation fails; killed at any point | the original or the snapshot, never a mixture |
| Bolt session handler (`handler.rs`) | FAILED state, accessor, open transaction, implicit batch counter, cursor | RUN, PULL, DISCARD, BEGIN, COMMIT, ROLLBACK, RESET, GOODBYE, disconnect | sessions share one `batch_depth`; engine calls fail after session state changed; a rebind drops the accessor | acknowledged writes become durable; a session's transaction is ended by that session; results are whole |
| Bolt protocol, PackStream, client, import | buffers, pipelined requests | framing, calls, drain | messages in pieces, failures behind pipelined requests | both ends stay in step; bytes mean one value |
| Limiters, listener, audit, start-up, identity | windows, buckets, permits, channel, files, lock, users | per connection, per event, per statement | bursts, full channels, drains, two processes, two administrators | limits hold, losses are counted, one process inside, somebody administers |
| GQL and Cypher front ends, query execution, searches | none across statements | rewrite, lex, parse, substitute, match, group, order, search | several implementations of one meaning; shortcuts | the implementations agree with each other and with the definition |
| Mutation executor | the graph, between lookup and write | CREATE, SET, DELETE, MERGE, UNWIND | read-then-write under two locks | what is reported is what happened; constraints and edges survive the interleaving |

Components interact by plain calls under one `RwLock<Graph>` (`SharedGraph`): a
method of `Graph` is atomic with respect to every other, and all interleaving
happens between methods. This is the granularity of the models of the graph.
Crashes are the exception: they may fall inside a method, and `Durability`,
`OverflowStore` and `Backup` split their operations where that matters. The
server's own state (limiters, users, audit channel) is under locks of its own,
taken one at a time, and the models step at those.

## 2 Modules and the code they model

| Module | Models | Builds on |
|---|---|---|
| `Mvcc` | the transaction engine | |
| `SnapshotStore` | what the engine promises: begin-time snapshots, atomic commits | |
| `MvccRefinement` | the mapping from `Mvcc` to `SnapshotStore` | `Mvcc`, instance of `SnapshotStore` |
| `MvccIndex` | label and property indexes and counts under transactions | `Mvcc` |
| `Durability` | log, sync, checkpoint, eviction, crash, replay | `Mvcc` |
| `AdjacencyPages`, `GraphStore` | slab pages and chains; the auto-commit writers, batches, caches, indexes and reopening over them | `GraphStore` on `AdjacencyPages` |
| `BufferPool` | the page cache | |
| `OverflowStore` | overflow chains, slabs of blobs, free list | |
| `StringHeap` | the string heap and its cursor after a crash | |
| `WalFile` | the log as bytes: torn and damaged records | |
| `RecordSlot` | the bytes of properties and of slots | `LittleEndianBytes` |
| `SchemaCatalog` | declarations, `schema.bin`, append-only labels | `LittleEndianBytes` |
| `Backup` | snapshot, restore, reconcile | |
| `BoltSession` | transactions and batches of Bolt sessions over one shared graph | |
| `PackStream`, `BoltWire` | the values of the protocol; a connection byte by byte, with both ends | `BoltWire` on `PackStream` |
| `ImportPipeline` | the pipelined import of the command line | |
| `ConnectionFront` | accept loop, permits, connection caps, log-in windows, shutdown | |
| `Throttle` | token buckets for queries and bytes | |
| `AuditLog` | channel, writer, rotation, slow-query gate | |
| `UserStore` | users in the system graph and their map | |
| `StartUp` | lock, layout guard, first administrator, flush at the end | |
| `GqlExpr`, `GqlMatch`, `GqlExecute` | values and expressions, patterns, and the executors of read queries | in that order |
| `GraphSearch` | traversals and path searches, one iteration a step | |
| `GqlLex`, `GqlParse` | tokens, statements, parameters | `GqlExpr` |
| `GqlMutate` | statements that write, with two clients | `GqlExecute` |
| `CypherFront` | the rewriting of Cypher | |
| `MvccProofs` | proofs about the engine | `Mvcc` |
| `MvccReadProofs` | proofs of the refinement, of the counts and of the label entries | `MvccProofs`, `MvccRefinement`, `MvccIndex` |
| `DurabilityProofs` | proof of recovery | `MvccProofs`, `Durability` |
| `BoltSessionProofs` | proofs about sessions | `BoltSession` |
| `StorageProofs` | proofs about the page cache, restores, the string heap and the log | `BufferPool`, `Backup`, `StringHeap`, `WalFile` |
| `OverflowProofs` | proofs about the overflow pages and their free list | `OverflowStore` |
| `GraphStoreProofs` | proofs about the store's existence sets, indexes and counts | `GraphStore` |
| `ServerProofs` | proofs about the server parts and the import | `StartUp`, `UserStore`, `ConnectionFront`, `Throttle`, `AuditLog`, `ImportPipeline` |
| `MC*` | the instances TLC checks | |

### Mvcc

State: `clock` is `TxnClock`; `nextTxn`, `active`, `startTs`, `used`, `written`,
`pending` are the fields of `TxnRegistry`; `chain` is the `DeltaTable`; `page` is
the version the buffer pool holds in each record's slot; `exists` is
`node_exists` and `edge_exists`; `nextNode` and `nextEdge` are the id counters of
the meta page.

A chain is the set of its deltas ordered by `pos`, their push order. The code
keeps a vector with the newest first; every function on it picks a newest or an
oldest element, maps over all, or filters, so the set says the same. A version is
a value or `Absent`; `Absent` stands for `None`, for `EntitySnapshot::Deleted` and
for a slot that is not live, which all readers treat alike. The memory a
transaction uses is counted in deltas.

| Action | Code |
|---|---|
| `BeginTxn` | `Graph::begin_txn`; its second disjunct is a failed append of the Begin marker |
| `AddNodeInTxn` ... `RemoveEdgeInTxn` | the six writers: visibility check, id allocation, `charge_txn_memory` (over the cap: the whole transaction is rolled back), then `push_txn_delta` |
| `CommitTxn` | all phases of `commit_txn` once the log is durable: stamp, reconcile the additions (existence and, for a new edge, the slot writes of `persist_adj_pointer_to_slot`), end |
| `CommitTxnFails` | a log error: the timestamp is spent, nothing else changes |
| `RollbackTxn` | `rollback_txn`; the same state whether or not the marker reached the log |
| `VacuumOnce` | `vacuum_once`: drain, write pages, remove from the existence set |

Two details of the code shape the model. `commit_txn` draws its timestamp before
it writes the log, so failed commits leave gaps. And linking an edge into an
endpoint's adjacency writes the endpoint's *whole slot* from the newest committed
version when the slot is not live yet (`MaterializedAtCommit`), which is a page
write before the vacuum.

### SnapshotStore and MvccRefinement

`SnapshotStore` has committed versions `db` and, per live transaction, a snapshot,
its writes, and the records others committed since it began. It states what a
client may rely on, and no more: the engine checks no write-write conflicts, so
the commit of a record that an overlapping transaction committed meanwhile keeps
one of the two versions, whichever was *written* last. The mapping computes the
snapshot from chains and pages; it is stored nowhere in the engine.

### MvccIndex

`labelIdx`, `propIdx`, `nodeCount`, `edgeCount` beside the engine's state.
`ReconcileCommitted` is `reconcile_committed_delta` over the records a
transaction wrote, `ReconcileVacuumed` is `apply_vacuum_category_b` over the
drained chains. They are conjoined to the engine's `CommitTxn` and `VacuumOnce`,
as the code calls them inside those methods.

### Durability

`wal` is the log with the writer's buffer, `synced` the prefix the last
successful sync covers, `disk` the slots in the data files, `diskIds` the meta
counters on disk, `batchOpen` whether any session has a batch open. A commit is
two steps, `LogCommit` and `FinishCommit` (or `FailSync`), with the lock held
between them (`committing`): nothing but a crash can fall in the gap. `Evict`
writes one data file's dirty page back; `Checkpoint` is `Graph::flush`;
`CrashAndReopen` keeps any log prefix from the synced one to the whole buffer,
replays it as `replay_records` does and re-initialises the engine as
`Graph::open` and `enable_mvcc` do.

`budget` bounds what the run may spend on crashes, checkpoints, failures and
batches. `causes` is a history variable. The code has six ways to put the recovery of a
record in doubt, each a disagreement with one of its own comments:

| Cause | How |
|---|---|
| `checkpoint` | the log is truncated while a committed version is only in memory |
| `failed` | a commit whose sync failed left its records and marker in the log |
| `reuse` | records of an earlier process's transaction share an id with a later one |
| `order` | two transactions wrote one record and committed in the other order |
| `pointer` | linking an edge logged the page's older version after the commit's redo |
| `batch` | a commit skipped its sync because some session had a batch open |

`RecoveryIsExact` says that a crash is harmless for every record none of the six
has touched since its last clean commit, so the six are *all* there are: TLC
checks it on the run's instances, and section 4 proves it. Each cause has a property that tolerates it and nothing else, and TLC
refutes each of them: none of the exclusions is empty (section 5). A cause is
recorded by the step that introduces it and cleared by a later clean commit,
checkpoint or sync of the record.

### BoltSession

Per connection: open, FAILED, bound (holds an accessor), open transaction, dirty
counter of the implicit batch. Shared: `depth` (`Graph.batch_depth`), the
connections whose acknowledged writes no sync has covered, those among them
whose sync failed (`lost`, history), the live transactions. One action per
message. `Wrote` folds a write's own sync in: it happens only outside a batch.
`AutoFlush` is the threshold in writes and in time; the time threshold may be
reached at any mutation, so it is a free choice.

### AdjacencyPages and GraphStore

The store without transactions: nodes and edges in slots, each node's two edge
lists as chains of sub-blocks on shared pages, the cached tail of each list, the
pair index, the label and property indexes, and the batch with its pending links.
One action per writer (`AddNode`, `UpdateNode`, `RemoveNode`, `AddEdge`,
`UpdateEdge`, `RemoveEdge`), `BeginBatch` and `EndBatch` with the linking that
was deferred, `Flush`, `Evict` for the tail cache, and `CloseAndOpen`, which loads
the saved index or rebuilds it from the slots. `AdjacencyPages` has the
arithmetic of a slab page: how many bytes a sub-block of n edges takes, which
page is open, when a list moves to a page of its own.

### The storage parts

Each is a module of its own, and they share no state.

- `BufferPool`: frames, the doubly linked list as its node records, a miss in its
  two phases (the shared lock is given back, and the table is looked at again under
  the exclusive one), eviction with write-back, flush. Any read and any write of a
  file may fail, and a write that fails may leave anything in its place. An eviction
  takes the page out of the pool *before* it writes it, so a page whose eviction
  failed is gone; `lost`, a history variable, names those pages.
- `OverflowStore`: property blobs too long for a slot, on shared pages or in
  chains, and the free list whose directory pages are themselves pages.
- `StringHeap`: appended strings and the cursor that is found again at open.
- `WalFile`: the log's bytes, with records torn off or overwritten, and the scan
  forward for the next header that checks.
- `RecordSlot` (on `LittleEndianBytes`): property maps read
  whole and by projection, and node and edge slots where a label or the properties
  move elsewhere at a given length.
- `SchemaCatalog`: append-only declarations, the bytes of `schema.bin`, its loss,
  and the set of exempt nodes rebuilt at open.
- `Backup`: directories as records of files; each rename, copy, sync and removal
  of `restore_db_files_atomic`, `copy_db_files_atomic` and
  `reconcile_restore_artifacts` is a step that may fail, with kills between steps. A
  staging directory whose clearing failed keeps its files, and the next copy is made
  among them; `clean` in the record of a restore says that this has not happened.

### The server parts

- `ConnectionFront`: accept, permits, the cap per address (which the task reads
  itself), the handshake and HELLO with the window of failed log-ins, shutdown and
  the drain. A failed log-in is two steps, because `record_auth_failure` reads the
  clock before it waits for the lock: failures may be recorded out of order.
  `Expire` drops times from the front of a window only, `CountInWindow` filters, as
  in the code. `failed` is a history variable: all failures since the last success.
- `Throttle`: the token buckets, for queries (refused) and for bytes (delayed),
  shared by the two halves of a connection. A transfer asks for its bytes, is charged
  once and may have to sleep; `asked`, `charged` and `passed` are history variables.
- `AuditLog`: the bounded channel, the counter of refused events, the writer with
  rotation and sync, and the gate of the slow-query log. Every file operation may fail
  (`Outcomes`): the sync, the removal, each rename and the reopening of `rotate`, the
  write of a line, which may leave a part of its text behind, and the sync that is due,
  after which the count starts again although nothing was synced. The end of the task
  is two steps: `SyncLast` after the last empty `try_recv`, and `EndWriter`, which drops
  the receiver with what was sent in between. `lines` is the history of all that was
  written, each line with its number, `reported` and `unreported` the refused events of
  the reports that were written or not, `lost` and `late` the accepted events that a
  failed write or the end of the task lost. `KeepFiles` is at least 1: the code takes
  0 for 1.
- `UserStore`: a statement on users as check, write to the system graph, write to
  the map; two sessions interleave between them, and a restart loads the map from the
  nodes. Password hashes are values that are only compared. `gone` (names dropped and
  not created since) and `twice` (names that two creates at once gave to two nodes)
  are history variables.
- `StartUp`: servers and offline tools taking the lock, looking at the layout,
  making the first administrator, serving, flushing; crashes anywhere. The flush at the
  end may fail, and the lock is given back all the same; a statement that outlives the
  drain of the listener may write until its process has ended (`LateWrite`).
  `unclean`, a history variable, records these and the crashes since the last flush.
- `ImportPipeline`: the producer, the channel, the client that writes batches of
  RUN and PULL and drains the answers, and a server that may refuse a RUN, or a PULL
  whose RUN it has executed. `executed` and `answered` tell the two apart.

### PackStream and BoltWire

`PackStream` is the codec at the level of bytes, with the server's conversions of
nodes, relationships and paths. `BoltWire` is one connection: two pipes that cut
what is written anywhere and may break, a client that calls (`run`, `execute`,
`pull`, `discard`, `reset`, raw bytes), and a server that shakes hands, reads
chunks and messages, and answers from its FAILED state and its cursor.

### The query language

`GqlLex` and `GqlParse` go from characters to tokens and from tokens to
statements; the model also has the inverse, how a client writes a statement
without needless parentheses, and the two must meet. `GqlExpr` has the values
with three-valued logic, sort order and aggregates, and the three evaluators
the engine has for one expression language; `GqlMatch` patterns; `GqlExecute` the
executors: single query, aggregate pushdown, UNWIND, WITH pipeline. Beside the nodes a
graph has `old`, the versions that commits have replaced or deleted and whose index
entries wait for the vacuum: the indexes list an id under each of them (`Indexed`), so
candidates are a superset, of which matching keeps the visible nodes that satisfy the
pattern. Rows are sorted in two ways, as in the code: by `compare_sort_keys`, with NULL
last, and under GROUP BY and UNWIND by `gql_value_cmp`, for which NULL is equal to
everything; the second is no weak order, so `SortedPositions` is the insertion sort the
library uses for so few rows. A variable-length hop without a lower bound keeps it
missing (`NoMin`) from the parser to the match, which starts it at the node
itself. `GraphSearch`
takes one iteration of a search per step. Reference definitions (assignments of a
pattern, distances in a graph, set algebra of conditions) are stated with
quantifiers and share nothing with the translated code.

`GqlMutate` lets two clients run statements: the lookup under the read lock and
the write under the write lock are separate steps, as in `graph_accessor.rs`. Its
clients write outside of transactions, and its graphs have no `old` versions: what MERGE
does with a stale index entry is in section 5.
`CypherFront` rewrites texts of up to six atoms (words, quotes, comments).

## 3 What the runs check

All bounds are CONSTANTS of the `.cfg` files. Counters that the code leaves
unbounded are capped by the constants named `Max...`, so every run may stop:
deadlock is not checked.

A component's properties are defined one by one, each with a comment that names
the code it is about; a run checks their conjunction under the name in the table,
and the parts are listed in the definition of that name. Every property of a
passing run has a mutant in `PROJECT.json`: a plausible bug in one mapped
definition (a vacuum without watermark, a dropped sync, a stale offset, a lock
released before the flush, ...) under which TLC finds the property violated. The
mutated definitions stand in the modules, marked `Mutant:`, and are used nowhere.

| Run | Instance | Shows |
|---|---|---|
| `mvcc_snapshots` | two nodes, no edge, 2 transactions of 2 writes | `RefinesSnapshotStore`: the engine implements `SnapshotStore`; `ReadYourWrites`: a transaction's reads are the store's; `VacuumCatchesUp`: chains are materialised once no transaction is live |
| `mvcc_graph` | a node with a loop edge, two labels, 2 transactions | `NoOrphanDelta`, `CommitIsAtomic`, `ExistenceCovers`, `ReadsAreRepeatable` with edges; `CountsAreExact`: counters equal the existence sets; `LabelEntriesKept`: the vacuum takes no label entry someone still needs |
| `durability` | a node with a loop edge, one crash and a checkpoint; the node alone, with two crashes, checkpoints, failures and batches (`Budgets`) | `RecoveryIsExact`: recovery is exact away from the six causes, also when ids start over and when linking rewrites slots after the commit; transactions survive whole or not at all |
| `session_all` | two connections, flush after two writes, two transactions, depth 3 | batch bookkeeping loses no acknowledged write; the assumptions of `finish_txn` hold |
| `store` | two nodes, four edges between them in both directions, pages of 52 bytes, a nested batch, an eviction, a flush, a reopening | `SlabsAreSound`, `EdgeListsAreExact`, `IndexesServeConstraints` |
| `storage` | the storage parts, each by itself | `PoolIsSound`, `OverflowIsSound`, `ReferencesStay` (string heap), `LogIsReadWhole`, `RecordsReadBack`, `CatalogIsSound`, `RestoreIsAtomic` |
| `server` | the server parts and the wire, each by itself | `AddressesAreTreatedRight`, `RatesHold`, `EventsAreAccounted`, `IdentitiesAreSound`, `StartIsSafe`, `ImportIsTrue`, `ConnectionIsFaithful`, `ValuesAreFaithful`, and `NobodyWaitsForever` |
| `read` | a catalogue of graphs and read queries | `RowsAreExact`: rows are what the definitions say; `ExecutorsAgree`: the executors give the same answer |
| `query` | catalogues of searches, texts and statements, each by itself | `SearchesAreExact`, `StatementsReadBack`, `TokensAreExact`, `RewritingIsFaithful`, `SharedGraphIsSound`, `StatementsDoWhatTheySay` |
| `session_disconnect`, `mutation_where`, `restore_crash` | the instances of `session_all`, `query`, `storage` | violations: section 5 |

Parts that share no state are explored side by side in one run (`MCStorage`,
`MCServer`, `MCQuery`): an initial state chooses the part and only its steps are
taken, so nothing is multiplied.

Why the bounds are enough to mean something.

- *Engine.* Two transactions on two records give a reader, a writer it must not
  see, commits that overlap on one record, on both and on none, and a commit that
  spans records; begins, failed commits and commits fit under `MaxClock`; a cap of
  two deltas makes the memory abort happen on a third write. A node and a loop are
  the least on which a slot is written by a commit of another transaction. What TLC
  checks of the engine on two transactions, section 4 proves for any number, apart
  from `VacuumCatchesUp`.
- *Recovery.* Two crashes are the least for records of one process to meet ids of
  the next. Edges are created only in the instance with one crash: the six causes
  are found with either, and their product is out of TLC's reach (2.9 million
  states as it is). Section 4 has no such bound.
- *Sessions.* A second session is all that is needed to nest, steal or leak a
  batch; depth 3 holds a leaked batch below two open ones.
- *Store.* A page of 52 bytes holds two lists of one edge or one list of two, so
  lists share a page, outgrow it and are continued in chains; four edges
  between two nodes reach a continuation that is removed from again.
- *Storage parts.* A pool of two frames for three pages makes every eviction happen
  between the phases of another reader's miss; that a list of any length stays one
  is proved (section 4). Blob lengths 0, 2, 4 and 9 on pages
  of 10 are: nothing, two that share a page, one that shares none, one that chains.
  Labels and properties are one byte on either side of what fits, in maps of at most
  two keys, on one node (`MaxNodeId = 1`); a restored directory is changed once
  (`MaxChanges = 1`). The log has
  three records and two damages, so an intact one is behind and between them.
  Restores fail once and are killed twice, the second time while the first kill is
  being cleared up.
- *Server parts.* Three connections from two addresses with a cap of two, and two
  failures that block, of one address or of both (`MaxFailures`), in a store that
  remembers one address, so that windows expire, fill, are read out of order and are
  evicted; a channel
  of two and four events, with two file operations that fail, so that one rotation
  is left half done and taken up again by the next; a rotation at 4 bytes with two files
  kept; two administrators on two names; two servers and a tool on one directory; a batch of
  three over a channel of two, so producer and client wait for each other; twelve
  scripts over a connection with chunks of 7 bytes and messages of up to 24, so a
  message has several chunks and one is too long.
- *Query language.* Three nodes with up to three edges, loops and parallel edges
  included, and twelve graphs whose indexes are stale: a node changed, deleted or
  relabelled, and one changed twice; the catalogue has for each clause a query where a plausible mistake
  changes the answer. Nesting is cut at depth 3.

Values are symmetric where no property tells them apart (not in runs with a
liveness property).

Fairness. `VacuumCatchesUp` needs weak fairness of `VacuumOnce`: `spawn_vacuum`
(`registry/single.rs`) runs it from an interval timer for as long as the registry
lives, and `Graph`'s lock is released between methods. It says nothing about
transactions that never end: a transaction nobody can end holds the vacuum for
ever, and the sessions can leave one behind (section 5). `NobodyWaitsForever` has
three parts. A shutdown completes if the listener's own task runs
(`StopAccepting`, `Drain`, the latter bounded by a timeout; the connections need
not do anything). An import ends if its producer, its client and the server run.
A call of the client ends if both ends run and the network delivers what was
flushed (`ClientMoves`, `ServerShake`, `Deliver`, `ReadStep`): bytes in a buffer
that nobody flushes need never leave, which is what the mutant of that property
forgets.

## 4 What is proved

For every value of the constants that satisfies the assumptions the modules
declare by name, which TLC evaluates on every run:

- `Mvcc`: the bounds are natural numbers (`BoundsAssumption`), `Ends` gives each edge
  id a set of node ids (`EndsAssumption`), `Absent` is not a value
  (`AbsentAssumption`). `MvccRefinement`: the mark `NotWritten` is not a version
  (`NotWrittenAssumption`). `MvccIndex`: every value has a label and properties
  (`IndexAssumption`). `Durability`: budgets are records of naturals
  (`BudgetsAssumption`).
- `BufferPool`: at least one frame, `ZeroValue` is a page content, `Nil` is no page
  (`PoolAssumption`). `StringHeap`: page, header and largest offset are positive
  (`HeapAssumption`). `WalFile`: a record has at least one byte (`WalAssumption`).
  `OverflowStore`: the sizes of pages, directories and entries are positive, lengths of
  blobs are naturals, the mark of a freed entry is not an entity (`OverflowAssumption`).
  `GraphStore`: the numbers of nodes and edges are naturals (`StoreBounds`). `Backup` and
  `ImportPipeline` need none: their bounds may be anything.
- `ConnectionFront`: the caps are naturals, the window is positive, the mark for "no
  address" is not an address (`FrontAssumption`). `Throttle`: rate, period and sizes are
  positive (`ThrottleAssumption`). `AuditLog`: sizes and caps are naturals, and one file
  at least is kept (`AuditAssumption`).
- `BoltSession`: the flush threshold is a positive natural, the bounds are naturals
  (`SessionAssumption`). `StartUp`: the mark for "nobody" is not a process
  (`NoProcessAssumption`).

Values, pages, connections, processes, names and all sizes are arbitrary.

**`MvccProofs`.** `TypeCorrectness`: `Spec => []TypeOK`, with the added fact that
positions on a chain are bounded (`TypeInv`): a chain has a newest delta only if
it cannot grow without end in one state, and `Newest` is a CHOOSE. `EngineInvariant`:
`Spec => [](TypeInv /\ IInv)`. From it `NoOrphans`, `AtomicCommit`,
`ExistenceIsCovered`, `EnumerationIsComplete`, and the action properties
`SnapshotReadsAreRepeatable` and `CommitsPublish`.

`IInv` strengthens the four invariants with what makes them inductive:

- *uncommitted deltas are owned*: each belongs to a live transaction whose
  reverse index names the record, so commit and rollback, which walk the reverse
  index, reach all of them (`NoOrphanDelta`);
- *committed deltas are settled*: their transaction has ended and their timestamp
  is below the clock (`CommittedAreSettled`), so the next stamp is new and
  `CommitIsAtomic` survives it; `LiveAreBegun` keeps an id from being begun twice;
- *ids are fresh*: an id not handed out has no chain and does not exist
  (`FreshIds`), so an insert starts its chain;
- *push order is total* (`PushOrderIsTotal`), so newest and oldest are unique;
- *writes are rooted*: a live writer's record exists or is the writer's own
  insert (`WritesAreRooted`). The vacuum removes a record from the existence set
  only if its whole chain is committed, hence never under a live writer; this is
  why `ExistenceCovers` survives the commit that follows.

The argument for repeatable reads: a vacuum drains a chain only if each of its
deltas is older than every live snapshot, so every live reader resolves that chain
to its newest delta, which is what the page then holds; a commit stamps with the
present clock, above every live `startTs`; existence is never lost for a record
with a readable version.

**`BoltSessionProofs`.** `SessionInvariant`: `Spec => []SessionInv`, and from it
`WritesAreHeld`, `FinishHasAccessor`, `FinishHasTxn`. The strengthening is
`TxnIsOwn`: ids are handed out once, so what one session commits or aborts is
never what another holds; without it, one session's COMMIT could end the
transaction another is about to finish. The batch operators are handled by one
lemma each on the record they pass on (`GraphOK`).

**`MvccReadProofs`.** `EngineImplementsStore`: `SpecFixedEdges =>
RefinesSnapshotStore`, and `TransactionsReadTheirWrites`: `Spec => []ReadYourWrites`.
Beside `IInv` this needs that what a live transaction wrote is newer on its chain
than everything its snapshot holds (`OwnIsNewer`: otherwise a reader that takes the
newest visible delta would miss its own write), and that no commit carries the
timestamp of a live snapshot (`StampsDiffer`). Then begin, write, commit and rollback
are the abstract steps, and vacuum, failed commits and failed begins stutter.
`SpecFixedEdges` is the engine as long as no transaction creates an edge. The
restriction is needed, not convenient: a commit that links a new edge writes the
endpoint's page before the vacuum, and a record then appears in older snapshots
(`AbsenceIsRepeatable`, section 5). `ReadYourWrites` holds without it.

`CountsHold`: `SpecIndex => []CountsAreExact`. The counters are
changed by as many records as commit and vacuum *enumerate*, so the invariant says
that those are exactly the records that enter and leave the existence sets: a record
is inserted once (`OneInsert`), an uncommitted insert is of a record that does not
exist yet (`InsertIsNew`), and a delta that replaced a version found it in an existing
record or in its own transaction (`PriorIsRooted`), hence no subtraction goes below
zero. `LabelScansAreKept`: `SpecIndex => LabelEntriesKept`, an action property, from
`IInv`: a drained chain reads the same for every live snapshot.

**`DurabilityProofs`.** `RecoveryHolds`: `SpecDurability => RecoveryIsExact`, for any
number of records, transactions, crashes and budgets. The property speaks of the step
that reopens; the invariant must say beforehand what a crash at any cut of the log
*would* give. `EveryCutIsSound`: for a record without a cause, from every prefix a
crash may keep, replay yields what an auto-commit reader sees now; when a commit is
under way and the cut keeps its marker, `CommitIsLogged` says it yields the new
version. This is not inductive alone. A sync turns the whole log into the shortest
cut, so the whole log must be right also for records whose sync a batch put off
(`WholeLogIsSound`). And a Commit marker takes effect backwards, on every record with
its transaction's id, so an unmarked record must be overwritten already or belong to a
transaction of this life that still writes the key (`UnmarkedIsHarmless`): this is
what the cause `reuse` breaks. The lemmas about replay (`ReplayIsRecovery`,
`PrefixDecides`, `NothingAdded`, `LastDecides`) reduce the fold over the log to the
last replayed place of a record. What is proved is about records none of the six
causes has touched; for the others section 5 has counterexamples.

**`StorageProofs`.** `PoolHolds`: `SpecPool => []PoolIsSound`, under any failures of
the files. The list lemmas (`NoSelfLoop`, `UnlinkIsList`, `PushFrontIsList`,
`TouchIsList`) say of each list operation of `buffer_pool.rs` that it turns a list
into a list with one page less or more: links agree in both directions, the ends are
the ends, and every set that holds the head and is closed under `next` holds every
page (so there is no second cycle beside the chain). `PoolInv` adds that a frame that
is not dirty equals its page in the file, without which dropping it could lose a
write. The limit on frames is by cardinality of finite sets. Pages in `lost` are
exempt from `PoolIsMemory` until they are written again.

`RestoresAreAtomic`: `SpecBackup => []RestoreIsAtomic`, for any number of calls, failing
operations and kills. `BackupInv` says at every place of a restore where the original is
(`OriginalIsKept`: in the live directory, or in `.bak`) and how much of the snapshot is
in the staging or the live directory (`CopyIsSound`). A kill may come anywhere, so the
invariant must also say what a restore that was cut short *left*: the original, a
complete copy, or no live directory and the original in `.bak` (`CutIsRecoverable`); and
what a start has found out when it acts (`StartsAreSound`), since it may be killed as
well. `reconcile_restore_artifacts` takes a live directory with the required files for a
committed restore: that this is right for a readable snapshot is because the copy is
installed by one rename. For an unreadable one it is the finding `restore_crash`. The
proof brought out two things the model had passed over: files of an earlier copy that
remain when the staging directory cannot be cleared, and a directory whose one rename
back failed unreported (`CopyFailedReinstates`, section 5).

`ReferencesAreKept`: `SpecHeap => []ReferencesStay`, for strings and pages of any size.
A crash throws the in-memory cursor away and the open finds it again from the last
page's `used`; the invariant therefore says that this recomputation would give the
present cursor in every state (`EndIsCounted`, where a full last page is told apart from
an empty one), and that each entry handed out ends before the cursor with its bytes in
place (`EntriesStay`). `WriteIs` says what the write loop does over a page boundary:
the bytes are appended at the cursor and every earlier byte stays.

`LogIsRead`: `SpecWal => []LogIsReadWhole`, for records of any length, any number of
appends, openings, damaged bytes and checkpoints. The invariant `WalInv` says of the
file (`FileIs`) that each byte is bad or is the byte of one record at its place, that
numbers never fall along the file, and that the records that decode are exactly
`appended`. What the scan does with such a file is by induction on the distance from its
end: `ScanFinds` (from any offset it finds, in order, the records that start there or
later and decode) and `ScanCounts` (it counts the damaged stretches that start there, and
one more if it enters in the middle of one). The library's induction theorems take an
operator as parameter, which the provers cannot instantiate; `EveryNatural` says the same
of a *set* of naturals, from the existence of a least element (`LeastOf`), and the lemmas
above put their claim into a set. That an append after a torn tail does not glue two
halves together is `WalAppend`: a record that decodes is all of one number, and the new
number is new.

**`OverflowProofs`.** `OverflowHolds`: `SpecOverflow => []OverflowIsSound`, for pages,
slabs and directories of any size and blobs of any length. What the property says is
said by walks (along a chain, along the directory pages), and a write to one page
changes every walk through it. The invariant `OverflowInv` therefore speaks of no walk:
there is a set N of pages in use such that

- the pages outside N are listed (`ListIs`): a sequence of directory pages, each of which
  points to the one before, and the pages they and the spare place name, none of them
  twice and no directory page among them; `count` is their number;
- the pages in N are owned (`Owned`) by what slots hold: a slab page bears exactly the
  blobs whose slots name it, and at least one; every other page is one of the pages of
  one chain, all of whose pages carry their place and the same blob. Two holdings have
  different write numbers, hence two chains share no page;
- the open page is a slab page in use, or none (`OpenIs`).

Each operation is a function on the record `Space`, so that one lemma per function says
what it does to N and to the holdings: `TakeIs`, `AllocIs`, `ReleaseIs` for the free list
(with one lemma for each place a page is taken from or given to), `ChainIsWritten` and
`ChainIsGiven` by induction along a chain, `PackedHolds` for the compaction of a slab
page, then `StoreIs`, `ReleasePropsIs`, `PutIs` and `DropIs`. The walks come back at the
end: a list of pages that follow each other without repetition is walked whole
(`WalkIs`), because it is no longer than the file (`NoMoreThan`), which is the bound
`free_overflow_chain` gives its loop. The theorem is about operations that are not cut
short: with a crash inside one, `SlotPagesAreNotFree` is refuted (section 5).

**`GraphStoreProofs`.** `IndexesServe`: `Spec => []IndexesServeConstraints`. `IndexInv`
says that each existence set, index and count is the image of the slots, the pair index as
a bag in which everything occurs once, and adds that slots are used in order and none is
used again (`NodesInOrder`, `EdgesInOrder`): the scan at opening runs to the largest
counter, and is whole only because nothing lives behind it (`ScanIsWhole`). Linking an
edge, at once or when a batch ends, goes through pages, caches and growing lists; what the
indexes need of all this is that it changes no more of a slot than its heads
(`HeadsApart`, `AddKeepsSlots`, `BatchEnded`). A node's removal takes with it whatever
edges the lists name (`EdgesDropped`), so the indexes are exact also where the lists are
not (`NoDanglingEdge`, section 5).

**`ServerProofs`.** `StartsAreSafe`: `SpecStart => StartIsSafe`. The invariant adds who
holds the lock in each phase (`InsideHolds`: also a process that has flushed and not
yet unlocked), that what a starting server read of the users still holds when it acts
on it (`BootstrapIsFirst`), that unflushed changes have a server that will flush them
or `unclean` says why not (`UnflushedIsServed`), and that nobody has passed the guard
of a foreign directory. That a free lock means a flushed database is claimed but for
what `unclean` records, a crash, a failed flush or a late statement: without these
exceptions it is refuted (`StopIsFlushed`, section 5). `IdentitiesHold`: `SpecUsers => []IdentitiesAreSound`, with any number of
administrators: a map entry without a node belongs to a drop about to remove it
(`EntriesHaveNodes`), and a node not yet in the map is known to its creator alone
(`NewNodesArePrivate`); a name has one node unless it is in `twice`, so that the drop of
that node leaves nothing for a restart to load (`OneNodeEach`). The part about one administrator at a time rests on `SerialInv`,
which says at each step of a statement which of the two copies is ahead. With two
administrators that part fails (`AdminRemains`, section 5).

`AddressesHold`: `SpecFront => []AddressesAreTreatedRight`, for any set of
connections, also an infinite one: the permits bound the tasks, so the sets that are
counted are finite (`TasksAreSound`). That nobody is locked out falsely is not
inductive, since a window forgets times, may be evicted, and need not be in order. The
strengthening is `WindowsAreTrue`: the times of a window embed in the failures of its
address (an injection that keeps times, not order), which recording, expiry, eviction
and a success preserve; an embedded window counts no more than the failures do,
at any clock (`EmbedsCount`).

`RatesAreHeld`: `SpecThrottle => []RatesHold`. Of queries (`QueriesHold`) the inductive
form is a balance (`Within`): the tokens left and the queries since any earlier one
together stay below what burst and time earn; a refill moves time into tokens, rounding
down, a query moves a token into the count. Of bytes (`ByteInv`) the balance has more
terms, because a reservation that finds too few tokens empties the bucket and sleeps,
and what the bucket earns during the sleep stays in it: `Earned` adds to the time of the
last refill the time at which each direction is awake again. That a sleep lasts no
longer than its bytes are worth (`SleepIsPaid`) turns this into the bound of
`BytesAreBounded`: the burst and three times the rate, one share for the bucket and one
for each direction. `BytesWithinRate`, with one share, is refuted (section 5).

`EventsAreKept`: `SpecAudit => []EventsAreAccounted`. Lines carry their number, and
`HoldNewest` says that the kept files, from the oldest to the current one, are the last
lines written without a gap, also when a rotation stops half way because a sync, a
rename or the reopening failed. For that the handle must point to the newest file that
has lines (`BelowIsEmpty`): after a failed reopening it follows the renamed file, and
even out of the last name. The other parts of `GoodWriter` are that `unsynced` is at
most `behind + since`, with `since < FsyncEvery`, where `behind` is what failed syncs
left waiting, and that a damaged line comes from a failed write (`DamagePaid`). Beside
the writer, `Placed` says that every accepted event is in one of four places, the
channel, a line, `lost` or `late`, and that what waits is newer than what is written;
`LossesAreCounted` accounts for the refused ones, and `GateInv` for the slow-query gate,
which has suppressed nothing before its first window. The theorem does not say that
nothing is lost: `NothingIsLostSilently` is refuted (section 5).

`ImportsAreTrue`: `SpecImport => []ImportIsTrue`. The client knows only how many answers
it still expects. `Batches` says in each state of the drain that requests under way and
answers not yet read add up to that number, that RUN and PULL alternate in what is left,
and what the answers still to come will add to the count (`IsPending`): without it a
SUCCESS could be the answer to a PULL and be counted for a RUN. `StatementsInOrder`
makes the answered ones distinct, so their number is a count; `Totals` accounts for every
parsed statement; `RanFirst` says that a PULL which is answered follows the RUN of its
statement, so that what is counted was executed. After an error only `client.count <=
Cardinality(answered)` is claimed, and never that the others were not executed:
`FailedAreNotExecuted` is refuted (section 5).

**Model-checked only.** The liveness properties `VacuumCatchesUp` and
`NobodyWaitsForever` (fairness and ENABLED are out of the prover's reach). The
query language and the wire (`RowsAreExact`, `ExecutorsAgree`, `SearchesAreExact`,
`StatementsReadBack`, `TokensAreExact`, `RewritingIsFaithful`, `ValuesAreFaithful`,
`ConnectionIsFaithful`, `SharedGraphIsSound`, `StatementsDoWhatTheySay`): their
modules are built from recursive operators, about which this prover proves nothing,
and what they claim is by induction over texts, values and paths. Not proved,
though not out of reach: `RecordsReadBack` and `CatalogIsSound`, where bytes written by
one fold must be followed to the value another one decodes, and `SlabsAreSound` and
`EdgeListsAreExact`, for which the adjacency pages need what `OverflowProofs` does for
the overflow pages.

`TypeOK`, `IInv`, `EnumerationComplete` and `OnlyCommitPublishes` are proved and no
longer checked by a run; without edges `AbsenceIsRepeatable` follows from the
refinement, in which a read is a function of the abstract state.

## 5 Disagreements between the code and its words

Three have a run that TLC ends with a counterexample, and an entry with the quoted
line under `findings`.

| Run | What happens |
|---|---|
| `session_disconnect` | with every session gone, the graph is still inside a batch, with unsynced acknowledged writes |
| `mutation_where` | `MATCH (n) WHERE ... DELETE n` is parsed into a statement without the condition |
| `restore_crash` | a restore killed between installing an unreadable copy and opening it is taken for committed at the next start, and the original is removed |

The others are stated as properties, each with the comment of the code it quotes,
and TLC refutes them in the same way when they are named in a `.cfg` with the
specification given. File names are those of the crates' sources.

*Engine, recovery and sessions.*

| Property | What happens | Instance that shows it |
|---|---|---|
| `AbsenceIsRepeatable` (`Mvcc`) | a commit that links an edge to a committed node not yet vacuumed writes the node's page; the node appears in an older live snapshot (`graph.rs:3978`, against 816-819) | two nodes and an edge, 2 transactions |
| `NoGhostRecord` (`Mvcc`) | a record inserted by one transaction and deleted by another before one vacuum stays in the existence set: its chain has no old base, and `apply_vacuum_category_b` falls through | that of `mvcc_graph` |
| `LabelScanCovers` (`MvccIndex`) | a relabelling of a committed, not yet vacuumed node adds no entry for the new label (`graph.rs:4698`, against 872-874) | one node, three values over two labels, 3 transactions |
| `PropertyEntriesKept` (`MvccIndex`) | an update that keeps a property loses that property's entry at the vacuum, which removes every property of the old version | the same |
| `NoDanglingEntry` (`MvccIndex`) | two relabellings and a delete before one vacuum leave the middle label's entry behind | the same |
| `CheckpointIsSafe` (`Durability`) | a checkpoint between a commit and its vacuum truncates the only durable copy (`graph.rs:3363`, against 3249-3251) | one node, one crash |
| `LogOrderIsVisibleOrder` (`Durability`) | recovery shows the version committed last, readers the one written last (`graph.rs:857`, against 804-805) | one node, one crash |
| `FailedCommitIsDiscarded` (`Durability`) | a commit whose sync failed leaves its redo and its marker in the log; after the rollback recovery still replays them | one node, one crash, a failure |
| `UncommittedIsDropped` (`Durability`) | recovery that replays nothing keeps the log; records a crashed transaction left are replayed once a later one with the same id commits | one node, two crashes |
| `LinkingKeepsVersions` (`Durability`) | linking an edge logs the page's older version of the endpoint after the commit's redo | that of `durability` with the edge |
| `VisibleIsDurable` (`Durability`) | a commit while some session has a batch open is acknowledged before any sync | one node, one crash, a batch |
| `NoPanic` (`BoltSession`) | the flush after a failed rebind reaches an `expect()` (`handler.rs:2187`, against 2065-2067) | that of `session_all` |
| `FailedCommitIsRetriable` (`BoltSession`) | `finish_txn` forgets the transaction before the commit fails: it stays live and no session can end it | that of `session_all` |
| `ResetRollsBack` (`BoltSession`) | a failed rebind drops the accessor; RESET then forgets the transaction without rolling it back | that of `session_all` |

*Store and storage.*

| Property | What happens | Instance that shows it |
|---|---|---|
| `NoDanglingEdge` (`GraphStore`) | `remove_node` collects the edges to remove from the stored lists: an edge whose linking an open batch has deferred outlives its node (`graph.rs:2344`, against 2324) | that of `store` |
| `IdsNeverReused`, `IndexesAreExact`, `AdjacencyIsExact` (`GraphStore`) | after a crash the counters and the saved index are older than the replayed slots, and replayed nodes have no list heads | `SpecCrash`, `MaxCrashes = 1` |
| `SlotPagesAreNotFree` (`OverflowStore`) | a crash between the release of the old pages and the write of the slot leaves a slot that names free pages (`graph.rs:4402`, against 4394-4397) | `SpecMore` of `MCStorage` |
| `LsnsIncrease` (`WalFile`) | after damage in the middle the numbering goes on from before it and repeats the numbers of the intact records behind it (`reader.rs:65`) | `storage` |
| `WithdrawalsAreDurable` (`SchemaCatalog`) | an empty catalog is not written, so the withdrawal of the last declaration is not in `schema.bin` (`graph.rs:1652-1655`, against 1638-1641) | `storage` |
| `OldFilesRead` (`SchemaCatalog`) | an older file, without bounds, with two entries: the second entry's bytes are read as the first one's bound (`schema/codec.rs:211`, against 47-58) | `storage` |
| `RebuildReproduces` (`SchemaCatalog`) | a restart may find fewer exempt nodes than there were (`graph.rs:600-618`) | `storage` |
| `RebuildCapturesNoOther` (`SchemaCatalog`) | with a node relabelled by an update, the rebuild exempts a node that has versions | `SpecMore` of `MCStorage` |
| `OneCopySurvives` (`Backup`) | an offline tool that does not reconcile restores over an interrupted restore and clears the `.bak` (`backup.rs:264`, against 260-263) | `SpecMore` of `MCStorage` |
| `CopyFailedReinstates` (`Backup`) | the sync after the live directory was set aside fails, and so does the one attempt to rename it back: `CopyFailed` is answered without a live directory (`backup.rs:286-287`, against 243-244) | `SpecRestore` of `MCStorage`, `MaxIoErrors = 2` |

*Server and import.*

| Property | What happens | Instance that shows it |
|---|---|---|
| `BytesWithinRate` (`Throttle`) | a sleep does not use up the tokens that come in meanwhile, so they are spent a second time (`rate_limiter.rs:302-351`) | `server` |
| `LossesAreReported` (`AuditLog`) | the drain at shutdown writes no report of the losses counted since the last one (`audit.rs:12-13`, against 1374-1385) | `server` |
| `NothingIsLostSilently` (`AuditLog`) | an accepted event, or a report of refused ones, whose write fails is counted nowhere (`audit.rs:1404-1411`); an event sent between the last `try_recv` and the end of the task is dropped with the receiver (1384-1386), both against 12-13 | `server` |
| `StopIsFlushed` (`StartUp`) | a flush that fails or panics at the shutdown is logged, and the lock is given back (`single.rs:248-256`, `startup.rs:456`, against "the checkpoint is not optional", `single.rs:233`) | `server` |
| `WritesHoldTheLock` (`StartUp`) | a statement that outlives the five seconds of the drain writes after the lock was given back, when another process may hold it (`listener.rs:160-165`) | `server` |
| `DroppedStaysOutAlways` (`UserStore`) | two creates of one name at once leave two nodes; the drop removes the one in the map, and a restart loads the other (`system_graph.rs:281-317`, 192-209) | `server` with two sessions |
| `FailedAreNotExecuted` (`ImportPipeline`) | a PULL refused for an empty query bucket answers FAILURE after its RUN was executed, and the import counts the statement as failed (`handler.rs:1624-1651`, `bolt_client.rs:383-390`) | `server` |
| `AdminRemains` (`UserStore`) | two administrators drop each other: each check passes before either write (`system_graph.rs:345`) | `server` with two sessions |
| `FirstStartCanRepeat` (`StartUp`) | a crash between the creation of the marker file and its content leaves an empty file that every later start refuses (`layout.rs:213-214`) | `server` |
| `DrainRecovers` (`ImportPipeline`) | the answer to the next pipelined request is read for the answer to RESET, and the drain ends with an error (`bolt_client.rs:359`, against 340-342) | `SpecImportOnly` of `MCServer` |

*Query language.*

| Property | What happens | Instance that shows it |
|---|---|---|
| `PushdownAgrees` (`GqlExecute`) | a hop is counted without the properties of its edge and far node, and without a label on the start node (`compiler.rs:2468, 2571-2621`, against 2465-2466) | `read`, with it in `ExecutorsAgree` for its restriction `PushdownAgreesOnLabels` |
| `PushdownAgreesBeforeVacuum` (`GqlExecute`) | between a commit and the vacuum the scan takes the index at its word: COUNT over `{x: 1}` counts a node whose `x` is now 2, or whose label is another, and an aggregate of a property fails on a deleted node (`compiler.rs:2639-2651`, 2822, against `pattern.rs:466-477`) | `read` |
| `NullsAreLast` (`GqlExecute`) | under GROUP BY and UNWIND rows are sorted by `gql_value_cmp`, where NULL is equal to everything and rows on its two sides stay out of order (`compiler.rs:3251`, 3005) | `read` |
| `MergeFindsOrCreates` (`GqlMutate`) with stale index entries | `merge_lookup` takes the first id the indexes list and does not look at the node: before the vacuum it finds one that no longer has the property (`mutation_exec.rs:507-518`) | `query`, with a version in `old` of a graph of `MCPastures` that has the property MERGE asks for |
| `DfsReachesDepth` (`GraphSearch`) | a node first met on a long way is not entered again on a short one, so nodes within `max_depth` are missed (`traversal.rs:207-214`) | `query` with four nodes, edges 1→2, 1→3, 2→3, 3→4 and depth 2 |
| `EveryRemoveIsRewritten` (`CypherFront`) | with two REMOVE clauses only one is rewritten (`preprocessor.rs:573`: "Find last occurrence") | `query` |
| `MixedQuotesAreOneReading` (`CypherFront`) | in a text with backticks and comments, a quote or `/*` inside a name in backticks is taken for the start of a literal or comment | `query` |
| `CommentsAreTransparent` (`CypherFront`) | a text with a block comment goes through the passes, which refuse a WITH that projects and is otherwise left alone | `query` with `MaxAtoms = 7` over `/`, `*`, blank, `WITH` and a name |

Reading the code for the models showed more, which the models reproduce (they
translate the code) and no property states:

- *Page cache*: an eviction drops the frame before it writes the page, so a failing
  write loses the page's changes (`buffer_pool.rs:505-531`); the operation that needed
  the frame, not the one that wrote the page, gets the error.
- *Constraints*: writers inside a transaction do not check unique constraints, and
  CREATE CONSTRAINT does not look at what is already there.
- *Restore*: a rollback without an original ignores a failing removal
  (`backup.rs:516`); a failed sync followed by a failed rename back leaves no live
  directory (285-287); a copy over an existing destination has a window without
  one (669-673, against 618-626).
- *Rows*: a pipeline's `RETURN n.x ORDER BY n.x` sorts by NULL; DISTINCT and GROUP
  BY compare the debug text of values, where the order of a map's entries is
  arbitrary; patterns that share a variable are joined without comparing it; a
  property constraint that is NULL or a list is ignored; an undirected hop yields a
  loop twice; incomparable values are equal to everything when sorting; SUM of
  nothing is NULL in one executor and 0 in another, and overflow wraps in one and
  saturates in another; `i64::MIN / -1` panics; GROUP BY with UNWIND is one row; an
  unwound variable is not seen inside calls, lists and list predicates; a path
  variable is not visible in ORDER BY; the row cap is ignored by UNWIND and WITH.
- *Statements that write*: two MERGEs may both create (`graph_accessor.rs:762`); a
  statement that fails keeps what it did before; `DETACH DELETE a, r` fails after
  a part of its work when `r` hangs on `a`; `SET n.x = n.y` does nothing; a MERGE
  whose node vanished succeeds; `MATCH ... CREATE` ignores a map parameter; the
  properties of a node a MERGE creates are not counted.
- *Texts*: the index of a positional parameter is truncated (`parser.rs:1834`);
  `MAX_EXPR_DEPTH` does not bound chains of operators; of several labels of an
  edge the first is kept; `n.x<-1` is an arrow; the smallest integer cannot be
  written; keywords are found inside words with `_` and after `.`; `//` comments
  with an apostrophe hide constructs from strict mode.
- *Wire*: a path that goes against an edge is sent with a positive index
  (`wire.rs:84-86`, against 62-65); a float that is not finite ends the connection
  without FAILURE; the encoder has no depth limit, the decoder one of 64; an
  offer without a common version is closed without the four zero bytes.

## 6 What is left out

Within the modelled parts:

- `Mvcc`: auto-commit writers that change pages under the chains (`GraphStore` has
  them, without transactions; no module composes the two); append-only labels and
  quota refusals; a storage error in the middle of a vacuum or of the
  reconciliation of a commit. Adjacency is present only as the slot write it causes.
- `MvccIndex`: the edge pair index, which changes exactly when the edge label index
  does; `index.bin` (in `GraphStore`, without its bytes).
- `Durability`: slots, not bytes, and an undamaged log (`WalFile` has bytes and
  damage); Begin and Rollback markers, which recovery ignores; the meta page is
  written whole; edges are not committed while a batch is open.
- `GraphStore`: the order in which a removal leaves a pending list and in which the
  pending lists are linked is arbitrary; the migration of the first chain format.
- Storage parts: pins of the pool, which only tests raise; UTF-8 validation and the
  label hash; SHOW; validation of paths; the five data files of a backup are one,
  as are the optional ones; a power loss that undoes unsynced renames.
- `BoltSession`, `BoltWire`: CALL, DDL and administrative statements; one database;
  the permission cached at HELLO; a panic of a handler; integer widths of the codec
  are 1 to 4 bytes, strings ASCII, names one byte, lengths above 65535 not
  exercised.
- Server parts: caps changed while serving; the metrics; records of an import are
  not told apart; the buffer in front of the audit file, whose lines count as written
  and unsynced.
- Query language: floats are exact, deadlines and the shortestPath expression are
  left out, as are line numbers, characters of several bytes and the text of
  errors; a storage error on a visible record; `GqlMutate` is auto-commit only, with
  exact indexes; in `CypherFront` a word is one atom and
  letters have one case.

Not modelled:

- the in-memory backend and the access interface, which pass calls on;
- access control, an interface without an implementation in this repository;
- parsing of configuration, the prompt and printing of the command line, export,
  and the Python bindings: they translate values one at a time and keep no state.

## 7 Plan

Built: all modules of section 2. What would add most next:

1. Proofs: `SlabsAreSound` and `EdgeListsAreExact` of `GraphStore`, along the lines of
   `OverflowProofs`.
2. Composition: auto-commit writers of `GraphStore` beneath the chains of `Mvcc`;
   `WalFile` below `Durability`; statements of `GqlMutate` inside transactions.
3. Byte layouts of `index.bin` and of the meta page.
