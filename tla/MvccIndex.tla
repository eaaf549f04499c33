----------------------------- MODULE MvccIndex -----------------------------
(***************************************************************************)
(* The derived in-memory structures ("category B") that Graph keeps beside *)
(* the transaction engine: the label indexes, the node property index and  *)
(* the record counts.  A commit adds what its versions need, the vacuum    *)
(* removes what no snapshot needs any more; nothing else touches them.     *)
(*                                                                         *)
(* labelIdx holds the entries of node_label_index and edge_label_index     *)
(* (record keys tell them apart); the edge pair index changes exactly when *)
(* the edge label index does and is not kept apart.  propIdx holds the     *)
(* entries of node_property_index: hash and ordered side move in lockstep. *)
(***************************************************************************)
EXTENDS Mvcc

CONSTANTS
    LabelOf,    \* the label of each value
    PropsOf     \* the (key, value) properties of each value

ASSUME IndexAssumption ==
    /\ DOMAIN LabelOf = Values
    /\ DOMAIN PropsOf = Values

VARIABLES
    labelIdx,   \* <<label, record>> entries
    propIdx,    \* <<label, property, node>> entries
    nodeCount,  \* meta.node_count
    edgeCount   \* meta.edge_count

indexVars == <<labelIdx, propIdx, nodeCount, edgeCount>>
allVars == <<vars, indexVars>>

LabelEntry(v, k) == <<LabelOf[v], k>>

PropEntries(v, n) == {<<LabelOf[v], p, n>> : p \in PropsOf[v]}

-----------------------------------------------------------------------------
(* Rebuilt from the pages when the store is opened.                        *)

InitIndex ==
    /\ Init
    /\ labelIdx = {LabelEntry(page[k], k) : k \in exists}
    /\ propIdx = UNION {PropEntries(page[n], n) : n \in exists \cap Nodes}
    /\ nodeCount = Cardinality(exists \cap Nodes)
    /\ edgeCount = Cardinality(exists \cap Edges)

-----------------------------------------------------------------------------
(* Commit: additions only.                                                 *)

OldestOf(t, k) == Oldest(OfTxn(chain[k], t))
NewestOf(t, k) == Newest(OfTxn(chain[k], t))

\* The records the transaction as a whole modified, leaving a version behind,
\* and whose version before it is known: the page slot it chained onto.
NetUpdates(t) ==
    {k \in written[t] : /\ OfTxn(chain[k], t) # {}
                        /\ OldestOf(t, k).op = "Update"
                        /\ OldestOf(t, k).prior # Absent
                        /\ NewestOf(t, k).new # Absent}

Relabelled(t) ==
    {k \in NetUpdates(t) : LabelOf[OldestOf(t, k).prior] # LabelOf[NewestOf(t, k).new]}

\* Mutant: the count is raised once per record the transaction wrote.
ReconcileCommitted_CountsWrites(t) ==
    /\ labelIdx' = labelIdx \cup
           {LabelEntry(NewestOf(t, k).new, k) : k \in NetInserts(t) \cup Relabelled(t)}
    /\ propIdx' = propIdx \cup
           UNION {PropEntries(NewestOf(t, n).new, n) : n \in (NetInserts(t) \cup NetUpdates(t)) \cap Nodes}
    /\ nodeCount' = nodeCount + Cardinality(written[t] \cap Nodes)
    /\ edgeCount' = edgeCount + Cardinality(NetInserts(t) \cap Edges)

ReconcileCommitted(t) ==
    /\ labelIdx' = labelIdx \cup
           {LabelEntry(NewestOf(t, k).new, k) : k \in NetInserts(t) \cup Relabelled(t)}
    /\ propIdx' = propIdx \cup
           UNION {PropEntries(NewestOf(t, n).new, n) : n \in (NetInserts(t) \cup NetUpdates(t)) \cap Nodes}
    /\ nodeCount' = nodeCount + Cardinality(NetInserts(t) \cap Nodes)
    /\ edgeCount' = edgeCount + Cardinality(NetInserts(t) \cap Edges)

-----------------------------------------------------------------------------
(* Vacuum: removals only, from the newest and the oldest delta of a chain. *)

OldBase(k) == Oldest(chain[k]).prior
NewState(k) == Newest(chain[k]).new

VacuumedUpdates == {k \in Drainable : NewState(k) # Absent /\ OldBase(k) # Absent}

\* Mutant: the old label goes whether or not the new version still carries it.
StaleLabels_Unconditional == VacuumedDeletes \cup VacuumedUpdates

\* The records whose old label entry the vacuum removes.
StaleLabels ==
    VacuumedDeletes \cup
    {k \in VacuumedUpdates : LabelOf[OldBase(k)] # LabelOf[NewState(k)]}

\* The properties of the old version go, the ones the new version shares too.
ReconcileVacuumed ==
    /\ labelIdx' = labelIdx \ {LabelEntry(OldBase(k), k) : k \in StaleLabels}
    /\ propIdx' = propIdx \
           UNION {PropEntries(OldBase(n), n) : n \in (VacuumedDeletes \cup VacuumedUpdates) \cap Nodes}
    /\ nodeCount' = nodeCount - Cardinality(VacuumedDeletes \cap Nodes)
    /\ edgeCount' = edgeCount - Cardinality(VacuumedDeletes \cap Edges)

-----------------------------------------------------------------------------

NextIndex ==
    \/ LocalStep /\ UNCHANGED indexVars
    \/ \E t \in active : CommitTxn(t) /\ ReconcileCommitted(t)
    \/ VacuumOnce /\ ReconcileVacuumed

SpecIndex == InitIndex /\ [][NextIndex]_allVars

-----------------------------------------------------------------------------
(* Properties.                                                             *)

\* node_count and edge_count are the sizes of the existence sets they are
\* recomputed from at open (sync_meta_from_indexes), so the unsigned counters
\* never run below zero, although commits raise them per transaction and the
\* vacuum lowers them per chain, which may hold several deletes of one record.
CountsAreExact ==
    /\ nodeCount = Cardinality(exists \cap Nodes)
    /\ edgeCount = Cardinality(exists \cap Edges)

\* The versions of a record that some reader, live or new, resolves.
ReadVersions(k) ==
    {ReadAutoCommit(k)} \cup {ReadInTxn(t, k) : t \in active}

NeededLabels(k) == {LabelOf[v] : v \in ReadVersions(k) \ {Absent}}

\* The vacuum removes a label entry only when nobody resolves a version with
\* that label any more, in the state it leaves: a snapshot must not lose a
\* record from its label scan.
LabelEntriesKept ==
    [][\A entry \in labelIdx \ labelIdx' : entry[1] \notin NeededLabels(entry[2])']_allVars

\* The same for the property index: "an updated node/edge removes the stale
\* old-value index entries", so an entry of the version readers now resolve,
\* which is not stale, stays.
PropertyEntriesKept ==
    [][\A entry \in propIdx \ propIdx' :
          entry \notin UNION {PropEntries(v, entry[3]) : v \in ReadVersions(entry[3])' \ {Absent}}]_allVars

\* A commit is "immediately visible to aggregate and traversal reads": the
\* label scan of an auto-commit reader finds every record it can resolve.
LabelScanCovers ==
    \A k \in Keys :
        ReadAutoCommit(k) # Absent => LabelEntry(ReadAutoCommit(k), k) \in labelIdx

\* The vacuum of a delete "removes the record from category B (exists-set,
\* indexes, adjacency, count)": no entry names a record that does not exist.
NoDanglingEntry == \A entry \in labelIdx : entry[2] \in exists

=============================================================================
