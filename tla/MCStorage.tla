------------------------------ MODULE MCStorage ------------------------------
(***************************************************************************)
(* The parts of the storage layer that share no state, each explored by    *)
(* itself: an initial state chooses the part whose steps are taken.        *)
(***************************************************************************)
EXTENDS BufferPool, OverflowStore, StringHeap, WalFile, SchemaCatalog, RecordSlot, Backup

VARIABLE part

storageVars == <<poolVars, overflowVars, heapVars, walVars, schemaVars, propVars, slotVars, backupVars>>

InitParts ==
  /\ InitPool /\ InitOverflow /\ InitHeap /\ InitWal /\ InitSchema
  /\ InitProps /\ InitSlot /\ InitBackup

Init == part \in {"pool", "overflow", "strings", "wal", "schema", "props", "slot", "backup"} /\ InitParts

Next ==
  \/ /\ part = "pool" /\ NextPool
     /\ UNCHANGED <<overflowVars, heapVars, walVars, schemaVars, propVars, slotVars, backupVars, part>>
  \/ /\ part = "overflow" /\ NextOverflow
     /\ UNCHANGED <<poolVars, heapVars, walVars, schemaVars, propVars, slotVars, backupVars, part>>
  \/ /\ part = "strings" /\ NextHeap
     /\ UNCHANGED <<poolVars, overflowVars, walVars, schemaVars, propVars, slotVars, backupVars, part>>
  \/ /\ part = "wal" /\ NextWal
     /\ UNCHANGED <<poolVars, overflowVars, heapVars, schemaVars, propVars, slotVars, backupVars, part>>
  \/ /\ part = "schema" /\ NextSchema
     /\ UNCHANGED <<poolVars, overflowVars, heapVars, walVars, propVars, slotVars, backupVars, part>>
  \/ /\ part = "props" /\ NextProps
     /\ UNCHANGED <<poolVars, overflowVars, heapVars, walVars, schemaVars, slotVars, backupVars, part>>
  \/ /\ part = "slot" /\ NextSlot
     /\ UNCHANGED <<poolVars, overflowVars, heapVars, walVars, schemaVars, propVars, backupVars, part>>
  \/ /\ part = "backup" /\ NextBackup
     /\ UNCHANGED <<poolVars, overflowVars, heapVars, walVars, schemaVars, propVars, slotVars, part>>

Spec == Init /\ [][Next]_<<storageVars, part>>

\* Backups alone.
SpecRestore == part = "backup" /\ InitParts /\ [][Next]_<<storageVars, part>>

\* Overflow pages with a crash inside an operation; a node given another
\* label; an interrupted restore taken up by a tool that does not reconcile.
NextMore ==
  \/ /\ part = "overflow" /\ (\E e \in Entities, len \in BlobLens : CrashInPut(e, len))
     /\ UNCHANGED <<poolVars, heapVars, walVars, schemaVars, propVars, slotVars, backupVars, part>>
  \/ /\ part = "schema" /\ (\E i \in DOMAIN nodeLabel, l \in Labels : Relabel(i, l))
     /\ UNCHANGED <<poolVars, overflowVars, heapVars, walVars, propVars, slotVars, backupVars, part>>
  \/ /\ part = "backup" /\ StartOffline
     /\ UNCHANGED <<poolVars, overflowVars, heapVars, walVars, schemaVars, propVars, slotVars, part>>
SpecMore == Init /\ [][Next \/ NextMore]_<<storageVars, part>>

HeapStrings == {[id |-> i, len |-> i] : i \in 0..3}
LabelNames == {<<65>>, <<66, 67>>}
\* Values of every type, with lengths 0 and 258 and bytes that look like tags.
PropValues == {[type |-> "string", data |-> <<>>],
               [type |-> "string", data |-> <<1, 2, 5, 0>>],
               [type |-> "i64", data |-> <<255, 0, 1, 0, 5, 0, 0, 128>>],
               [type |-> "f64", data |-> <<0, 0, 0, 0, 0, 0, 240, 127>>],
               [type |-> "bool", data |-> <<0>>],
               [type |-> "bytes", data |-> [k \in 1..258 |-> k % 256]]}
PropKeys == {<<97>>, <<98, 3>>, <<>>}
PropMaps == UNION {[ks -> PropValues] : ks \in SUBSET PropKeys \ {PropKeys}}
KeySets == {{}, {<<97>>}, {<<98, 3>>, <<>>}, {<<120>>}}
\* Labels and properties one byte on either side of what fits in a slot.
BytesOf(n) == [k \in 1..n |-> 100 + k]
LabelsOfLens == {BytesOf(n) : n \in {0, 47, 48, 55, 56}}
OneProp(n) == [k \in {<<97>>} |-> [type |-> "bytes", data |-> BytesOf(n)]]
SlotPropMaps == {NoProps,
                 [k \in {<<97>>, <<98, 3>>} |-> [type |-> "bool", data |-> <<1>>]]}
                \cup {OneProp(n) : n \in {23, 24, 31, 32}}
TwoHeads == {<<61, 62, 63, 64>>, <<71, 72, 73, 74>>}
EntryNames == {<<<<66, 67>>, <<112>>>>}
=============================================================================
