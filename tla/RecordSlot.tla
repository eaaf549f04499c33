----------------------------- MODULE RecordSlot -----------------------------
(***************************************************************************)
(* The bytes of a record's properties (property_codec.rs) and of the slot  *)
(* of a node or an edge (node_codec.rs, edge_codec.rs).                    *)
(***************************************************************************)
EXTENDS Naturals, SequencesExt, FiniteSetsExt, Functions, TLC, LittleEndianBytes

-----------------------------------------------------------------------------
(* Properties carry no total length: the slot says how many there are, and *)
(* a reader finds the next one by knowing how long the one before was.  A  *)
(* reader that wants only some keys (a projection) steps over the other    *)
(* values without decoding them, by a second account of how long they are. *)

CONSTANTS PropertyMaps,   \* properties to store: key -> value
          Projections     \* sets of keys to read

\* A value is its type and its bytes: text and binary of any length, numbers
\* as their eight bytes, a Boolean as one.
Tag == [string |-> 1, i64 |-> 2, f64 |-> 3, bool |-> 4, bytes |-> 5]
Sized == {"string", "bytes"}
Width == [i64 |-> 8, f64 |-> 8, bool |-> 1]
MaxKeyLen == 255

VARIABLE propRow       \* properties and their encoding
propVars == <<propRow>>

NoProps == [k \in {} |-> 0]
InitProps == propRow = [props |-> NoProps, bytes |-> <<>>]

\* encode_value
EncodeValue(v) ==
  <<Tag[v.type]>> \o (IF v.type \in Sized THEN LittleEndian(Len(v.data), 4) ELSE <<>>) \o v.data

\* encode_properties: the entries of a hash map in some order.
EncodeProperties(props) ==
  FoldLeft(LAMBDA acc, k : acc \o <<Len(k)>> \o k \o EncodeValue(props[k]),
           <<>>, SetToSeq(DOMAIN props))

\* read_byte, read_u32_le and the slices: w bytes at an offset, or an error.
Readable(data, at, w) == at + w <= Len(data)
BytesAt(data, at, w) == SubSeq(data, at + 1, at + w)
U32At(data, at) == FromLittle(BytesAt(data, at, 4))
TypeOf(data, at) == {t \in DOMAIN Tag : Tag[t] = data[at + 1]}

\* decode_value: the value at an offset and how many bytes it took.  Any byte
\* but 0 is true.
CorruptValue == [ok |-> FALSE]
DecodeValue(data, at) ==
  IF ~Readable(data, at, 1) \/ TypeOf(data, at) = {} THEN CorruptValue
  ELSE LET t == CHOOSE x \in TypeOf(data, at) : TRUE
           pos == IF t \in Sized THEN at + 5 ELSE at + 1
           len == IF t \in Sized THEN U32At(data, at + 1) ELSE Width[t]
           raw == BytesAt(data, pos, len)
       IN  IF t \in Sized /\ ~Readable(data, at + 1, 4) THEN CorruptValue
           ELSE IF ~Readable(data, pos, len) THEN CorruptValue
           ELSE [ok |-> TRUE, took |-> (pos - at) + len,
                 value |-> [type |-> t, data |-> IF t # "bool" THEN raw
                                                 ELSE IF raw = <<0>> THEN raw ELSE <<1>>]]

\* skip_value: how many bytes the value at an offset takes.
SkipValue(data, at) ==
  IF ~Readable(data, at, 1) \/ TypeOf(data, at) = {} THEN CorruptValue
  ELSE LET total == CASE TypeOf(data, at) \subseteq {"i64", "f64"} -> 9
                      [] TypeOf(data, at) = {"bool"} -> 2
                      [] OTHER -> IF Readable(data, at + 1, 4) THEN 5 + U32At(data, at + 1)
                                  ELSE Len(data) + 1
       IN  IF Readable(data, at, total) THEN [ok |-> TRUE, took |-> total] ELSE CorruptValue

\* The loop of the two decoders: a key, then its value read by Read, which
\* says whether it is kept.
DecodeEach(data, count, Read(_, _)) ==
  LET step(s) ==
        LET len == data[s.at + 1]
            key == BytesAt(data, s.at + 1, len)
            got == Read(key, s.at + 1 + len)
        IN  IF ~s.ok \/ ~Readable(data, s.at, 1) THEN [s EXCEPT !.ok = FALSE]
            ELSE IF ~Readable(data, s.at + 1, len) \/ ~got.ok THEN [s EXCEPT !.ok = FALSE]
            ELSE [ok |-> TRUE, at |-> s.at + 1 + len + got.took,
                  props |-> IF "value" \in DOMAIN got THEN (key :> got.value) @@ s.props ELSE s.props]
      after[n \in 0..count] ==
        IF n = 0 THEN [ok |-> TRUE, at |-> 0, props |-> NoProps] ELSE step(after[n - 1])
  IN  after[count]

\* decode_properties
DecodeProperties(data, count) ==
  DecodeEach(data, count, LAMBDA key, at : DecodeValue(data, at))

\* decode_properties_projected
DecodeProjected(data, count, keys) ==
  DecodeEach(data, count, LAMBDA key, at :
    IF key \in keys THEN DecodeValue(data, at) ELSE SkipValue(data, at))

\* A record is written; a key that is too long is refused.
NextProps ==
  \E props \in PropertyMaps :
    /\ \A k \in DOMAIN props : Len(k) <= MaxKeyLen
    /\ propRow' = [props |-> props, bytes |-> EncodeProperties(props)]

----------------------------------------------------------------------------
(* Properties.                                                             *)

\* What is stored is read back, and a projection reads the same values of its
\* keys and ends at the same byte, whatever it stepped over.
ProjectionAgrees ==
  LET p == propRow.props
      data == propRow.bytes
      n == Cardinality(DOMAIN p)
  IN  /\ DecodeProperties(data, n) = [ok |-> TRUE, at |-> Len(data), props |-> p]
      /\ \A keys \in Projections :
           DecodeProjected(data, n, keys) =
             [ok |-> TRUE, at |-> Len(data), props |-> Restrict(p, keys \cap DOMAIN p)]

\* Bytes cut short are refused by both readers, by the projection also when
\* the cut is in a value it steps over.
CutPropertiesAreRefused ==
  LET data == propRow.bytes
      n == Cardinality(DOMAIN propRow.props)
  IN  \A cut \in 0..(Len(data) - 1) :
        /\ ~DecodeProperties(SubSeq(data, 1, cut), n).ok
        /\ \A keys \in Projections : ~DecodeProjected(SubSeq(data, 1, cut), n, keys).ok

-----------------------------------------------------------------------------
(* A slot has 128 bytes, in which a label and properties that fit are kept *)
(* in place, and the others as a reference that is patched in after they   *)
(* were written elsewhere.  No byte says that properties are elsewhere: it *)
(* is read off a count above zero with no bytes in place.  Relinking a     *)
(* node patches its two adjacency heads beneath the rest.  Numbers that    *)
(* are only copied (ids, references, heads) are their bytes.               *)

CONSTANTS SlotLabels,     \* labels to store, as bytes
          SlotMaps,       \* properties to store
          Heads           \* adjacency heads to link, as four bytes

SlotSize == 128
InlineLabel == [node |-> 47, edge |-> 55]
InlineProps == [node |-> 38, edge |-> 30]
MaxCount == 65535
SlotLive == 1
SlotTombstone == 2
LabelElsewhere == 255
NoHead == <<255, 255, 255, 255>>
HeadOutgoing == 1
HeadIncoming == 2

\* The offsets of the two layouts.  The hash of the label, which no decoder
\* reads, is left out.
Off ==
  [node |-> [flags |-> 0, id |-> 1, labelLen |-> 13, label |-> 14, labelRef |-> 61, propCount |-> 65,
             propLen |-> 67, props |-> 69, propRef |-> 107, out |-> 111, adjFlags |-> 115, in |-> 116],
   edge |-> [flags |-> 0, id |-> 1, source |-> 9, target |-> 17, labelLen |-> 29, label |-> 30,
             labelRef |-> 85, propCount |-> 89, propLen |-> 91, props |-> 93, propRef |-> 123]]

VARIABLE cell     \* one slot of a page: what it should hold, and its bytes
slotVars == <<cell>>

EmptySlot == [k \in 1..SlotSize |-> 0]
Patch(slot, at, bytes) ==
  [k \in 1..SlotSize |-> IF k - at \in 1..Len(bytes) THEN bytes[k - at] ELSE slot[k]]
Dead == [kind |-> "none"]
InitSlot == cell = [rec |-> Dead, slot |-> EmptySlot]

\* A record as the code holds it.  An edge has its ends where a node has its
\* heads.
NodeId == <<11, 12, 13, 14, 15, 16, 17, 18>>
Ends == <<21, 22, 23, 24, 25, 26, 27, 28>> \o <<31, 32, 33, 34, 35, 36, 37, 38>>
LabelRef == <<41, 42, 43, 44>>
PropRef == <<51, 52, 53, 54>>
HeadFlags(out, in) ==
  (IF out = NoHead THEN 0 ELSE HeadOutgoing) + (IF in = NoHead THEN 0 ELSE HeadIncoming)

\* The part of encode_node_slot and encode_edge_slot that is the same: the
\* label and the properties in place when they fit.
EncodeParts(kind, label, props, slot) ==
  LET o == Off[kind]
      bytes == EncodeProperties(props)
      labelled == IF Len(label) <= InlineLabel[kind]
                  THEN Patch(Patch(slot, o.labelLen, <<Len(label)>>), o.label, label)
                  ELSE Patch(slot, o.labelLen, <<LabelElsewhere>>)
      counted == Patch(labelled, o.propCount, LittleEndian(Cardinality(DOMAIN props), 2))
  IN  IF Len(bytes) <= InlineProps[kind]
      THEN Patch(Patch(counted, o.propLen, LittleEndian(Len(bytes), 2)), o.props, bytes)
      ELSE Patch(counted, o.propLen, LittleEndian(0, 2))

\* Mutant: writing a node forgets its adjacency heads.
EncodeNode_FreshHeads(r) ==
  LET o == Off.node
      base == Patch(Patch(EmptySlot, o.flags, <<SlotLive>>), o.id, NodeId)
  IN  Patch(Patch(Patch(EncodeParts("node", r.label, r.props, base),
                        o.out, NoHead), o.adjFlags, <<0>>), o.in, NoHead)

\* encode_node_slot
EncodeNode(r) ==
  LET o == Off.node
      base == Patch(Patch(EmptySlot, o.flags, <<SlotLive>>), o.id, NodeId)
  IN  Patch(Patch(Patch(EncodeParts("node", r.label, r.props, base),
                        o.out, r.out), o.adjFlags, <<r.adjFlags>>), o.in, r.in)

\* encode_edge_slot
EncodeEdge(r) ==
  LET o == Off.edge
      base == Patch(Patch(EmptySlot, o.flags, <<SlotLive>>), o.id, NodeId)
  IN  EncodeParts("edge", r.label, r.props, Patch(base, o.source, Ends))

\* patch_overflow and patch_edge_overflow: both references at once, 0 for a
\* part that is in place.
PatchOverflow(r, slot) ==
  LET o == Off[r.kind]
      zero == <<0, 0, 0, 0>>
      elsewhere == [label |-> Len(r.label) > InlineLabel[r.kind],
                    props |-> Len(EncodeProperties(r.props)) > InlineProps[r.kind]]
  IN  Patch(Patch(slot, o.labelRef, IF elsewhere.label THEN LabelRef ELSE zero),
            o.propRef, IF elsewhere.props THEN PropRef ELSE zero)

SlotOf(r) == PatchOverflow(r, IF r.kind = "node" THEN EncodeNode(r) ELSE EncodeEdge(r))

\* A slice of the slot: Rust panics when it runs past the end.
SlotBytes(slot, at, len) == SubSeq(slot, at + 1, at + len)
U16(slot, at) == FromLittle(SlotBytes(slot, at, 2))
NeedsLabel(kind, slot) == slot[Off[kind].labelLen + 1] = LabelElsewhere
NeedsProps(kind, slot) ==
  U16(slot, Off[kind].propCount) > 0 /\ U16(slot, Off[kind].propLen) = 0

Refused == [kind |-> "refused"]
Panicked == [kind |-> "panicked"]
Text(s) == [kind |-> "read", bytes |-> s]

\* The label of decode_node_slot and decode_edge_slot: resolved, or sliced by a
\* length that is checked first.
SlotLabel(kind, slot, strings) ==
  LET len == slot[Off[kind].labelLen + 1]
      ref == SlotBytes(slot, Off[kind].labelRef, 4)
  IN  IF NeedsLabel(kind, slot)
      THEN (IF ref \in DOMAIN strings THEN Text(strings[ref]) ELSE Refused)
      ELSE IF len > InlineLabel[kind] THEN Refused
      ELSE IF Off[kind].label + len > SlotSize THEN Panicked
      ELSE Text(SlotBytes(slot, Off[kind].label, len))

\* slot_inline_label and edge_slot_inline_label, called when no resolution is
\* needed.
InlineLabelOf(kind, slot) ==
  LET len == slot[Off[kind].labelLen + 1]
  IN  IF len > InlineLabel[kind] THEN Refused
      ELSE IF Off[kind].label + len > SlotSize THEN Panicked
      ELSE Text(SlotBytes(slot, Off[kind].label, len))

\* The bytes the properties are decoded from.
SlotProps(kind, slot, blobs) ==
  LET len == U16(slot, Off[kind].propLen)
      ref == SlotBytes(slot, Off[kind].propRef, 4)
  IN  IF len > InlineProps[kind] THEN Refused
      ELSE IF NeedsProps(kind, slot)
      THEN (IF ref \in DOMAIN blobs THEN Text(blobs[ref]) ELSE Refused)
      ELSE IF Off[kind].props + len > SlotSize THEN Panicked
      ELSE Text(SlotBytes(slot, Off[kind].props, len))

\* decode_node_slot_inner: with a projection the properties elsewhere are not
\* touched when nothing is asked of them.  The projection is <<>> or <<keys>>.
EveryKey == <<>>
DecodeNode(slot, strings, blobs, projection) ==
  LET o == Off.node
      label == SlotLabel("node", slot, strings)
      props == SlotProps("node", slot, blobs)
      count == U16(slot, o.propCount)
      got == IF projection = EveryKey THEN DecodeProperties(props.bytes, count)
             ELSE DecodeProjected(props.bytes, count, projection[1])
      node(p) == [kind |-> "node", label |-> label.bytes, props |-> p,
                  out |-> SlotBytes(slot, o.out, 4), in |-> SlotBytes(slot, o.in, 4),
                  adjFlags |-> slot[o.adjFlags + 1]]
  IN  IF slot[1] \in {0, SlotTombstone} THEN Dead
      ELSE IF label.kind # "read" THEN label
      ELSE IF U16(slot, o.propLen) > InlineProps.node THEN Refused
      ELSE IF projection = <<{}>> THEN node(NoProps)
      ELSE IF props.kind # "read" THEN props
      ELSE IF ~got.ok THEN Refused ELSE node(got.props)

\* decode_edge_slot
DecodeEdge(slot, strings, blobs) ==
  LET o == Off.edge
      label == SlotLabel("edge", slot, strings)
      props == SlotProps("edge", slot, blobs)
      got == DecodeProperties(props.bytes, U16(slot, o.propCount))
  IN  IF slot[1] \in {0, SlotTombstone} THEN Dead
      ELSE IF label.kind # "read" THEN label
      ELSE IF props.kind # "read" THEN props
      ELSE IF ~got.ok THEN Refused
      ELSE [kind |-> "edge", label |-> label.bytes, props |-> got.props,
            ends |-> SlotBytes(slot, o.source, 16)]

\* patch_adj_pointer: both heads and their flags, nothing else.
PatchAdjPointer(slot, out, in) ==
  Patch(Patch(Patch(slot, Off.node.out, out), Off.node.in, in),
        Off.node.adjFlags, <<HeadFlags(out, in)>>)

----------------------------------------------------------------------------
\* A new record is written; a node has no heads yet.
WriteRecord(kind, label, props) ==
  LET r == IF kind = "node"
           THEN [kind |-> kind, label |-> label, props |-> props,
                 out |-> NoHead, in |-> NoHead, adjFlags |-> 0]
           ELSE [kind |-> kind, label |-> label, props |-> props, ends |-> Ends]
  IN  /\ cell.rec = Dead
      /\ Cardinality(DOMAIN props) <= MaxCount
      /\ cell' = [rec |-> r, slot |-> SlotOf(r)]

\* What the references of the slot lead to.
Strings_(r) == LabelRef :> r.label
Blobs_(r) == PropRef :> EncodeProperties(r.props)
Decoded(c, projection) ==
  IF c.rec.kind = "edge" THEN DecodeEdge(c.slot, Strings_(c.rec), Blobs_(c.rec))
  ELSE DecodeNode(c.slot, Strings_(c.rec), Blobs_(c.rec), projection)

\* A record is read, changed and written again: its heads or its ends are the
\* ones that were read.
RewriteRecord(label, props) ==
  LET old == Decoded(cell, EveryKey)
      new == [old EXCEPT !.label = label, !.props = props]
  IN  /\ cell.rec # Dead
      /\ Cardinality(DOMAIN props) <= MaxCount
      /\ cell' = [rec |-> [cell.rec EXCEPT !.label = label, !.props = props], slot |-> SlotOf(new)]

\* An edge of the node is linked or unlinked.
Relink(out, in) ==
  /\ cell.rec.kind = "node"
  /\ cell' = [rec |-> [cell.rec EXCEPT !.out = out, !.in = in, !.adjFlags = HeadFlags(out, in)],
              slot |-> PatchAdjPointer(cell.slot, out, in)]

\* The record is removed: the flag byte alone changes.
Bury ==
  /\ cell.rec # Dead
  /\ cell' = [rec |-> Dead, slot |-> Patch(cell.slot, 0, <<SlotTombstone>>)]

NextSlot ==
  \/ \E kind \in {"node", "edge"}, label \in SlotLabels, props \in SlotMaps :
       WriteRecord(kind, label, props)
  \/ \E label \in SlotLabels, props \in SlotMaps : RewriteRecord(label, props)
  \/ \E out, in \in Heads \cup {NoHead} : Relink(out, in)
  \/ Bury

----------------------------------------------------------------------------
(* Properties.                                                             *)

\* Whatever was written, rewritten and relinked before, the slot reads back as
\* the record: label and properties of the lengths at which they move
\* elsewhere, ends, heads and flags.  A projection reads its share of it, and
\* a removed record reads as none.
SlotReadsBack ==
  /\ Decoded(cell, EveryKey) = cell.rec
  /\ cell.rec.kind = "node" =>
       \A keys \in Projections :
         Decoded(cell, <<keys>>) =
           [cell.rec EXCEPT !.props = Restrict(cell.rec.props, keys \cap DOMAIN cell.rec.props)]

\* "A length that is wrong but consistent" (node_codec.rs): whatever the two
\* length fields of a live slot say, the readers answer or refuse, and never
\* slice past the slot.
WrongLengthsAreRefused ==
  cell.rec # Dead =>
    LET kind == cell.rec.kind
        o == Off[kind]
    IN  \A len \in {0, 30, 31, 38, 39, 47, 48, 55, 56, 114, 115, 254, 255} :
          LET longLabel == [cell EXCEPT !.slot = Patch(@, o.labelLen, <<len>>)]
              longProps == [cell EXCEPT !.slot = Patch(@, o.propLen, LittleEndian(len * 256 + len, 2))]
          IN  /\ Decoded(longLabel, EveryKey) # Panicked
              /\ Decoded(longProps, EveryKey) # Panicked
              /\ InlineLabelOf(kind, longLabel.slot) # Panicked

\* What the codecs wrote they read back, whole, projected or relinked, and
\* what is cut short or has a wrong length they refuse (property_codec.rs,
\* node_codec.rs, edge_codec.rs).
RecordsReadBack ==
  /\ ProjectionAgrees /\ CutPropertiesAreRefused
  /\ SlotReadsBack /\ WrongLengthsAreRefused
=============================================================================
