---------------------------- MODULE PackStream ----------------------------
(***************************************************************************)
(* The binary values of the Bolt protocol: the encoder and the decoder of  *)
(* packstream/, and the two conversions of the server between these values *)
(* and those of the query language (wire.rs, params.rs).  Bytes, markers   *)
(* and the limits of a length are the real ones; only the widths of the    *)
(* four integer forms are a parameter.  A string is its bytes, all of them *)
(* ASCII; a float is its eight bytes.                                      *)
(***************************************************************************)
EXTENDS Integers, SequencesExt, FiniteSetsExt, TLC

CONSTANTS IntWidths,       \* bytes of INT8, INT16, INT32 and INT64: <<1, 2, 4, 8>>
          MaxDecodeDepth,  \* MAX_DECODE_DEPTH
          PackValues,      \* values to encode
          PackBuffers      \* byte strings to decode

ASSUME PackBounds ==
  /\ DOMAIN IntWidths = 1..4 /\ IntWidths[1] = 1
  /\ \A k \in 2..4 : IntWidths[k - 1] < IntWidths[k]
  /\ MaxDecodeDepth \in Nat

VARIABLE packing           \* one value on its way through the codec
packVars == <<packing>>

PNull == [null |-> TRUE]
PBool(b) == [bool |-> b]
PInt(i) == [int |-> i]
PFloat(bits) == [float |-> bits]
PStr(s) == [str |-> s]
PBytes(s) == [bytes |-> s]
PList(s) == [list |-> s]
PDict(pairs) == [dict |-> pairs]                   \* pairs <<key, value>> in order
PStruct(tag, fields) == [tag |-> tag, fields |-> fields]
Has(v, k) == k \in DOMAIN v

----------------------------------------------------------------------------
(* Bytes.                                                                  *)

\* to_be_bytes and from_be_bytes: the low w bytes of n, highest first, and
\* what w bytes say as an unsigned and as a signed number.
BigEndian(n, w) == [k \in 1..w |-> (n \div 256 ^ (w - k)) % 256]
Unsigned(s) == FoldLeft(LAMBDA acc, b : 256 * acc + b, 0, s)
Signed8(b) == IF b >= 128 THEN b - 256 ELSE b
SignedInt(s) == FoldLeft(LAMBDA acc, b : 256 * acc + b, Signed8(s[1]), Tail(s))
Within(n, w) == -(128 * 256 ^ (w - 1)) <= n /\ n <= 127 * 256 ^ (w - 1) + (256 ^ (w - 1) - 1)

\* The markers that have one code each, by kind; the three forms of a sized
\* kind have consecutive codes.
NullMarker == 192
FloatMarker == 193
BoolMarker(b) == IF b THEN 195 ELSE 194
IntMarker(k) == 199 + k
SizedMarker == [bytes |-> 204, str |-> 208, list |-> 212, dict |-> 216]
TinyBase == [str |-> 128, list |-> 144, dict |-> 160, struct |-> 176]

\* A float that is neither a NaN nor infinite: its exponent is not all ones.
IsFinite(bits) == ~(bits[1] % 128 = 127 /\ bits[2] >= 240)

\* from_utf8 of the strings considered here.
ValidUtf8(s) == \A k \in DOMAIN s : s[k] < 128

----------------------------------------------------------------------------
(* The encoder.                                                            *)

\* Mutant: the one-byte form is given one negative number too many.
encode_int_TinyToMinus17(i) ==
  IF -17 <= i /\ i <= 127 THEN <<i % 256>>
  ELSE LET k == IF -128 <= i /\ i <= -17 THEN 1
                ELSE Min({k \in 2..4 : k = 4 \/ Within(i, IntWidths[k])})
       IN  <<IntMarker(k)>> \o BigEndian(i, IntWidths[k])

\* encode_int: the shortest form that holds the number; INT8 is only needed
\* below the range of the one-byte form.
encode_int(i) ==
  IF -16 <= i /\ i <= 127 THEN <<i % 256>>
  ELSE LET k == IF -128 <= i /\ i <= -17 THEN 1
                ELSE Min({k \in 2..4 : k = 4 \/ Within(i, IntWidths[k])})
       IN  <<IntMarker(k)>> \o BigEndian(i, IntWidths[k])

\* The header of a length that has no form in the marker byte.
LongHeader(len, kind) ==
  CASE len <= 255 -> <<SizedMarker[kind]>> \o BigEndian(len, 1)
    [] len > 255 /\ len <= 65535 -> <<SizedMarker[kind] + 1>> \o BigEndian(len, 2)
    [] len > 65535 -> <<SizedMarker[kind] + 2>> \o BigEndian(len, 4)

encode_sized_header(len, kind) ==
  IF len <= 15 THEN <<TinyBase[kind] + len>> ELSE LongHeader(len, kind)

encode_string(s) == encode_sized_header(Len(s), "str") \o s
encode_bytes(s) == LongHeader(Len(s), "bytes") \o s

\* encode fails on a float that is not finite, wherever it is.
RECURSIVE Encodable(_)
Encodable(v) ==
  CASE Has(v, "float") -> IsFinite(v.float)
    [] Has(v, "list") -> \A k \in DOMAIN v.list : Encodable(v.list[k])
    [] Has(v, "dict") -> \A k \in DOMAIN v.dict : Encodable(v.dict[k][2])
    [] Has(v, "tag") -> \A k \in DOMAIN v.fields : Encodable(v.fields[k])
    [] OTHER -> TRUE

\* encode of a value with its composites; a structure's header says at most
\* fifteen fields, and all of them follow.
RECURSIVE encode(_)
encode_list(items) ==
  encode_sized_header(Len(items), "list") \o FlattenSeq([k \in DOMAIN items |-> encode(items[k])])
encode_dict(pairs) ==
  encode_sized_header(Len(pairs), "dict")
    \o FlattenSeq([k \in DOMAIN pairs |-> encode_string(pairs[k][1]) \o encode(pairs[k][2])])
encode_struct(tag, fields) ==
  <<TinyBase.struct + Min({Len(fields), 15}), tag>>
    \o FlattenSeq([k \in DOMAIN fields |-> encode(fields[k])])
encode(v) ==
  CASE Has(v, "null") -> <<NullMarker>>
    [] Has(v, "bool") -> <<BoolMarker(v.bool)>>
    [] Has(v, "int") -> encode_int(v.int)
    [] Has(v, "float") -> <<FloatMarker>> \o v.float
    [] Has(v, "str") -> encode_string(v.str)
    [] Has(v, "bytes") -> encode_bytes(v.bytes)
    [] Has(v, "list") -> encode_list(v.list)
    [] Has(v, "dict") -> encode_dict(v.dict)
    [] Has(v, "tag") -> encode_struct(v.tag, v.fields)

----------------------------------------------------------------------------
(* The decoder: a value with the position after it, or why there is none.  *)

Got(v, next) == [ok |-> TRUE, v |-> v, next |-> next]
Bad(why) == [ok |-> FALSE, why |-> why]

\* require_bytes_from: n bytes from position `at` on.
require_bytes_from(buf, at, n) == Len(buf) - (at - 1) >= n

Slice(buf, at, n) == SubSeq(buf, at, at + n - 1)

\* F of a value that is computed once.
With(v, F(_)) == CHOOSE y \in {F(x) : x \in {v}} : TRUE

decode_string_body(buf, at, len) ==
  CASE ~require_bytes_from(buf, at, len) -> Bad("underflow")
    [] require_bytes_from(buf, at, len) /\ ~ValidUtf8(Slice(buf, at, len)) -> Bad("utf8")
    [] OTHER -> Got(PStr(Slice(buf, at, len)), at + len)

decode_bytes_body(buf, at, len) ==
  IF require_bytes_from(buf, at, len) THEN Got(PBytes(Slice(buf, at, len)), at + len) ELSE Bad("underflow")
decode_integer_at(buf, w, at) ==
  IF require_bytes_from(buf, at, w) THEN Got(PInt(SignedInt(Slice(buf, at, w))), at + w) ELSE Bad("underflow")
decode_float(buf, at) ==
  IF require_bytes_from(buf, at, 8) THEN Got(PFloat(Slice(buf, at, 8)), at + 8) ELSE Bad("underflow")

\* The limit on nesting, checked by each of the three composites.
TooDeep(depth) == depth >= MaxDecodeDepth

RECURSIVE decode_at(_, _, _)

\* `count` values one after the other, one level down: the loop of the three
\* composites.
RECURSIVE ItemsFrom(_, _, _, _, _)
ItemsFrom(buf, at, count, depth, items) ==
  IF count = 0 THEN Got(items, at)
  ELSE With(decode_at(buf, at, depth + 1),
            LAMBDA r : IF r.ok THEN ItemsFrom(buf, r.next, count - 1, depth, Append(items, r.v)) ELSE r)
decode_list_body(buf, at, count, depth) ==
  IF TooDeep(depth) THEN Bad("depth")
  ELSE With(ItemsFrom(buf, at, count, depth, <<>>), LAMBDA r : IF r.ok THEN Got(PList(r.v), r.next) ELSE r)
decode_struct_body(buf, at, tag, count, depth) ==
  IF TooDeep(depth) THEN Bad("depth")
  ELSE With(ItemsFrom(buf, at, count, depth, <<>>), LAMBDA r : IF r.ok THEN Got(PStruct(tag, r.v), r.next) ELSE r)

RECURSIVE PairsFrom(_, _, _, _, _)
PairsFrom(buf, at, count, depth, pairs) ==
  LET Value(key) ==
        With(decode_at(buf, key.next, depth + 1),
             LAMBDA val : IF val.ok THEN PairsFrom(buf, val.next, count - 1, depth, Append(pairs, <<key.v.str, val.v>>))
                          ELSE val)
  IN  IF count = 0 THEN Got(PDict(pairs), at)
      ELSE With(decode_at(buf, at, depth + 1),
                LAMBDA key : CASE ~key.ok -> key
                               [] key.ok /\ ~Has(key.v, "str") -> Bad("key")
                               [] key.ok /\ Has(key.v, "str") -> Value(key))
decode_dict_body(buf, at, count, depth) ==
  IF TooDeep(depth) THEN Bad("depth") ELSE PairsFrom(buf, at, count, depth, <<>>)

\* The body of a sized kind whose length is known.
BodyOf(kind, buf, at, len, depth) ==
  CASE kind = "str" -> decode_string_body(buf, at, len)
    [] kind = "bytes" -> decode_bytes_body(buf, at, len)
    [] kind = "list" -> decode_list_body(buf, at, len, depth)
    [] kind = "dict" -> decode_dict_body(buf, at, len, depth)

\* decode_at, by the marker at position `at`.
decode_at(buf, at, depth) ==
  IF ~require_bytes_from(buf, at, 1) THEN Bad("underflow")
  ELSE
    LET marker == buf[at]
        start == at + 1
        low == marker % 16
        Long(kind) == {j \in 0..2 : marker = SizedMarker[kind] + j}
    IN  CASE marker <= 127 \/ marker >= 240 -> Got(PInt(Signed8(marker)), start)
          [] \E kind \in {"str", "list", "dict"} : marker - low = TinyBase[kind] ->
               BodyOf(CHOOSE kind \in {"str", "list", "dict"} : marker - low = TinyBase[kind], buf, start, low, depth)
          [] marker - low = TinyBase.struct ->
               IF require_bytes_from(buf, start, 1)
               THEN decode_struct_body(buf, start + 1, buf[start], low, depth) ELSE Bad("underflow")
          [] marker = NullMarker -> Got(PNull, start)
          [] marker = FloatMarker -> decode_float(buf, start)
          [] marker \in {BoolMarker(b) : b \in BOOLEAN} -> Got(PBool(marker = BoolMarker(TRUE)), start)
          [] \E k \in 1..4 : marker = IntMarker(k) -> decode_integer_at(buf, IntWidths[marker - IntMarker(0)], start)
          [] \E kind \in DOMAIN SizedMarker : Long(kind) # {} ->
               LET kind == CHOOSE kind \in DOMAIN SizedMarker : Long(kind) # {}
                   w == 2 ^ (marker - SizedMarker[kind])
               IN  IF require_bytes_from(buf, start, w)
                   THEN BodyOf(kind, buf, start + w, Unsigned(Slice(buf, start, w)), depth) ELSE Bad("underflow")
          [] OTHER -> Bad("marker")

decode(buf) == decode_at(buf, 1, 0)

----------------------------------------------------------------------------
(* Values of the query language on the wire.  They are the values above    *)
(* with maps [map |-> function of keys], nodes [id, labels, props],        *)
(* relationships [id, start, end, type, props] and paths [nodes, rels] in  *)
(* place of dictionaries, bytes and structures.                            *)

TagNode == 78
TagRelationship == 82
TagPath == 80
TagUnbound == 114

\* The order of String: the first byte that differs, then the length.
Precedes(s, t) ==
  \E k \in 1..Len(t) : /\ k <= Len(s) + 1 /\ SubSeq(s, 1, k - 1) = SubSeq(t, 1, k - 1)
                       /\ (k <= Len(s) => s[k] < t[k])
Strings(ss) == PList([k \in DOMAIN ss |-> PStr(ss[k])])

\* gql_value_to_packstream with its helpers; the entries of a map are sorted
\* by key, and the indices of a path name its relationships from 1 and its
\* nodes from 0.
RECURSIVE gql_value_to_packstream(_)

props_to_dict(f) ==
  LET keys == [k \in 1..Cardinality(DOMAIN f) |->
                 CHOOSE s \in DOMAIN f : Cardinality({t \in DOMAIN f : Precedes(t, s)}) = k - 1]
  IN  PDict([k \in DOMAIN keys |-> <<keys[k], gql_value_to_packstream(f[keys[k]])>>])

node_to_struct(n) == PStruct(TagNode, <<PInt(n.id), Strings(n.labels), props_to_dict(n.props)>>)
rel_to_struct(r) ==
  PStruct(TagRelationship, <<PInt(r.id), PInt(r.start), PInt(r.end), PStr(r.type), props_to_dict(r.props)>>)
Unbound(r) == PStruct(TagUnbound, <<PInt(r.id), PStr(r.type), props_to_dict(r.props)>>)

path_to_struct(p) ==
  PStruct(TagPath, <<PList([k \in DOMAIN p.nodes |-> node_to_struct(p.nodes[k])]),
                     PList([k \in DOMAIN p.rels |-> Unbound(p.rels[k])]),
                     PList([k \in 1..2 * Len(p.rels) |-> PInt((k + 1) \div 2)])>>)

gql_value_to_packstream(v) ==
  CASE Has(v, "list") -> PList([k \in DOMAIN v.list |-> gql_value_to_packstream(v.list[k])])
    [] Has(v, "map") -> props_to_dict(v.map)
    [] Has(v, "node") -> node_to_struct(v.node)
    [] Has(v, "rel") -> rel_to_struct(v.rel)
    [] Has(v, "path") -> path_to_struct(v.path)
    [] OTHER -> v

\* packstream_to_gql_value: bytes and structures are no parameters; of two
\* entries with one key the later counts.
Unsupported == [unsupported |-> TRUE]
LastWith(pairs, key) == Max({k \in DOMAIN pairs : pairs[k][1] = key})
RECURSIVE packstream_to_gql_value(_)
bolt_dict_to_value_map(pairs) ==
  LET vals == [k \in DOMAIN pairs |-> packstream_to_gql_value(pairs[k][2])]
  IN  IF \E k \in DOMAIN pairs : vals[k] = Unsupported THEN Unsupported
      ELSE [map |-> [key \in {pairs[k][1] : k \in DOMAIN pairs} |-> vals[LastWith(pairs, key)]]]
packstream_to_gql_value(v) ==
  CASE Has(v, "list") ->
         LET items == [k \in DOMAIN v.list |-> packstream_to_gql_value(v.list[k])]
         IN  IF \E k \in DOMAIN items : items[k] = Unsupported THEN Unsupported ELSE PList(items)
    [] Has(v, "dict") -> bolt_dict_to_value_map(v.dict)
    [] Has(v, "bytes") \/ Has(v, "tag") -> Unsupported
    [] OTHER -> v

----------------------------------------------------------------------------
(* One value through the codec: converted, encoded and read; or one byte   *)
(* string that is read.                                                    *)

InitPack ==
  \/ \E v \in PackValues : packing = [at |-> "value", value |-> v]
  \/ \E b \in PackBuffers : packing = [at |-> "bytes", value |-> PNull, sent |-> PNull, bytes |-> b]

EncodeValue ==
  /\ packing.at = "value"
  /\ LET sent == gql_value_to_packstream(packing.value)
     IN  packing' = IF Encodable(sent)
                    THEN [at |-> "bytes", value |-> packing.value, sent |-> sent, bytes |-> encode(sent)]
                    ELSE [at |-> "refused", value |-> packing.value, sent |-> sent]

DecodeBytes ==
  /\ packing.at = "bytes"
  /\ packing' = [packing EXCEPT !.at = "read"] @@ [read |-> decode(packing.bytes)]

NextPack == EncodeValue \/ DecodeBytes

----------------------------------------------------------------------------
(* Properties.                                                             *)

IsRead == packing.at = "read"
Produced == IsRead /\ packing.sent # PNull

RECURSIVE Nesting(_)
Nesting(v) ==
  LET Over(S) == 1 + Max({0} \cup {Nesting(x) : x \in S})
  IN  CASE Has(v, "list") -> Over(Range(v.list))
        [] Has(v, "dict") -> Over({p[2] : p \in Range(v.dict)})
        [] Has(v, "tag") -> Over(Range(v.fields))
        [] OTHER -> 0

\* What encode wrote decode reads back, to the last byte, if it is nested no
\* deeper than MAX_DECODE_DEPTH; a deeper value is refused by the decoder
\* although the encoder wrote it.
ValuesReadBack ==
  Produced =>
    IF Nesting(packing.sent) <= MaxDecodeDepth
    THEN packing.read = Got(packing.sent, Len(packing.bytes) + 1)
    ELSE packing.read = Bad("depth")

\* No proper beginning of an encoding is a value: a message that was cut
\* short is never read as another message.
TruncationIsRefused ==
  Produced => \A k \in 0..Len(packing.bytes) - 1 : ~decode(SubSeq(packing.bytes, 1, k)).ok

\* Whatever bytes the decoder takes for a value, the encoder writes that
\* value in no more bytes: it chooses the shortest form at every boundary.
ShortestForm ==
  (IsRead /\ packing.read.ok /\ Encodable(packing.read.v)) =>
    Len(encode(packing.read.v)) <= packing.read.next - 1

\* A plain value that a result carried comes back as the same value when a
\* client sends it as a parameter; nodes, relationships and paths do not.
ResultsAreParameters ==
  LET v == packing.value
  IN  (Produced /\ packing.read.ok) =>
        packstream_to_gql_value(packing.read.v)
          \in {v, Unsupported} \ (IF DOMAIN v \in {{"node"}, {"rel"}, {"path"}} THEN {v} ELSE {Unsupported})

\* A client that follows the indices of a path walks from its first node to
\* its last over its relationships in order, each time to the node where the
\* relationship leads (a relationship walked against its direction is left
\* out: the indices do not say so).
PathsReadBack ==
  (Produced /\ Has(packing.value, "path") /\ packing.read.ok) =>
    LET p == packing.value.path
        f == packing.read.v.fields
        At(k) == f[3].list[k].int
        NodeId(j) == f[1].list[j + 1].fields[1].int
        RelId(j) == f[2].list[j].fields[1].int
    IN  \A k \in DOMAIN p.rels :
          /\ At(2 * k) + 1 \in DOMAIN f[1].list /\ At(2 * k - 1) \in DOMAIN f[2].list
          /\ NodeId(At(2 * k)) = p.rels[k].end
          /\ RelId(At(2 * k - 1)) = p.rels[k].id

\* Bytes mean one value: what is encoded is decoded, in the shortest form,
\* never from a part of it, and the server's conversions of results, paths and
\* parameters keep it.
ValuesAreFaithful ==
  /\ ValuesReadBack /\ TruncationIsRefused
  /\ ShortestForm /\ ResultsAreParameters
  /\ PathsReadBack

=============================================================================
