----------------------------- MODULE StringHeap -----------------------------
(***************************************************************************)
(* strings.db (string_codec.rs): labels that do not fit a slot, one heap   *)
(* of bytes over the payloads of its pages.  An entry is a header with its *)
(* length and then its bytes, and may run over a page's end.  The meta     *)
(* page keeps the write offset; after a crash it is computed again from    *)
(* the last page's header, which counts the bytes used on the page.        *)
(***************************************************************************)
EXTENDS Integers, Sequences, SequencesExt, FiniteSetsExt

CONSTANTS
  Strings,       \* strings, each with its length
  HeapPayload,   \* bytes of a page after its header
  HeaderLen,     \* bytes of an entry's header
  MaxOffset,     \* the largest offset a reference can hold
  MaxHeapOpens

ASSUME HeapAssumption ==
  /\ {HeapPayload, HeaderLen, MaxOffset} \subseteq Nat \ {0}
  /\ \A s \in Strings : s.len \in Nat

VARIABLES
  heap,         \* pages: their bytes, and the bytes used as the header has it
  offset,       \* StringHeap::write_offset
  dedup,        \* StringHeap::dedup
  given,        \* history: the references handed out
  metaOffset,   \* write offset in the meta page on disk
  replay,       \* pages the log holds since it was truncated
  heapOpens

heapVars == <<heap, offset, dedup, given, metaOffset, replay, heapOpens>>

InitHeap ==
  /\ heap = <<>> /\ offset = 0 /\ dedup = {} /\ given = {}
  /\ metaOffset = 0 /\ replay = {} /\ heapOpens = 0

BlankPage == [bytes |-> [i \in 1..HeapPayload |-> <<"zero">>], used |-> 0]

\* The header and the bytes of a string.
EntryBytes(s) ==
  [i \in 1..HeaderLen |-> <<"header", s, i>>] \o [i \in 1..s.len |-> <<"byte", s, i>>]

\* Mutant: a page that was written before keeps its count of used bytes.
WriteBytes_StaleCount(pages, at, bytes) ==
  LET last == (at + Len(bytes) - 1) \div HeapPayload
      byte(p, i) == (p - 1) * HeapPayload + i - at
  IN [p \in 1..Max({Len(pages), last + 1}) |->
        LET old == IF p \in DOMAIN pages THEN pages[p] ELSE BlankPage
            end == Min({HeapPayload, at + Len(bytes) - (p - 1) * HeapPayload})
        IN IF p \notin (at \div HeapPayload) + 1 .. last + 1 THEN old
           ELSE [bytes |-> [i \in 1..HeapPayload |->
                              IF byte(p, i) \in DOMAIN bytes THEN bytes[byte(p, i)] ELSE old.bytes[i]],
                 used |-> IF old.used = 0 THEN end ELSE old.used]]

\* The write loop of append: page by page, allocating the pages it needs.
WriteBytes(pages, at, bytes) ==
  LET last == (at + Len(bytes) - 1) \div HeapPayload
      byte(p, i) == (p - 1) * HeapPayload + i - at
  IN [p \in 1..Max({Len(pages), last + 1}) |->
        LET old == IF p \in DOMAIN pages THEN pages[p] ELSE BlankPage
            end == Min({HeapPayload, at + Len(bytes) - (p - 1) * HeapPayload})
        IN IF p \notin (at \div HeapPayload) + 1 .. last + 1 THEN old
           ELSE [bytes |-> [i \in 1..HeapPayload |->
                              IF byte(p, i) \in DOMAIN bytes THEN bytes[byte(p, i)] ELSE old.bytes[i]],
                 used |-> end]]

\* StringHeap::append of a string that the table does not know; a known one
\* returns its reference and changes nothing.
AppendString(s) ==
  /\ \A d \in dedup : d.str # s
  /\ offset + HeaderLen + s.len <= MaxOffset
  /\ heap' = WriteBytes(heap, offset, EntryBytes(s))
  /\ offset' = offset + HeaderLen + s.len
  /\ dedup' = dedup \cup {[str |-> s, ref |-> offset]}
  /\ given' = given \cup {[str |-> s, ref |-> offset]}
  /\ replay' = replay \cup (offset \div HeapPayload) + 1 .. Len(heap')
  /\ UNCHANGED <<metaOffset, heapOpens>>

\* Graph::flush: the meta page gets the offset and the log is emptied.
FlushHeap ==
  /\ metaOffset # offset \/ replay # {}
  /\ metaOffset' = offset /\ replay' = {}
  /\ UNCHANGED <<heap, offset, dedup, given, heapOpens>>

\* recalculate_strings_write_offset
RecalculatedOffset(pages) ==
  IF pages = <<>> THEN 0 ELSE (Len(pages) - 1) * HeapPayload + Last(pages).used

\* Open after a crash: if the log held anything the offset is computed from
\* the pages, else it is the meta page's.  The table starts empty.
OpenHeap ==
  /\ heapOpens < MaxHeapOpens
  /\ heapOpens' = heapOpens + 1
  /\ offset' = IF replay # {} THEN RecalculatedOffset(heap) ELSE metaOffset
  /\ metaOffset' = offset' /\ replay' = {} /\ dedup' = {}
  /\ UNCHANGED <<heap, given>>

NextHeap ==
  \/ \E s \in Strings : AppendString(s)
  \/ FlushHeap
  \/ OpenHeap

SpecHeap == InitHeap /\ [][NextHeap]_heapVars

-----------------------------------------------------------------------------
\* read_heap_bytes
ReadHeapBytes(at, len) ==
  [i \in 1..len |-> heap[(at + i - 1) \div HeapPayload + 1].bytes[((at + i - 1) % HeapPayload) + 1]]

\* resolve: the header, then as many bytes as it says.
Resolve(ref) ==
  LET header == ReadHeapBytes(ref, HeaderLen) IN
  IF \E i \in DOMAIN header : header[i][1] # "header" THEN <<>>
  ELSE header \o ReadHeapBytes(ref + HeaderLen, header[1][2].len)

\* A reference handed out reads its own string for ever: no later entry, in
\* this opening or after a crash, is written over it.
ReferencesStay == \A g \in given : Resolve(g.ref) = EntryBytes(g.str)
=============================================================================
