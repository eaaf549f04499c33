------------------------ MODULE LittleEndianBytes ------------------------
(***************************************************************************)
(* to_le_bytes and from_le_bytes, as the codecs of the storage layer use   *)
(* them: a number is its bytes, lowest first.                              *)
(***************************************************************************)
EXTENDS Integers, Sequences

LittleEndian(n, w) == [k \in 1..w |-> (n \div 256 ^ (k - 1)) % 256]
FromLittle(s) ==
  LET value[k \in 0..Len(s)] == IF k = 0 THEN 0 ELSE value[k - 1] + s[k] * 256 ^ (k - 1)
  IN  value[Len(s)]
=============================================================================
