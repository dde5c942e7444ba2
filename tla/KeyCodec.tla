------------------------------ MODULE KeyCodec ------------------------------
(***************************************************************************)
(* Scalars and storage keys: crates/hatp-types/src/codec.rs and the key    *)
(* assembly of crates/hatp-engine/src/lib.rs.                              *)
(*                                                                         *)
(* A scalar is [ty, opt]; opt is empty for NULL and otherwise holds the    *)
(* value as a sequence of integers: the number of an "i16", 0 or 1 of a    *)
(* "bool", the bit pattern of a "float", the bytes of a "utf8".  One       *)
(* width stands for the widths the code tells apart: 16 bits for signed    *)
(* integers, 8 for floats (a sign bit and seven more).                     *)
(***************************************************************************)
EXTENDS Integers, Sequences
LOCAL INSTANCE SequencesExt

TypedNull(ty) == [ty |-> ty, opt |-> {}]
IsNull(s) == s.opt = {}
ValueOf(s) == CHOOSE v \in s.opt : TRUE

\* The order of byte strings, which the memtable and the files keep keys in.
LexLess(a, b) ==
  LET n == IF Len(a) < Len(b) THEN Len(a) ELSE Len(b)
      apart == {i \in 1..n : a[i] # b[i]}
  IN  IF apart = {} THEN Len(a) < Len(b)
      ELSE LET i == CHOOSE i \in apart : \A j \in apart : i <= j IN a[i] < b[i]

\* f32::total_cmp: the place of a bit pattern among the floats.
FloatRank(bits) == IF bits < 128 THEN bits ELSE 127 - bits

\* ScalarValue's partial order: scalars of two types, and NULLs, do not compare.
ScalarLess(a, b) ==
  /\ a.ty = b.ty /\ ~IsNull(a) /\ ~IsNull(b)
  /\ IF a.ty = "float" THEN FloatRank(ValueOf(a)[1]) < FloatRank(ValueOf(b)[1])
     ELSE LexLess(ValueOf(a), ValueOf(b))

-----------------------------------------------------------------------------
(* encode_pk_value. *)

\* Fault: the sign bit stays, so negative numbers follow positive ones.
SignFlipBe_Kept(v) == LET u == v % 65536 IN <<u \div 256, u % 256>>

\* sign_flip_be at width 2.
SignFlipBe(v) == LET u == (v + 32768) % 65536 IN <<u \div 256, u % 256>>

\* float_total_order: negatives inverted, the sign bit of the others set.
FloatTotalOrder(bits) == IF bits >= 128 THEN <<255 - bits>> ELSE <<bits + 128>>

\* escape_bytes: 0 becomes 0 255, and a 0 ends the string.
EscapeBytes(s) ==
  Append(FoldLeft(LAMBDA out, b : out \o (IF b = 0 THEN <<0, 255>> ELSE <<b>>), << >>, s), 0)

\* encode_pk_value: none for NULL.
EncodePkValue(s) ==
  IF IsNull(s) THEN {}
  ELSE {CASE s.ty = "i16"   -> SignFlipBe(ValueOf(s)[1])
          [] s.ty = "bool"  -> ValueOf(s)
          [] s.ty = "float" -> FloatTotalOrder(ValueOf(s)[1])
          [] s.ty = "utf8"  -> EscapeBytes(ValueOf(s))}

-----------------------------------------------------------------------------
(* Keys of table rows. *)

\* assemble_table_key.
AssembleTableKey(name, parts) ==
  FoldLeft(LAMBDA out, part : out \o <<0>> \o part, Append(name, 0), parts)

\* build_pk_key, build_pk_key_from_scalars: no key when a key column is NULL.
BuildPkKey(name, pk, row) ==
  IF \E i \in 1..Len(pk) : EncodePkValue(row[pk[i]]) = {} THEN {}
  ELSE {AssembleTableKey(name,
          [i \in 1..Len(pk) |-> CHOOSE p \in EncodePkValue(row[pk[i]]) : TRUE])}

\* Fault: the prefix is the bare name, which another table's name may extend.
TablePrefix_Bare(name) == name

\* table_prefix.
TablePrefix(name) == Append(name, 0)

\* prefix_upper_exclusive: the last byte that is not 255 goes up by one, and
\* what follows it goes.
PrefixUpperExclusive(prefix) ==
  LET room == {i \in 1..Len(prefix) : prefix[i] # 255}
  IN  IF room = {} THEN prefix
      ELSE LET i == CHOOSE i \in room : \A j \in room : j <= i
           IN  [SubSeq(prefix, 1, i) EXCEPT ![i] = @ + 1]

\* key_table_prefix: up to and including the first 0.
KeyTablePrefix(key) ==
  LET zeros == {i \in 1..Len(key) : key[i] = 0}
  IN  IF zeros = {} THEN key
      ELSE SubSeq(key, 1, CHOOSE i \in zeros : \A j \in zeros : i <= j)

\* The range a table scan reads: [prefix, prefix_upper_exclusive(prefix)).
InTable(key, name) ==
  LET prefix == TablePrefix(name)
  IN  ~LexLess(key, prefix) /\ LexLess(key, PrefixUpperExclusive(prefix))
=============================================================================
