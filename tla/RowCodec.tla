------------------------------ MODULE RowCodec ------------------------------
(***************************************************************************)
(* Row payloads, column predicates and the columns of an SST file:         *)
(* crates/hatp-engine/src/row_codec.rs, column_predicate.rs, sst_format.rs *)
(* and vortex_sst.rs, and the translation of filters in                    *)
(* crates/hatp-frontend/src/predicate_translator.rs.                       *)
(*                                                                         *)
(* A row is a sequence of scalars.  A layout is a sequence of columns      *)
(* [ty, nullable]: an Arrow schema, whose field names are positions here.  *)
(* A payload is a sequence of integers; a value of fixed width is one of   *)
(* them.                                                                   *)
(*                                                                         *)
(* A comparison is [op, col, lit], a filter a sequence of conjuncts, and a *)
(* conjunct a sequence of comparisons of which one must hold: one          *)
(* comparison, or an OR, which no layer below the SQL engine understands.  *)
(***************************************************************************)
EXTENDS KeyCodec
LOCAL INSTANCE SequencesExt

-----------------------------------------------------------------------------
(* row_codec.rs. *)

\* scalar_to_value_bytes: a string behind its length.
ValueBytes(s) ==
  IF s.ty = "utf8" THEN <<Len(ValueOf(s))>> \o ValueOf(s) ELSE ValueOf(s)

\* encode_row: a marker per column, 0 for NULL, and the value after a 1.
EncodeRow(row) ==
  FoldLeft(LAMBDA out, s : out \o (IF IsNull(s) THEN <<0>> ELSE <<1>> \o ValueBytes(s)),
           << >>, row)

\* value_bytes_to_scalar: none when the payload is too short.
ReadValue(bytes, pos, ty) ==
  IF pos > Len(bytes) THEN {}
  ELSE IF ty # "utf8"
  THEN {[s |-> [ty |-> ty, opt |-> {<<IF ty = "bool" /\ bytes[pos] # 0 THEN 1 ELSE bytes[pos]>>}],
         next |-> pos + 1]}
  ELSE IF bytes[pos] < 0 \/ pos + bytes[pos] > Len(bytes) THEN {}
  ELSE {[s |-> [ty |-> ty, opt |-> {SubSeq(bytes, pos + 1, pos + bytes[pos])}],
         next |-> pos + 1 + bytes[pos]]}

\* One column of decode_row_into, decode_row_full and decode_row_narrow.
ReadColumn(bytes, acc, column) ==
  IF ~acc.ok \/ acc.pos > Len(bytes) THEN [acc EXCEPT !.ok = FALSE]
  ELSE IF bytes[acc.pos] = 0
  THEN [acc EXCEPT !.pos = @ + 1, !.row = Append(@, TypedNull(column.ty))]
  ELSE LET read == ReadValue(bytes, acc.pos + 1, column.ty)
       IN  IF read = {} THEN [acc EXCEPT !.ok = FALSE]
           ELSE LET r == CHOOSE r \in read : TRUE
                IN  [acc EXCEPT !.pos = r.next, !.row = Append(@, r.s)]

\* decode_row_values, decode_row_into: [ok, row].  Bytes left over are ignored.
DecodeRow(bytes, layout) ==
  FoldLeft(LAMBDA acc, column : ReadColumn(bytes, acc, column),
           [ok |-> TRUE, pos |-> 1, row |-> << >>], layout)

\* decode_row_narrow: every column is walked, the wanted ones are kept.  Of a
\* column named twice the last place gets the value.
DecodeNarrow(bytes, layout, cols) ==
  LET all == DecodeRow(bytes, layout)
  IN  [ok  |-> all.ok,
       row |-> IF ~all.ok THEN << >>
               ELSE [i \in 1..Len(cols) |->
                       IF \E j \in (i + 1)..Len(cols) : cols[j] = cols[i]
                       THEN TypedNull("null") ELSE all.row[cols[i]]]]

-----------------------------------------------------------------------------
(* column_predicate.rs, predicate_translator.rs. *)

\* evaluate: NULL satisfies nothing.
Evaluate(p, s) ==
  /\ ~IsNull(s)
  /\ CASE p.op = "eq" -> s = p.lit
       [] p.op = "lt" -> ScalarLess(s, p.lit)
       [] p.op = "le" -> ScalarLess(s, p.lit) \/ s = p.lit
       [] p.op = "gt" -> ScalarLess(p.lit, s)
       [] p.op = "ge" -> ScalarLess(p.lit, s) \/ s = p.lit

\* row_matches, row_matches_predicates: a column out of range matches nothing.
RowMatches(row, preds) ==
  \A i \in 1..Len(preds) :
    preds[i].col <= Len(row) /\ Evaluate(preds[i], row[preds[i].col])

\* expr_to_column_predicates over the conjuncts: an OR yields nothing.
ColumnPredicates(filter) ==
  FoldLeft(LAMBDA out, c : IF Len(c) = 1 THEN Append(out, c[1]) ELSE out, << >>, filter)

\* try_translate_pk_predicates: all conjuncts are equalities, or none at all.
PkPredicates(filter) ==
  IF filter # << >> /\ \A i \in 1..Len(filter) : Len(filter[i]) = 1 /\ filter[i][1].op = "eq"
  THEN {ColumnPredicates(filter)} ELSE {}

\* The SQL engine's own evaluation of a filter on a row.
Holds(filter, row) ==
  \A i \in 1..Len(filter) :
    \E j \in 1..Len(filter[i]) : Evaluate(filter[i][j], row[filter[i][j].col])

-----------------------------------------------------------------------------
(* sst_format.rs, vortex_sst.rs: rows as columns of a file. *)

\* build_column_array: a boolean column holds no NULLs.
StoredScalar(s) == IF s.ty = "bool" /\ IsNull(s) THEN [s EXCEPT !.opt = {<<0>>}] ELSE s

\* write: the columns of a row, decoded with the layout the file is written
\* with; NULLs for a tombstone and for a payload that does not decode.
StoredRow(val, layout) ==
  LET decoded == {d \in {DecodeRow(b, layout) : b \in val} : d.ok}
  IN  [i \in 1..Len(layout) |->
         IF decoded = {} THEN StoredScalar(TypedNull(layout[i].ty))
         ELSE StoredScalar((CHOOSE d \in decoded : TRUE).row[i])]

\* can_vortex_pushdown: everything but <=.
CanVortexPushdown(p) == p.op # "le" /\ ~IsNull(p.lit)

\* Fault: the comparison with a literal of another kind becomes an equality.
ColumnPredToVortex_AsEq(p) ==
  IF p.op = "eq" \/ p.lit.ty \in {"bool", "utf8"} THEN {[p EXCEPT !.op = "eq"]}
  ELSE IF p.op = "le" THEN {} ELSE {p}

\* column_pred_to_vortex: equality on every type, <, > and >= on numbers; what
\* cannot be said is none.
ColumnPredToVortex(p) ==
  IF p.op = "eq" \/ (p.op # "le" /\ p.lit.ty \in {"i16", "float"}) THEN {p} ELSE {}

\* The predicates that reach the filter of a file scan.
Pushed(preds) == UNION {ColumnPredToVortex(preds[i]) : i \in 1..Len(preds)}
=============================================================================
