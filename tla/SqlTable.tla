------------------------------ MODULE SqlTable ------------------------------
(***************************************************************************)
(* SQL statements on tables that share one key space:                      *)
(* crates/hatp-frontend/src/execution.rs and dml_planner.rs, and           *)
(* scan_table_arrow, rows_to_batches, ingest_batches and                   *)
(* delete_with_column_predicates of crates/hatp-engine/src/lib.rs.         *)
(*                                                                         *)
(* Keys and payloads are encoded as the code encodes them (KeyCodec,       *)
(* RowCodec).  DELETE and UPDATE plan under one snapshot and write later;  *)
(* an INSERT reads nothing and is one step.  Write, flush and compaction   *)
(* are one step each: their own interleavings are the subject of           *)
(* Durability and LsmTree, and so are dropped tables and the levels below  *)
(* the first.  Statements that fail change nothing but, for an INSERT, the *)
(* schema registry.                                                        *)
(*                                                                         *)
(* SELECT changes nothing; it is the operator Select, which the properties *)
(* evaluate in every state.                                                *)
(***************************************************************************)
EXTENDS RowCodec, VersionChain, SstRows

CONSTANTS
  Client,
  Table,            \* registered tables
  NameOf,           \* table -> the bytes of its name, none of them 0
  LayoutOf,         \* table -> its Arrow schema
  PkOf,             \* table -> positions of its primary key columns
  Inserts,          \* <<table, rows>>
  Deletes,          \* <<table, filter>>
  Updates,          \* <<table, column, scalar, filter>>
  Selects,          \* <<table, filter, projection>>
  MaxCommits, MaxFlushes, MaxCompactions

ASSUME SqlAssumption ==
  /\ \A t \in Table : /\ NameOf[t] # << >>
                      /\ \A i \in 1..Len(NameOf[t]) : NameOf[t][i] \in 1..255
                      /\ PkOf[t] # << >>
                      /\ \A i \in 1..Len(PkOf[t]) : PkOf[t][i] \in 1..Len(LayoutOf[t])
  /\ \A s \in Selects : \A i \in 1..Len(s[2]) : \A j \in 1..Len(s[2][i]) :
       \E k \in 1..Len(s[3]) : s[3][k] = s[2][i][j].col
  /\ MaxCommits \in Nat /\ MaxCommits + 1 < OpenEnded
  /\ MaxFlushes \in Nat /\ MaxCompactions \in Nat

VARIABLES
  commit_seq,       \* the next commit timestamp
  mem,              \* key -> version chain, for the keys of the memtable
  files,            \* file id -> [level, of, rows]; of: the table with whose
                    \* schema its columns were written
  table_schemas,    \* tables in the engine's schema registry
  stmt,             \* client -> the mutations it has planned, and not written
  flushes, compactions,
  (* History variable; no action reads it. *)
  truth             \* the rows that the statements so far have left: [table, row]

counts == <<flushes, compactions>>
vars == <<commit_seq, mem, files, table_schemas, stmt, counts, truth>>

Now == commit_seq - 1

Init ==
  /\ commit_seq = 1 /\ mem = << >> /\ files = << >>
  /\ table_schemas = {} /\ stmt = [c \in Client |-> {}]
  /\ flushes = 0 /\ compactions = 0
  /\ truth = {}

FullProjection(t) == [i \in 1..Len(LayoutOf[t]) |-> i]
KeyOfRow(t, row) == BuildPkKey(NameOf[t], PkOf[t], row)
PkOfRow(t, row) == [i \in 1..Len(PkOf[t]) |-> row[PkOf[t][i]]]

Level(l) == {f \in DOMAIN files : files[f].level = l}

-----------------------------------------------------------------------------
(* Reading a table. *)

\* Every version in the memtable.
MemRows ==
  UNION {{[key |-> k, begin |-> b, end |-> mem[k][b].end, val |-> mem[k][b].val] :
            b \in DOMAIN mem[k]} : k \in DOMAIN mem}

\* The rows of t in S that the snapshot sees.
VisibleRows(S, t) == {r \in S : InTable(r.key, NameOf[t]) /\ Visible(r, Now)}

\* compute_column_stats: the values of a column of t in a file.
ColumnStats(f, t, col) ==
  LET mine == {r \in files[f].rows :
                 r.val # {} /\ KeyTablePrefix(r.key) = TablePrefix(NameOf[t])}
      decoded == {DecodeRow(CHOOSE b \in r.val : TRUE, LayoutOf[t]) : r \in mine}
  IN  {s \in {d.row[col] : d \in {x \in decoded : x.ok}} : ~IsNull(s)}

\* skip_file_by_column_stats: an equality outside the bounds of the file.
SkipFile(f, t, preds) ==
  \E i \in 1..Len(preds) :
    /\ preds[i].op = "eq"
    /\ LET stats == ColumnStats(f, t, preds[i].col)
       IN  /\ stats # {}
           /\ \/ \A s \in stats : ScalarLess(preds[i].lit, s)
              \/ \A s \in stats : ScalarLess(s, preds[i].lit)

\* The file has a column of this type at this position.
Serves(f, col, ty) ==
  col <= Len(LayoutOf[files[f].of]) /\ LayoutOf[files[f].of][col].ty = ty

\* The filter that scan and scan_to_arrow_batches build names no column that
\* the file does not have.
Filterable(f, pushed) == \A p \in pushed : Serves(f, p.col, p.lit.ty)

\* A scan of t in a file, as [ok, rows]: the rows that the snapshot and the
\* pushed predicates let through.
Scanned(f, t, pushed) ==
  [ok   |-> Filterable(f, pushed),
   rows |-> {r \in VisibleRows(files[f].rows, t) :
               /\ Filterable(f, pushed)
               /\ \A p \in pushed : Evaluate(p, StoredRow(r.val, LayoutOf[files[f].of])[p.col])}]

Payload(r) == CHOOSE b \in r.val : TRUE

\* Every row that is no tombstone, with its payload decoded.
DecodedRows(rows, t) ==
  {[of |-> r, got |-> DecodeRow(Payload(r), LayoutOf[t])] : r \in {x \in rows : x.val # {}}}

FilterDecoded(ok, decoded, preds) ==
  [ok   |-> ok /\ \A d \in decoded : d.got.ok,
   rows |-> {d.of : d \in {x \in decoded : RowMatches(x.got.row, preds)}}]

FilterScan(scan, t, preds) ==
  IF preds = << >> THEN scan ELSE FilterDecoded(scan.ok, DecodedRows(scan.rows, t), preds)

\* scan_with_filter: what the file's filter cannot be asked is asked of the
\* decoded rows, and that drops the tombstones.
ScanWithFilter(f, t, preds) ==
  FilterScan(Scanned(f, t, Pushed(SelectSeq(preds, CanVortexPushdown))), t,
             SelectSeq(preds, LAMBDA p : ~CanVortexPushdown(p)))

\* Results of several scans as one.
Together(scans) == [ok |-> \A s \in scans : s.ok, rows |-> UNION {s.rows : s \in scans}]

\* rows_to_batches: the newest version of each key, decoded; the memtable's
\* versions, which no predicate reaches, among them.
RowsToBatches(scan, t, cols) ==
  {[ok |-> scan.ok, rows |-> {}]} \cup
  {LET got == DecodeNarrow(Payload(r), LayoutOf[t], cols)
   IN  [ok |-> got.ok, rows |-> {[key |-> r.key, part |-> 0, row |-> got.row]}] :
     r \in {x \in MergeNewest({}, VisibleRows(MemRows, t) \cup scan.rows) : x.val # {}}}

\* Partition 0 of scan_table_arrow: the memtable merged with what the level-0
\* scans return.
MergedPartition(t, cols, preds) ==
  Together(RowsToBatches(Together({ScanWithFilter(f, t, preds) :
                                     f \in {g \in Level(0) : ~SkipFile(g, t, preds)}}), t, cols))

\* A NULL in a column declared NOT NULL, and a column that the file does not
\* have, fail the scan.
ArrowColumns(r, f, t, cols) ==
  LET stored == StoredRow(r.val, LayoutOf[files[f].of])
      Fits(c) == /\ Serves(f, c, LayoutOf[t][c].ty)
                 /\ IsNull(stored[c]) => LayoutOf[t][c].nullable
  IN  IF \A i \in 1..Len(cols) : Fits(cols[i])
      THEN [ok |-> TRUE, rows |-> {[key |-> r.key, part |-> f,
                                    row |-> [i \in 1..Len(cols) |-> stored[cols[i]]]]}]
      ELSE [ok |-> FALSE, rows |-> {}]

\* scan_to_arrow_batches, one partition per file of the levels below: the
\* stored columns, tombstones and all.
FilePartition(f, t, cols, scan) ==
  Together({[ok |-> scan.ok, rows |-> {}]}
             \cup {ArrowColumns(r, f, t, cols) : r \in scan.rows})

\* scan_table_arrow: [ok, rows]; a row carries its partition and, as history,
\* its key.
ScanTableArrow(t, cols, preds) ==
  Together({MergedPartition(t, cols, IF t \in table_schemas THEN preds ELSE << >>)}
             \cup {FilePartition(f, t, cols, Scanned(f, t, Pushed(preds))) :
                     f \in {g \in Level(1) : ~SkipFile(g, t, preds)}})

\* The row that the projected values belong to, as far as it is known.
Unproject(row, cols) ==
  [c \in {cols[i] : i \in 1..Len(cols)} |-> row[CHOOSE i \in 1..Len(cols) : cols[i] = c]]

FilterBatches(scan, filter, cols) ==
  [scan EXCEPT !.rows = {r \in @ : Holds(filter, Unproject(r.row, cols))}]

\* The table as a SELECT sees it: the provider's scan, whose result the SQL
\* engine filters again.
Select(t, filter, cols) ==
  FilterBatches(ScanTableArrow(t, cols, ColumnPredicates(filter)), filter, cols)

-----------------------------------------------------------------------------
(* Planning: the set holds the mutations, or nothing when planning fails. *)

\* Mutation::Put with the encoded row, or Mutation::Delete.
Mutation(op, t, key, row, part) ==
  [key |-> key, val |-> IF op = "put" THEN {EncodeRow(row)} ELSE {},
   part |-> part, table |-> t, row |-> row]

\* One mutation for each row, unless a row has no key.
Keyed(op, t, rows) ==
  IF \E r \in rows : KeyOfRow(t, r.row) = {} THEN {}
  ELSE {{Mutation(op, t, CHOOSE k \in KeyOfRow(t, r.row) : TRUE, r.row, r.part) : r \in rows}}

\* Fault: predicates beyond the ones on the key are let go.
PkEquality_Extra(t, preds) ==
  IF \E i \in 1..Len(PkOf[t]) : ~\E j \in 1..Len(preds) :
       preds[j].op = "eq" /\ preds[j].col = PkOf[t][i]
  THEN {}
  ELSE {[c \in 1..Len(LayoutOf[t]) |->
           LET hits == {j \in 1..Len(preds) : preds[j].op = "eq" /\ preds[j].col = c}
           IN  IF hits = {} THEN TypedNull(LayoutOf[t][c].ty)
               ELSE preds[CHOOSE j \in hits : \A i \in hits : j <= i].lit]}

\* try_extract_pk_eq_from_predicates: the row a point lookup is for, known in
\* its key columns, when there is one predicate per key column and it is an
\* equality.
PkEquality(t, preds) ==
  IF \/ Len(preds) # Len(PkOf[t])
     \/ \E i \in 1..Len(PkOf[t]) : ~\E j \in 1..Len(preds) :
          preds[j].op = "eq" /\ preds[j].col = PkOf[t][i]
  THEN {}
  ELSE {[c \in 1..Len(LayoutOf[t]) |->
           LET hits == {j \in 1..Len(preds) : preds[j].op = "eq" /\ preds[j].col = c}
           IN  IF hits = {} THEN TypedNull(LayoutOf[t][c].ty)
               ELSE preds[CHOOSE j \in hits : \A i \in hits : j <= i].lit]}

\* The point lookup of a DELETE: the memtable decides if it has the key, else
\* the first file that does, level 0 before level 1 and oldest first.
LooksLive(key) ==
  LET hits == {f \in DOMAIN files : \E r \in files[f].rows : r.key = key /\ Visible(r, Now)}
      first == CHOOSE f \in hits : \A g \in hits :
                 \/ files[f].level < files[g].level
                 \/ files[f].level = files[g].level /\ f <= g
  IN  IF key \in DOMAIN mem /\ ChainGet(mem[key], Now).found
      THEN ChainGet(mem[key], Now).val # {}
      ELSE /\ hits # {}
           /\ \E r \in files[first].rows : r.key = key /\ Visible(r, Now) /\ r.val # {}

\* Every row of t, in all its columns.
FullScan(t) == ScanTableArrow(t, FullProjection(t), << >>)

\* delete_with_column_predicates.
DeleteWithColumnPredicates(t, preds) ==
  LET points == {row \in PkEquality(t, preds) : KeyOfRow(t, row) # {}}
  IN  IF points # {}
      THEN Keyed("delete", t, {p \in [row : points, part : {0}] :
                                 LooksLive(CHOOSE k \in KeyOfRow(t, p.row) : TRUE)})
      ELSE LET scan == FullScan(t)
           IN  IF ~scan.ok THEN {}
               ELSE Keyed("delete", t, {r \in scan.rows : RowMatches(r.row, preds)})

\* plan_delete.
PlanDelete(t, filter) ==
  IF filter = << >> \/ t \notin table_schemas THEN {}
  ELSE IF PkPredicates(filter) # {}
  THEN DeleteWithColumnPredicates(t, ColumnPredicates(filter))
  ELSE LET scan == FullScan(t)
       IN  IF ~scan.ok THEN {} ELSE Keyed("delete", t, {r \in scan.rows : Holds(filter, r.row)})

\* Fault: the new row is stored under the key of the row it was made from.
UpdateScanned_OldKey(t, scan, col, s, filter) ==
  IF ~scan.ok THEN {}
  ELSE {{Mutation("put", t, r.key, [r.row EXCEPT ![col] = s], r.part) :
           r \in {x \in scan.rows : Holds(filter, x.row)}}}

\* The key is that of the updated row.
UpdateScanned(t, scan, col, s, filter) ==
  IF ~scan.ok THEN {}
  ELSE Keyed("put", t, {[r EXCEPT !.row[col] = s] :
                          r \in {x \in scan.rows : Holds(filter, x.row)}})

\* plan_update.
PlanUpdate(t, col, s, filter) ==
  IF t \notin table_schemas THEN {} ELSE UpdateScanned(t, FullScan(t), col, s, filter)

\* ingest_batches: of two rows with one key the last stays.
PlanInsert(t, rows) ==
  Keyed("put", t, {[row |-> rows[i], part |-> i] : i \in 1..Len(rows)})

-----------------------------------------------------------------------------
(* Statements. *)

\* Of two mutations of one key in a batch, the later one.
Last(muts) == {m \in muts : \A n \in muts : n.key = m.key => n.part <= m.part}

\* Engine::write: every mutation at the same timestamp.
WriteBatch(muts) ==
  LET last == Last(muts)
      keys == {m.key : m \in last}
  IN  /\ commit_seq' = commit_seq + 1
      /\ mem' = [k \in DOMAIN mem \cup keys |->
                   IF k \notin keys THEN mem[k]
                   ELSE ChainInsert(IF k \in DOMAIN mem THEN mem[k] ELSE EmptyChain, commit_seq,
                                    (CHOOSE m \in last : m.key = k).val)]
      /\ truth' = {r \in truth : \A m \in muts :
                     ~(m.table = r.table /\ PkOfRow(r.table, m.row) = PkOfRow(r.table, r.row))}
                  \cup {[table |-> m.table, row |-> m.row] :
                          m \in {x \in last : x.val # {}}}

\* insert_into: the schema is registered even if a row has no key.
Insert(t, rows) ==
  /\ commit_seq <= MaxCommits
  /\ table_schemas' = table_schemas \cup {t}
  /\ \E muts \in PlanInsert(t, rows) : WriteBatch(muts)
  /\ UNCHANGED <<files, stmt, counts>>

InsertRejected(t, rows) ==
  /\ commit_seq <= MaxCommits
  /\ PlanInsert(t, rows) = {}
  /\ table_schemas' = table_schemas \cup {t}
  /\ UNCHANGED <<commit_seq, mem, files, stmt, counts, truth>>

\* delete_from and update, up to their call of write.
DeleteFrom(c, t, filter) ==
  /\ stmt[c] = {} /\ commit_seq <= MaxCommits
  /\ \E muts \in PlanDelete(t, filter) : stmt' = [stmt EXCEPT ![c] = muts]
  /\ UNCHANGED <<commit_seq, mem, files, table_schemas, counts, truth>>

Update(c, t, col, s, filter) ==
  /\ stmt[c] = {} /\ commit_seq <= MaxCommits
  /\ \E muts \in PlanUpdate(t, col, s, filter) : stmt' = [stmt EXCEPT ![c] = muts]
  /\ UNCHANGED <<commit_seq, mem, files, table_schemas, counts, truth>>

\* The rest of delete_from and update.
Write(c) ==
  /\ stmt[c] # {} /\ commit_seq <= MaxCommits
  /\ WriteBatch(stmt[c])
  /\ stmt' = [stmt EXCEPT ![c] = {}]
  /\ UNCHANGED <<files, table_schemas, counts>>

-----------------------------------------------------------------------------
(* Flush, compaction. *)

\* The table of the first row, whose schema a file is written with: its name is
\* the prefix of the key without the 0.
FirstTable(rows) ==
  LET first == CHOOSE r \in rows : \A s \in rows : ~LexLess(s.key, r.key)
  IN  CHOOSE t \in Table : Append(NameOf[t], 0) = KeyTablePrefix(first.key)

NextFileId == flushes + compactions + 1

NewFile(level, rows) ==
  [f \in {NextFileId} |-> [level |-> level, of |-> FirstTable(rows), rows |-> rows]]

\* flush.
Flush ==
  /\ flushes < MaxFlushes /\ MemRows # {}
  /\ files' = [f \in DOMAIN files \cup {NextFileId} |->
                 IF f \in DOMAIN files THEN files[f] ELSE NewFile(0, MemRows)[f]]
  /\ mem' = << >>
  /\ flushes' = flushes + 1
  /\ UNCHANGED <<commit_seq, table_schemas, stmt, compactions, truth>>

\* compact with one output: every file goes into one of level 1.  No snapshot
\* is pinned between the steps, so the watermark is the latest timestamp.
Compact ==
  /\ compactions < MaxCompactions /\ Level(0) # {}
  /\ files' = NewFile(1, DedupSuperseded(UNION {files[f].rows : f \in DOMAIN files}, Now, OpenEnded))
  /\ compactions' = compactions + 1
  /\ UNCHANGED <<commit_seq, mem, table_schemas, stmt, flushes, truth>>

Next ==
  \/ \E i \in Inserts : Insert(i[1], i[2])
  \/ \E i \in Inserts : InsertRejected(i[1], i[2])
  \/ \E c \in Client, d \in Deletes : DeleteFrom(c, d[1], d[2])
  \/ \E c \in Client, u \in Updates : Update(c, u[1], u[2], u[3], u[4])
  \/ \E c \in Client : Write(c)
  \/ Flush
  \/ Compact

Spec == Init /\ [][Next]_vars

-----------------------------------------------------------------------------
(* Properties. *)

RowsOfTable(t) == {r.row : r \in {x \in truth : x.table = t}}

AllRows == MemRows \cup UNION {files[f].rows : f \in DOMAIN files}

\* Types, and what a scan takes for granted of the store: every key lies in
\* exactly one table, and every payload decodes with the layout of that table
\* to a row whose key it is stored under.  build_pk_key, encode_row and
\* plan_update have to agree for that.
SqlTypeOK ==
  /\ commit_seq \in 1..(MaxCommits + 1)
  /\ table_schemas \subseteq Table
  /\ \A r \in AllRows : r.begin < r.end /\ r.end \in 1..OpenEnded
  /\ \A r \in AllRows : \E t \in Table :
       /\ {u \in Table : InTable(r.key, NameOf[u])} = {t}
       /\ KeyTablePrefix(r.key) = TablePrefix(NameOf[t])
       /\ \A b \in r.val : /\ DecodeRow(b, LayoutOf[t]).ok
                           /\ KeyOfRow(t, DecodeRow(b, LayoutOf[t]).row) = {r.key}

\* Rows of one table have different keys when their primary keys differ, and
\* the keys are in the order of the primary keys: negative numbers before
\* positive ones, a string before its extensions, zero bytes included
\* (encode_pk_value, escape_bytes, assemble_table_key).
KeysInOrder ==
  \A t \in Table : \A q, r \in RowsOfTable(t) :
    LET n == Len(PkOf[t])
        p == PkOfRow(t, q)
        s == PkOfRow(t, r)
        less == \E i \in 1..n : ScalarLess(p[i], s[i]) /\ \A j \in 1..(i - 1) : p[j] = s[j]
    IN  p # s => \A k \in KeyOfRow(t, q), l \in KeyOfRow(t, r) : LexLess(k, l) <=> less

\* Every file was written with t's schema (t is the table of its first row),
\* and at level 1 it has no tombstone of t and no NULL in a boolean column.
OwnFiles(t) ==
  \A f \in DOMAIN files :
    /\ files[f].of = t
    /\ files[f].level = 0 \/ \A r \in VisibleRows(files[f].rows, t) :
         /\ r.val # {}
         /\ \A b \in r.val : \A i \in 1..Len(LayoutOf[t]) :
              LayoutOf[t][i].ty = "bool" => ~IsNull(DecodeRow(b, LayoutOf[t]).row[i])

\* A key of t is in one file at most, and if that is of level 1, not in the memtable.
Settled(t) ==
  /\ OwnFiles(t)
  /\ \A f \in DOMAIN files : \A r \in VisibleRows(files[f].rows, t) :
       /\ \A g \in DOMAIN files \ {f} : \A s \in files[g].rows : s.key # r.key
       /\ files[f].level = 1 => r.key \notin DOMAIN mem

Project(row, cols) == [i \in 1..Len(cols) |-> row[cols[i]]]

Answer(t, filter, cols) ==
  {[key |-> CHOOSE k \in KeyOfRow(t, row) : TRUE, row |-> Project(row, cols)] :
     row \in {x \in RowsOfTable(t) : Holds(filter, x)}}

\* No SELECT misses a row: what the statements left in the table and the
\* filter accepts is in the result, whatever part of the filter the files
\* were asked to evaluate and wherever the row is by now.
SelectComplete ==
  \A q \in Selects : OwnFiles(q[1]) =>
    \E got \in {Select(q[1], q[2], q[3])} :
      /\ got.ok
      /\ Answer(q[1], q[2], q[3]) \subseteq {[key |-> r.key, row |-> r.row] : r \in got.rows}

\* While no key of a table is in two places that a scan does not merge, a
\* SELECT returns each row once and nothing else.
SelectExact ==
  \A q \in Selects : Settled(q[1]) =>
    \E got \in {Select(q[1], q[2], q[3])} :
      /\ {[key |-> r.key, row |-> r.row] : r \in got.rows} = Answer(q[1], q[2], q[3])
      /\ \A r, s \in got.rows : r.key = s.key => r = s

\* Under the same condition a DELETE plans to delete the rows its filter
\* accepts, by point lookup or by scan, and an UPDATE to rewrite them.
PlanExact ==
  /\ \A d \in Deletes :
       Settled(d[1]) /\ d[1] \in table_schemas =>
         {{m.key : m \in muts} : muts \in PlanDelete(d[1], d[2])} =
           {{a.key : a \in Answer(d[1], d[2], << >>)}}
  /\ \A u \in Updates :
       Settled(u[1]) /\ u[1] \in table_schemas =>
         {{m.row : m \in muts} : muts \in PlanUpdate(u[1], u[2], u[3], u[4])} =
           {{[row EXCEPT ![u[2]] = u[3]] : row \in {x \in RowsOfTable(u[1]) : Holds(u[4], x)}}}

(* What the documentation says of the program, and the program does not do. *)

\* execution.rs: "`scan` reads the table and DataFusion filters the
\* materialized batches; correctness does not depend on push-down".  A SELECT
\* returns the rows it would return if no predicate reached the storage.
PushdownIndependent ==
  \A q \in Selects :
    LET all == FilterBatches(ScanTableArrow(q[1], q[3], << >>), q[2], q[3])
        got == Select(q[1], q[2], q[3])
    IN  all.ok /\ got.ok => got.rows = all.rows
=============================================================================
