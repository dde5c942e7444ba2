------------------------------- MODULE LsmTree -------------------------------
(***************************************************************************)
(* The read path of the engine against flush, compaction and table drops:  *)
(* crates/hatp-engine/src/lib.rs (get, scan_range, scan_all,               *)
(* scan_table_arrow, flush, compact, sub_compact, drop_table_prefix).      *)
(*                                                                         *)
(* A commit is one step here and writes one key: how it is assembled is    *)
(* the subject of SsiCommit, Mvcc and Durability.  A payload is the        *)
(* timestamp that wrote it, so a version's val only tells a put from a     *)
(* delete.  Keys are numbers; TableOf names the table of a key, and the    *)
(* keys of a table are a range.  A bloom filter only ever skips files      *)
(* without the key and is left out.                                        *)
(*                                                                         *)
(* One reader runs at a time, under a snapshot it has pinned; every read   *)
(* of shared state it makes is a step of its own.                          *)
(***************************************************************************)
EXTENDS VersionSet, VersionChain, SstRows

CONSTANTS
  Key,             \* keys: a range of naturals
  TableOf,         \* key -> the table whose prefix it carries
  Droppable,       \* tables a client may drop
  Writes,          \* the mutations clients make: pairs <<key, "put" or "del">>
  Reads,           \* the reads clients make: <<"get", key>> or <<scan, set of keys>>
  HotMax,          \* HOT_KEY_CACHE_MAX
  MaxCommits, MaxFlushes, MaxCompactions, MaxDrops,
  DropsApart       \* no behaviour has both a compaction and a drop

ASSUME LsmAssumption ==
  /\ Key \subseteq Nat
  /\ Writes \subseteq Key \X {"put", "del"}
  /\ Droppable \subseteq {TableOf[k] : k \in Key} \ {"none"}
  /\ Reads \subseteq ({"get"} \X Key) \cup ({"range", "all", "table", "delete"} \X SUBSET Key)
  /\ \A r \in Reads : r[1] = "table" => \A j, k \in r[2] : TableOf[j] = TableOf[k]
  /\ MaxCommits \in Nat /\ MaxCommits + 1 < OpenEnded
  /\ DropsApart \in BOOLEAN
  /\ HotMax \in Nat \ {0} /\ MaxFlushes \in Nat /\ MaxCompactions \in Nat /\ MaxDrops \in Nat

VARIABLES
  commit_seq,      \* the next commit timestamp
  mem,             \* key -> version chain
  vset,            \* the published version set
  ssts,            \* file id -> set of rows, for the files that are not unlinked
  indexed,         \* files with a key index
  hot,             \* hot_key_cache: key -> file id
  dropped_tables,
  sst_row_count, table_rows,
  flusher,         \* [pc, rows]
  compactor,       \* [pc, watermark, source, target, inputs]
  dropping,        \* table whose memtable rows are still to be erased, or "none"
  reader,
  flushes, compactions, drops,
  (* History variables; no action reads them. *)
  hist,            \* timestamp -> [key, val]: every commit
  hurt,            \* keys with a version that the clear at the end of a flush lost
  dropped_at       \* table -> first timestamp not given out at its last drop, or 0

storage == <<mem, vset, ssts, indexed, sst_row_count, table_rows, dropped_tables>>
counts == <<flushes, compactions, drops>>
history == <<hist, hurt, dropped_at>>
vars == <<commit_seq, storage, hot, flusher, compactor, dropping, reader, counts, history>>

Largest(S) == CHOOSE m \in S : \A n \in S : n <= m

Table == {TableOf[k] : k \in Key}
KeysOf(t) == {k \in Key : TableOf[k] = t}

NoFlush == [pc |-> "idle", rows |-> {}]
NoJob == [pc |-> "idle", watermark |-> 0, source |-> 0, target |-> 0,
          inputs |-> {}]
NoRead == [pc |-> "idle", op |-> "none", ts |-> 0, keys |-> {}, todo |-> {},
           acc |-> {}, more |-> {}, leveled |-> FALSE, blind |-> FALSE,
           (* History: what the properties ask of the read. *)
           hands |-> {}, fit |-> TRUE, gap |-> FALSE, gone |-> {}]

Init ==
  /\ commit_seq = 1
  /\ mem = [k \in Key |-> EmptyChain]
  /\ vset = VsDefault /\ ssts = << >> /\ indexed = {} /\ hot = << >>
  /\ dropped_tables = {}
  /\ sst_row_count = 0 /\ table_rows = [t \in Table |-> 0]
  /\ flusher = NoFlush /\ compactor = NoJob /\ dropping = "none" /\ reader = NoRead
  /\ flushes = 0 /\ compactions = 0 /\ drops = 0
  /\ hist = << >> /\ hurt = {} /\ dropped_at = [t \in Table |-> 0]

-----------------------------------------------------------------------------
(* Writes, flush. *)

Commit(k, v) ==
  /\ commit_seq <= MaxCommits
  /\ mem' = [mem EXCEPT ![k] = ChainInsert(@, commit_seq, v)]
  /\ commit_seq' = commit_seq + 1
  /\ hist' = Append(hist, [key |-> k, val |-> v])
  /\ UNCHANGED <<vset, ssts, indexed, sst_row_count, table_rows, dropped_tables, hot,
                 flusher, compactor, dropping, reader, counts, hurt, dropped_at>>

\* drain_into: every version of every key.
MemRows ==
  UNION {{[key |-> k, begin |-> b, end |-> mem[k][b].end, val |-> mem[k][b].val] :
            b \in DOMAIN mem[k]} : k \in Key}

CompactionGuardFree ==
  flusher.pc # "listed" /\ compactor.pc # "retire"

\* The rows leave the memtable for the flusher's hands, under the write guard.
FlushDrain ==
  /\ flusher.pc = "idle" /\ flushes < MaxFlushes /\ MemRows # {}
  /\ flusher' = [pc |-> "drained", rows |-> MemRows]
  /\ mem' = [k \in Key |-> EmptyChain]
  /\ flushes' = flushes + 1
  /\ UNCHANGED <<commit_seq, vset, ssts, indexed, sst_row_count, table_rows,
                 dropped_tables, hot, compactor, dropping, reader, compactions,
                 drops, history>>

Lowest(S) == CHOOSE m \in {r.key : r \in S} : \A r \in S : m <= r.key
Highest(S) == CHOOSE m \in {r.key : r \in S} : \A r \in S : r.key <= m

\* min_key and max_key of SstHandle.
RangeOf(S) == [min |-> Lowest(S), max |-> Highest(S)]
RangesOf(files) == [f \in DOMAIN files |-> RangeOf(files[f])]

WithFiles(files, new) ==
  [f \in DOMAIN files \cup DOMAIN new |-> IF f \in DOMAIN new THEN new[f] ELSE files[f]]

\* flush_sst_locked up to the counts, in one step: before the manifest lists the
\* file no one looks at it.  The key index is best effort.
FlushWrite(index_written) ==
  /\ flusher.pc = "drained" /\ CompactionGuardFree
  /\ flusher' = [flusher EXCEPT !.pc = "listed"]
  /\ LET new == [f \in {vset.next} |-> flusher.rows]
     IN  /\ ssts' = WithFiles(ssts, new)
         /\ indexed' = indexed \cup IF index_written THEN DOMAIN new ELSE {}
         /\ vset' = VsInstalled(vset, 0, RangesOf(new), vset.next + 1, {})
  /\ sst_row_count' = sst_row_count + Cardinality(flusher.rows)
  /\ table_rows' = [t \in Table |-> table_rows[t] + CountIn(flusher.rows, KeysOf(t))]
  /\ UNCHANGED <<commit_seq, mem, dropped_tables, hot, compactor, dropping, reader, counts,
                 history>>

\* flush_sst_locked ends with memtable.clear(), without the write guard: what
\* was committed since the drain goes with it.
FlushClear ==
  /\ flusher.pc = "listed"
  /\ flusher' = NoFlush
  /\ mem' = [k \in Key |-> EmptyChain]
  /\ hurt' = hurt \cup {k \in Key : DOMAIN mem[k] # {}}
  /\ UNCHANGED <<commit_seq, vset, ssts, indexed, sst_row_count, table_rows,
                 dropped_tables, hot, compactor, dropping, reader, counts, hist,
                 dropped_at>>

-----------------------------------------------------------------------------
(* Compaction. *)

\* watermark: the oldest pinned snapshot, or the newest timestamp given out.
Watermark == IF reader.pc = "idle" THEN commit_seq - 1 ELSE reader.ts

\* The watermark is an argument: it is read before the guard is taken.
CompactCall(source, target) ==
  /\ compactor.pc = "idle" /\ compactions < MaxCompactions
  /\ DropsApart => drops = 0
  /\ compactor' = [NoJob EXCEPT !.pc = "called", !.watermark = Watermark,
                                !.source = source, !.target = target]
  /\ compactions' = compactions + 1
  /\ UNCHANGED <<commit_seq, storage, hot, flusher, dropping, reader, flushes, drops,
                 history>>

CompactionInputs ==
  VsFiles(vset, compactor.source) \cup VsFiles(vset, compactor.target)

CompactNothing ==
  /\ compactor.pc = "called" /\ CompactionGuardFree
  /\ Cardinality(CompactionInputs) < 2
  /\ compactor' = NoJob
  /\ UNCHANGED <<commit_seq, storage, hot, flusher, dropping, reader, counts, history>>

\* compact_chunk: the output of a chunk of the inputs.
ChunkFile(chunk) ==
  DedupSuperseded(UNION {ssts[f] : f \in chunk}, compactor.watermark, OpenEnded)

\* What the rows of some keys number in files.
RowTotal(files, keys) ==
  Cardinality(UNION {{f} \X {r \in files[f] : r.key \in keys} : f \in DOMAIN files})

OnlyFiles(files, S) == [f \in S |-> files[f]]

\* Fault: the rows of the outputs are added, those of the inputs stay counted.
RowDelta_InputsKept(ins, outs, keys) == RowTotal(outs, keys)

\* deleted_rows and prefix_delta: what a merge adds to a count.
RowDelta(ins, outs, keys) == RowTotal(outs, keys) - RowTotal(ins, keys)

\* Fault: the inputs that came from the target level stay listed.
MergedFiles_TargetKept(ins) == {<<compactor.source, f>> : f \in ins}

\* The DeleteFile edits of commit_compaction.
MergedFiles(ins) ==
  {<<IF f \in VsFiles(vset, compactor.source) THEN compactor.source ELSE compactor.target,
     f>> : f \in ins}

\* compact_with_watermark or sub_compact up to the counts, in one step: before
\* the manifest lists the outputs no one looks at them.  The inputs up to cut
\* make one chunk, the others a second one, as sub_compact splits them by size;
\* cut is the last of them in compact.
CompactMerge(cut, index_written) ==
  /\ compactor.pc = "called" /\ CompactionGuardFree
  /\ Cardinality(CompactionInputs) >= 2
  /\ LET ins == CompactionInputs
         low == {f \in ins : f <= cut}
         ids == vset.next .. (IF ins = low THEN vset.next ELSE vset.next + 1)
         outs == [f \in ids |-> ChunkFile(IF f = vset.next THEN low ELSE ins \ low)]
         old == OnlyFiles(ssts, ins)
     IN  /\ compactor' = [compactor EXCEPT !.pc = "retire", !.inputs = ins]
         /\ ssts' = WithFiles(ssts, outs)
         /\ indexed' = indexed \cup IF index_written THEN ids ELSE {}
         /\ vset' = VsInstalled(vset, compactor.target, RangesOf(outs), Largest(ids) + 1,
                                MergedFiles(ins))
         /\ sst_row_count' = sst_row_count + RowDelta(old, outs, Key)
         /\ table_rows' = [t \in Table |-> table_rows[t] + RowDelta(old, outs, KeysOf(t))]
  /\ UNCHANGED <<commit_seq, mem, dropped_tables, hot, flusher, dropping, reader, counts,
                 history>>

\* The inputs are unlinked one after the other, each with its key index.
CompactRetire ==
  /\ compactor.pc = "retire"
  /\ \E f \in compactor.inputs :
       /\ \A g \in compactor.inputs : f <= g
       /\ ssts' = [g \in DOMAIN ssts \ {f} |-> ssts[g]]
       /\ indexed' = indexed \ {f}
       /\ compactor' = IF compactor.inputs = {f} THEN NoJob
                       ELSE [compactor EXCEPT !.inputs = @ \ {f}]
  /\ UNCHANGED <<commit_seq, mem, vset, sst_row_count, table_rows, dropped_tables, hot,
                 flusher, dropping, reader, counts, history>>

-----------------------------------------------------------------------------
(* Dropping a table, and making its name usable again. *)

DropMark(t) ==
  /\ dropping = "none" /\ drops < MaxDrops /\ CompactionGuardFree
  /\ DropsApart => compactions = 0
  /\ dropped_tables' = dropped_tables \cup {t}
  /\ vset' = VsApply(vset, DroppedPrefix(t))
  /\ dropping' = t /\ drops' = drops + 1
  /\ dropped_at' = [dropped_at EXCEPT ![t] = commit_seq]
  /\ reader' = [reader EXCEPT !.gone = @ \ {t}]
  /\ UNCHANGED <<commit_seq, mem, ssts, indexed, sst_row_count, table_rows, hot, flusher,
                 compactor, flushes, compactions, hist, hurt>>

\* Fault: the memtable keeps the rows of the dropped table.
Erased_None(t) == mem

\* erase_prefix
Erased(t) == [k \in Key |-> IF TableOf[k] = t THEN EmptyChain ELSE mem[k]]

DropErase ==
  /\ dropping # "none"
  /\ mem' = Erased(dropping)
  /\ dropping' = "none"
  /\ UNCHANGED <<commit_seq, vset, ssts, indexed, sst_row_count, table_rows,
                 dropped_tables, hot, flusher, compactor, reader, counts, history>>

Undrop(t) ==
  /\ dropping = "none" /\ t \in dropped_tables /\ CompactionGuardFree
  /\ dropped_tables' = dropped_tables \ {t}
  /\ vset' = VsApply(vset, UndroppedPrefix(t))
  /\ reader' = [reader EXCEPT !.gone = @ \ {t}]
  /\ UNCHANGED <<commit_seq, mem, ssts, indexed, sst_row_count, table_rows, hot, flusher,
                 compactor, dropping, counts, history>>

-----------------------------------------------------------------------------
(* Reads.  engine is all that a read leaves alone; only a point read adds  *)
(* to hot.                                                                 *)

engine == <<commit_seq, storage, flusher, compactor, dropping, counts, history>>

\* begin_read: a transaction pins the newest timestamp given out.
Begin ==
  /\ reader.pc = "idle"
  /\ reader' = [NoRead EXCEPT !.pc = "begun", !.ts = commit_seq - 1]
  /\ UNCHANGED <<engine, hot>>

InHands == IF flusher.pc = "drained" THEN {r.key : r \in flusher.rows} ELSE {}

\* A read of the transaction starts.
Asking(op, ks) ==
  [reader EXCEPT !.op = op, !.keys = ks, !.gone = dropped_tables \ {dropping}, !.hands = InHands]

\* What the snapshot sees of the memtable, as rows.
MemSeen(ks) ==
  {[key |-> k, begin |-> ChainGet(mem[k], reader.ts).begin,
               val |-> ChainGet(mem[k], reader.ts).val] :
     k \in {x \in ks : ChainGet(mem[x], reader.ts).found}}

\* get, to the memtable: a dropped table has nothing, and the memtable's
\* version is taken for the newest.
GetMem(k) ==
  /\ reader.pc = "begun"
  /\ LET stop == TableOf[k] \in dropped_tables
         seen == IF stop THEN {} ELSE MemSeen({k})
     IN  reader' = [Asking("get", {k}) EXCEPT
                      !.pc = IF stop \/ seen # {} THEN "merge" ELSE "hot", !.acc = seen]
  /\ UNCHANGED <<engine, hot>>

\* A lookup yields a version: the key is the caller's.
ForKey(k, S) == {[key |-> k, begin |-> r.begin, end |-> r.end, val |-> r.val] : r \in S}

\* The file that answered last time, through its key index.
GetHot ==
  /\ reader.pc = "hot"
  /\ \E k \in reader.keys :
       LET cached == {f \in {hot[x] : x \in DOMAIN hot \cap {k}} : f \in indexed}
           hits == ForKey(k, UNION {IndexGet(ssts[f], k) : f \in cached})
           seen == {r \in hits : Visible(r, reader.ts)}
       IN  reader' = [reader EXCEPT !.pc = IF seen # {} THEN "merge" ELSE "load",
                                    !.acc = MergeNewest({}, seen),
                                    !.fit = k \notin DOMAIN hot]
  /\ UNCHANGED <<engine, hot>>

GetLoad ==
  /\ reader.pc = "load" /\ reader.op = "get"
  /\ \E k \in reader.keys :
       LET files == VsCandidates(vset, k)
       IN  reader' = [reader EXCEPT
             !.pc = "files",
             !.todo = {[file |-> f, level |-> VsLevelFor(vset, f), min |-> vset.meta[f].min] :
                         f \in files},
             !.fit = /\ reader.fit
                     /\ \A f \in files : CountIn(ssts[f], {k}) <= 1
                     /\ Cardinality({f \in files : VsLevelFor(vset, f) > 0}) <= 1]
  /\ UNCHANGED <<engine, hot>>

\* files_by_key is sorted by smallest key, stably, from id order, and
\* candidate_files walks it from its end.
FirstCandidate(c) ==
  \A d \in reader.todo : c.min > d.min \/ (c.min = d.min /\ c.file >= d.file)

\* hot_key_cache_insert: a full cache is emptied first.
HotInsert(k, f) ==
  LET kept == IF Cardinality(DOMAIN hot) >= HotMax /\ k \notin DOMAIN hot THEN {} ELSE DOMAIN hot
  IN  [x \in kept \cup {k} |-> IF x = k THEN f ELSE hot[x]]

\* What a file has of a key, through its key index if it has one, and what of
\* it is newer than the version found so far.
Hit(k, f) ==
  ForKey(k, IF f \in indexed THEN IndexGet(ssts[f], k) ELSE SstGet(ssts[f], k, reader.ts))
NewerHit(k, f) ==
  {r \in Hit(k, f) : Visible(r, reader.ts) /\ \A a \in reader.acc : r.begin > a.begin}

\* The first of the remaining files is done with.
Passed(c) == [reader EXCEPT !.todo = @ \ {c}]

\* One candidate of get.  After a leveled file that has the key the other
\* leveled files are passed over.
GetFile ==
  /\ reader.pc = "files" /\ reader.op = "get"
  /\ \E k \in reader.keys, c \in reader.todo :
       /\ FirstCandidate(c)
       /\ IF reader.leveled /\ c.level > 0
          THEN reader' = Passed(c) /\ UNCHANGED hot
          ELSE IF c.file \notin DOMAIN ssts
          THEN reader' = [Passed(c) EXCEPT !.pc = "failed"] /\ UNCHANGED hot
          ELSE /\ reader' = [Passed(c) EXCEPT
                               !.acc = MergeNewest(reader.acc, NewerHit(k, c.file)),
                               !.leveled = reader.leveled \/ (Hit(k, c.file) # {} /\ c.level > 0)]
               /\ hot' = IF c.file \in indexed /\ NewerHit(k, c.file) # {}
                         THEN HotInsert(k, c.file) ELSE hot
  /\ UNCHANGED engine

\* scan_range, scan_all and scan_table_arrow read the memtable first.  The last
\* one asks once whether its table is dropped.  The point lookup of a DELETE is
\* over when the memtable has the key.
ScanMem(op, ks) ==
  /\ reader.pc = "begun"
  /\ reader' = [Asking(op, ks) EXCEPT
                  !.pc = IF op = "delete" /\ MemSeen(ks) # {} THEN "merge" ELSE "load",
                  !.acc = MemSeen(ks),
                  !.blind = op = "table" /\ \E k \in ks : TableOf[k] \in dropped_tables]
  /\ UNCHANGED <<engine, hot>>

\* Fault: the walk over the levels leaves the first one to the merge.
ReachedLevels_FromTwo ==
  {l \in {p[1] : p \in vset.levels} : l # 1 /\ \A j \in 1..l : VsFiles(vset, j) # {}}

\* Level 0, and the levels after it up to the first empty one.
ReachedLevels ==
  {l \in {p[1] : p \in vset.levels} : \A j \in 1..l : VsFiles(vset, j) # {}}

\* Then the version set.  A table scan takes level 0 and the levels after it
\* as far as they are not empty.
ScanLoad ==
  /\ reader.pc = "load" /\ reader.op # "get"
  /\ reader' = [reader EXCEPT
       !.pc = "files",
       !.todo = {[file |-> p[2], level |-> p[1]] :
                   p \in {q \in vset.levels :
                           reader.op = "table" => ~reader.blind /\ q[1] \in ReachedLevels}},
       !.fit = reader.op # "delete" \/
                 Cardinality({p \in vset.levels : CountIn(ssts[p[2]], reader.keys) > 0}) <= 1,
       !.gap = \E p \in vset.levels : \E l \in 1..p[1] : VsFiles(vset, l) = {}]
  /\ UNCHANGED <<engine, hot>>

\* The order of levels(), a BTreeMap of BTreeSets.
FirstListed(c) ==
  \A d \in reader.todo : c.level < d.level \/ (c.level = d.level /\ c.file <= d.file)

\* A range scan passes over a file by the key range the version set now has
\* for it.
Pruned(f) ==
  /\ reader.op = "range" /\ f \in DOMAIN vset.meta
  /\ \A k \in reader.keys : k < vset.meta[f].min \/ vset.meta[f].max < k

FileRows(f) == {r \in ssts[f] : r.key \in reader.keys /\ Visible(r, reader.ts)}

\* One file of a scan.  A table scan appends what a leveled file shows,
\* tombstones included, without merging it; a DELETE stops at the first file
\* that has the key, oldest file first.
ScanFile ==
  /\ reader.pc = "files" /\ reader.op # "get"
  /\ \E c \in reader.todo :
       LET rows == FileRows(c.file)
           shown == {r \in rows : TableOf[r.key] \notin dropped_tables}
       IN  /\ FirstListed(c)
           /\ reader' =
                IF Pruned(c.file) THEN Passed(c)
                ELSE IF c.file \notin DOMAIN ssts THEN [Passed(c) EXCEPT !.pc = "failed"]
                ELSE IF reader.op = "table" /\ c.level > 0
                THEN [Passed(c) EXCEPT !.more = reader.more \cup rows]
                ELSE IF reader.op = "delete"
                THEN [Passed(c) EXCEPT !.acc = MergeNewest(reader.acc, rows),
                                       !.todo = IF rows = {} THEN reader.todo \ {c} ELSE {}]
                ELSE [Passed(c) EXCEPT !.acc = MergeNewest(reader.acc, shown)]
  /\ UNCHANGED <<engine, hot>>

\* The result: tombstones are left out, except by scan_all.
ReadMerge ==
  /\ reader.pc = "merge" \/ (reader.pc = "files" /\ reader.todo = {})
  /\ reader' = [reader EXCEPT !.pc = "done",
                  !.acc = {r \in @ : reader.op = "all" \/ r.val = "put"}]
  /\ UNCHANGED <<engine, hot>>

\* The caller has the result, and its transaction goes on.
ReadReturn ==
  /\ reader.pc \in {"done", "failed"}
  /\ reader' = [NoRead EXCEPT !.pc = "begun", !.ts = reader.ts]
  /\ UNCHANGED <<engine, hot>>

\* The transaction ends and its snapshot is unpinned.
End == reader.pc = "begun" /\ reader' = NoRead /\ UNCHANGED <<engine, hot>>

Next ==
  \/ \E w \in Writes : Commit(w[1], w[2])
  \/ FlushDrain \/ FlushClear
  \/ \E ok \in BOOLEAN : FlushWrite(ok)
  \/ CompactCall(0, 1) \/ CompactCall(1, 2)
  \/ CompactNothing \/ CompactRetire
  \/ \E cut \in CompactionInputs, ok \in BOOLEAN : CompactMerge(cut, ok)
  \/ \E t \in Droppable : DropMark(t) \/ Undrop(t)
  \/ DropErase
  \/ Begin \/ End
  \/ \E r \in {x \in Reads : x[1] = "get"} : GetMem(r[2])
  \/ \E r \in {x \in Reads : x[1] # "get"} : ScanMem(r[1], r[2])
  \/ GetHot \/ GetLoad \/ GetFile \/ ScanLoad \/ ScanFile
  \/ ReadMerge \/ ReadReturn

Spec == Init /\ [][Next]_vars

-----------------------------------------------------------------------------
(* Properties. *)

\* Commit t is the newest one to its key that a snapshot at ts has.
NewestAt(t, ts) ==
  /\ t \in 1..Len(hist) /\ t <= ts
  /\ \A u \in 1..Len(hist) : u <= ts /\ hist[u].key = hist[t].key => u <= t

\* The rows that a snapshot at ts has for ks: the newest commit to each key.
Expected(ks, ts) ==
  {[key |-> hist[t].key, begin |-> t, val |-> hist[t].val] :
     t \in {u \in 1..Len(hist) : NewestAt(u, ts) /\ hist[u].key \in ks}}

\* Keys of which no version was lost by a flush or in a flusher's hands when
\* the read looked at the memtable, and whose table was never dropped.
Undisturbed ==
  {k \in reader.keys : k \notin hurt /\ k \notin reader.hands /\ dropped_at[TableOf[k]] = 0}

Live(rows) == {r \in rows : r.val = "put"}

OnUndisturbed(rows) == {r \in rows : r.key \in Undisturbed}

\* The state is well formed: chains and files hold versions that were
\* committed, every file the version set lists is on the disk with the key
\* range its metadata gives, no file is at two levels, and the id to allocate
\* next is not that of a listed file.
LsmTypeOK ==
  /\ commit_seq \in 1..(MaxCommits + 1) /\ Len(hist) = commit_seq - 1
  /\ \A k \in Key : \A b \in DOMAIN mem[k] :
       b < commit_seq /\ hist[b] = [key |-> k, val |-> mem[k][b].val]
  /\ \A f \in DOMAIN ssts : \A r \in ssts[f] :
       r.begin < commit_seq /\ hist[r.begin] = [key |-> r.key, val |-> r.val]
  /\ \A p \in vset.levels :
       /\ p[2] \in DOMAIN ssts /\ p[2] < vset.next
       /\ p[2] \in DOMAIN vset.meta
       /\ vset.meta[p[2]] = RangeOf(ssts[p[2]])
       /\ \A q \in vset.levels : q[2] = p[2] => q = p
  /\ indexed \subseteq DOMAIN ssts /\ Cardinality(DOMAIN hot) <= HotMax
  /\ vset.dropped = dropped_tables

\* A scan_range or scan_all that returns, whatever flushes and compactions ran
\* beside it, returns exactly the newest version its snapshot has of every
\* undisturbed key: the memtable read before the version set, the ends that
\* dedup_superseded recomputes and the versions it drops never show through.
ScanExact ==
  reader.pc = "done" /\ reader.op \in {"range", "all"} =>
    OnUndisturbed(reader.acc)
      = LET rows == Expected(Undisturbed, reader.ts)
        IN  IF reader.op = "all" THEN rows ELSE Live(rows)

\* A get returns the newest version its snapshot has of the key, provided that
\* the hot-key cache has no entry for it, no file holds two versions of it and
\* at most one candidate is leveled: the key index, the early exit and the
\* cache are only then harmless.  So does the lookup of a DELETE by primary key
\* when the key is in one file only.
GetExact ==
  reader.pc = "done" /\ reader.op \in {"get", "delete"} /\ reader.fit =>
    OnUndisturbed(reader.acc) = Live(Expected(Undisturbed, reader.ts))

Shown == reader.acc \cup {[key |-> r.key, begin |-> r.begin, val |-> r.val] : r \in reader.more}

\* scan_table_arrow misses no row: when no level between two others is empty,
\* the newest live version of every undisturbed key is among what it returns.
TableScanComplete ==
  reader.pc = "done" /\ reader.op = "table" /\ ~reader.gap =>
    Live(Expected(Undisturbed, reader.ts)) \subseteq Shown

\* After drop_table_prefix has returned, and until the table is dropped again
\* or undropped, no get or scan that begins shows a version from before the drop:
\* neither the memtable, nor rows a flush had already drained, nor any SST.
DropHides ==
  reader.pc = "done" /\ reader.op # "delete" =>
    \A r \in Shown : TableOf[r.key] \in reader.gone => r.begin >= dropped_at[TableOf[r.key]]

\* sst_row_count and table_rows, which flush and compaction adjust by
\* increments, are the numbers of rows in the files the version set lists.
CountsExact ==
  LET listed == OnlyFiles(ssts, {p[2] : p \in vset.levels})
  IN  /\ sst_row_count = RowTotal(listed, Key)
      /\ \A t \in Table : table_rows[t] = RowTotal(listed, KeysOf(t))

-----------------------------------------------------------------------------
(* What the documentation says of the program, and the program does not do. *)

\* lib.rs, get: "Reads the newest visible, non-deleted value at `snapshot_ts`."
GetNewest ==
  reader.pc = "done" /\ reader.op = "get" =>
    OnUndisturbed(reader.acc) = Live(Expected(Undisturbed, reader.ts))

\* lib.rs, scan_table: "Scan every visible row in `table`".
ScanTableSeesAll ==
  reader.pc = "done" /\ reader.op = "table" =>
    Live(Expected(Undisturbed, reader.ts)) \subseteq Shown

\* lib.rs, delete_with_column_predicates: "`found` records whether the NEWEST
\* visible version of `key` is live".
DeleteFindsNewest ==
  reader.pc = "done" /\ reader.op = "delete" =>
    OnUndisturbed(reader.acc) = Live(Expected(Undisturbed, reader.ts))

\* lib.rs, scan_range: "Pin the caller's snapshot so a concurrent compaction
\* cannot reclaim a version this scan still needs".
PinnedScanSucceeds == reader.pc # "failed"
=============================================================================
