----------------------------- MODULE ManifestLog -----------------------------
(***************************************************************************)
(* The durable manifest of crates/hatp-engine/src/manifest.rs under        *)
(* crashes and I/O errors, driven by the operations of lib.rs that append  *)
(* to it: flush, compaction, DROP TABLE and its reversal.                  *)
(*                                                                         *)
(* Each of them holds compaction_guard and the manifest mutex, so there is *)
(* one job at a time.  A frame is the edit it encodes; what an interrupted *)
(* write leaves of one is a Piece.  The rows of an SST are the numbers of  *)
(* the flushes they come from.  An SST that was written stays as written   *)
(* when the process dies; the loss of unsynced SSTs is in Durability.      *)
(***************************************************************************)
EXTENDS EditBatch, FiniteSets
LOCAL INSTANCE SequencesExt

CONSTANTS Prefix,            \* prefixes of tables that may be dropped
          Level,             \* levels of the tree
          SnapshotThreshold, \* edits after which the log is rewritten
          MaxFlushes,        \* bound: flushes
          MaxJobs,           \* bound: jobs of any kind
          MaxCrashes,        \* bound: crashes
          MaxFails           \* bound: I/O errors

ASSUME LogAssumption ==
  /\ Level \subseteq Nat /\ 0 \in Level
  /\ {SnapshotThreshold, MaxFlushes, MaxJobs, MaxCrashes, MaxFails} \subseteq Nat

VARIABLES
  state,       \* the engine is "up", "down", or "refused": open failed
  disk,        \* frames and pieces in the file MANIFEST
  attached,    \* the append handle is a handle of that file
  version_set, \* the published version set
  edit_count,  \* edits since the last rewrite
  ssts,        \* file id -> rows of the SST file
  job,         \* the operation under compaction_guard
  flushes, jobs, crashes, fails, \* counters for the bounds
  (* History variables; no action reads them. *)
  settled,     \* the version set that the finished batches amount to
  stored,      \* rows that finished batches listed
  open_batch,  \* the batch that was begun last and did not finish
  sound        \* no batch was begun after one that had not finished

logvars == <<disk, attached>>
memvars == <<version_set, edit_count>>
bounds == <<flushes, jobs, crashes, fails>>
history == <<settled, stored, open_batch, sound>>
vars == <<state, logvars, memvars, ssts, job, bounds, history>>

-----------------------------------------------------------------------------
(* Frames *)

\* What is left of a frame: 1 to 3 bytes (Stub), the magic alone (Tag), less
\* than FRAME_OVERHEAD bytes (Short), a payload that ends early (Cut), or all
\* but the whole checksum (Crc).
Piece == {[op |-> p] : p \in {"Stub", "Tag", "Short", "Cut", "Crc"}}

\* encode_frame and write_all, interrupted: the first n frames of a batch and
\* perhaps a piece of the next.
Partial(edits) ==
  UNION {{SubSeq(edits, 1, n)}
           \cup {Append(SubSeq(edits, 1, n), p) : p \in IF n < Len(edits) THEN Piece ELSE {}} :
         n \in 0..Len(edits)}

\* How many bytes follow matters only for a magic followed by little: fewer
\* than FRAME_OVERHEAD bytes in all.
Little(rest) ==
  \/ rest = << >>
  \/ Len(rest) = 1 /\ rest[1].op \in {"Stub", "Tag"}

\* decode_frame at a piece: "end" stops the replay, "error" fails it.  With
\* more bytes behind it, the payload of a Short or Cut frame runs into them: its
\* checksum is wrong, or a length in it points past the end of the file.
DecodePiece(p, rest) ==
  CASE p.op \in {"Stub", "Crc"} -> {"end"}
    [] p.op = "Tag" -> IF Little(rest) THEN {"end"} ELSE {"error"}
    [] p.op = "Short" -> IF rest = << >> THEN {"end"} ELSE {"end", "error"}
    [] p.op = "Cut" -> IF rest = << >> THEN {"error"} ELSE {"end", "error"}

\* Number of frames before the first piece.
Complete(file) ==
  LET pieces == {i \in 1..Len(file) : file[i] \in Piece}
  IN  IF pieces = {} THEN Len(file)
      ELSE (CHOOSE i \in pieces : \A j \in pieces : i <= j) - 1

\* read_manifest_file and decode_all: how reading a file can end.  A file with
\* bytes that do not start with the magic is refused.
ReadOutcomes(file) ==
  LET n == Complete(file)
  IN  CASE n = Len(file) -> {"end"}
        [] n = 0 /\ file[1].op = "Stub" -> {"error"}
        [] OTHER -> DecodePiece(file[n + 1], SubSeq(file, n + 2, Len(file)))

-----------------------------------------------------------------------------
Idle == [pc |-> "idle", edits |-> << >>, unlink |-> {}, old |-> << >>]

Init ==
  /\ state = "up"
  /\ disk = << >> /\ attached = TRUE
  /\ version_set = VsDefault /\ edit_count = 0
  /\ ssts = << >>
  /\ job = Idle
  /\ flushes = 0 /\ jobs = 0 /\ crashes = 0 /\ fails = 0
  /\ settled = VsDefault /\ stored = {} /\ open_batch = << >> /\ sound = TRUE

\* A job starts; the SST files it made are on disk, its batch is next.
Start(files, edits, unlink) ==
  /\ state = "up" /\ job.pc = "idle"
  /\ jobs < MaxJobs
  /\ jobs' = jobs + 1
  /\ ssts' = [f \in DOMAIN ssts \cup DOMAIN files |->
                IF f \in DOMAIN files THEN files[f] ELSE ssts[f]]
  /\ job' = [pc |-> "append", edits |-> edits, unlink |-> unlink,
             old |-> << >>]
  /\ open_batch' = edits
  /\ sound' = (sound /\ open_batch = << >> /\ attached)
  /\ UNCHANGED <<state, logvars, memvars, crashes, fails, settled, stored>>

\* flush_sst_locked
Flush ==
  /\ flushes < MaxFlushes
  /\ flushes' = flushes + 1
  /\ LET f == version_set.next
     IN  Start([g \in {f} |-> {flushes + 1}],
               <<AddFile(f, 0, 0, 0), NextFileId(f + 1)>>, {})

Ascending(S) == SetToSortSeq(S, <)

\* Fault: the inputs are retired before the outputs are listed.
CompactionEdits_DeletesFirst(outs, ins, source, target) ==
  [i \in 1..Cardinality(ins) |->
     LET f == Ascending(ins)[i]
     IN  DeleteFile(f, IF f \in VsFiles(version_set, source) THEN source ELSE target)]
    \o [i \in 1..Cardinality(outs) |-> AddFile(Ascending(outs)[i], target, 0, 0)]
    \o <<NextFileId(Ascending(outs)[Cardinality(outs)] + 1)>>

\* commit_compaction: outputs, next id, then the inputs.
CompactionEdits(outs, ins, source, target) ==
  [i \in 1..Cardinality(outs) |-> AddFile(Ascending(outs)[i], target, 0, 0)]
    \o <<NextFileId(Ascending(outs)[Cardinality(outs)] + 1)>>
    \o [i \in 1..Cardinality(ins) |->
          LET f == Ascending(ins)[i]
          IN  DeleteFile(f, IF f \in VsFiles(version_set, source) THEN source ELSE target)]

\* compact, or sub_compact with its inputs in two chunks: the first m of them,
\* by id, and the others.  A file that cannot be read fails the job before it
\* changes anything.
Compact(source, target, m) ==
  LET ins == VsFiles(version_set, source) \cup VsFiles(version_set, target)
      base == version_set.next
      first == {Ascending(ins)[i] : i \in 1..m}
      Merge(S) == UNION {ssts[f] : f \in S}
      outs == IF first = ins THEN [f \in {base} |-> Merge(ins)]
              ELSE [f \in {base, base + 1} |->
                      IF f = base THEN Merge(first) ELSE Merge(ins \ first)]
  IN  /\ Cardinality(ins) >= 2 /\ m <= Cardinality(ins)
      /\ ins \subseteq DOMAIN ssts
      /\ Start(outs, CompactionEdits(DOMAIN outs, ins, source, target), ins)
      /\ UNCHANGED flushes

\* drop_table_prefix, undrop_table_prefix: the manifest's part of them.
DropTable(p) ==
  Start(<< >>, <<DroppedPrefix(p)>>, {}) /\ UNCHANGED flushes

UndropTable(p) ==
  Start(<< >>, <<UndroppedPrefix(p)>>, {}) /\ UNCHANGED flushes

-----------------------------------------------------------------------------
(* append_batch *)

\* write_all and sync_data.  A handle whose file was replaced writes to a file
\* that no name leads to.
AppendFrames ==
  /\ state = "up" /\ job.pc = "append"
  /\ disk' = IF attached THEN disk \o job.edits ELSE disk
  /\ job' = [job EXCEPT !.pc = "publish"]
  /\ UNCHANGED <<state, attached, memvars, ssts, bounds, history>>

\* ... one of them fails: the caller gets the error, nothing is published.
AppendFails ==
  /\ state = "up" /\ job.pc = "append"
  /\ fails < MaxFails
  /\ fails' = fails + 1
  /\ \E part \in Partial(job.edits) :
       disk' = IF attached THEN disk \o part ELSE disk
  /\ job' = Idle
  /\ UNCHANGED <<state, attached, memvars, ssts, flushes, jobs, crashes, history>>

\* The version set is swapped; then the log is rewritten if it is long.
Publish ==
  /\ state = "up" /\ job.pc = "publish"
  /\ version_set' = VsApplied(version_set, job.edits)
  /\ edit_count' = edit_count + Len(job.edits)
  /\ settled' = VsApplied(settled, job.edits)
  /\ stored' = stored \cup UNION {ssts[e.file] :
       e \in {x \in Range(job.edits) : x.op = "AddFile"}}
  /\ open_batch' = << >>
  /\ job' = [job EXCEPT !.pc = IF edit_count' >= SnapshotThreshold
                               THEN "rewrite" ELSE "unlink"]
  /\ UNCHANGED <<state, logvars, ssts, bounds, sound>>

\* rewrite: the snapshot is written beside the log, synced and renamed over it.
Rename ==
  /\ state = "up" /\ job.pc = "rewrite"
  /\ disk' = VsToEdits(version_set)
  /\ attached' = FALSE
  /\ job' = [job EXCEPT !.pc = "reopen", !.old = disk]
  /\ UNCHANGED <<state, memvars, ssts, bounds, history>>

\* ... then the directory is synced and the append handle reopened.
Reopen ==
  /\ state = "up" /\ job.pc = "reopen"
  /\ attached' = TRUE
  /\ edit_count' = 0
  /\ job' = [job EXCEPT !.pc = "unlink", !.old = << >>]
  /\ UNCHANGED <<state, disk, version_set, ssts, bounds, history>>

\* Either half fails: append_batch returns the error of a batch it published.
RewriteFails ==
  /\ state = "up" /\ job.pc \in {"rewrite", "reopen"}
  /\ fails < MaxFails
  /\ fails' = fails + 1
  /\ job' = Idle
  /\ UNCHANGED <<state, logvars, memvars, ssts, flushes, jobs, crashes, history>>

\* commit_compaction removes its inputs; every job ends here.
Unlink ==
  /\ state = "up" /\ job.pc = "unlink"
  /\ ssts' = [f \in DOMAIN ssts \ job.unlink |-> ssts[f]]
  /\ job' = Idle
  /\ UNCHANGED <<state, logvars, memvars, bounds, history>>

-----------------------------------------------------------------------------
(* Crash and recovery *)

\* The process dies.  Of a batch being written, some is in the file; a rename
\* that was not synced may or may not have happened.
Crash ==
  /\ state = "up"
  /\ crashes < MaxCrashes
  /\ crashes' = crashes + 1
  /\ state' = "down"
  /\ CASE job.pc = "append" /\ attached ->
            \E part \in Partial(job.edits) : disk' = disk \o part
       [] job.pc = "reopen" -> disk' \in {disk, job.old}
       [] OTHER -> disk' = disk
  /\ job' = Idle
  /\ UNCHANGED <<attached, memvars, ssts, flushes, jobs, fails, history>>

\* Manifest::open: replay every complete frame, append after what is there.
Open ==
  /\ state = "down"
  /\ \E outcome \in ReadOutcomes(disk) :
       IF outcome = "error"
       THEN /\ state' = "refused"
            /\ UNCHANGED <<attached, memvars, history>>
       ELSE /\ state' = "up"
            /\ version_set' = VsApplied(VsDefault, SubSeq(disk, 1, Complete(disk)))
            /\ edit_count' = Complete(disk)
            /\ attached' = TRUE
            /\ settled' = version_set'
            /\ open_batch' = IF Complete(disk) = Len(disk) THEN << >> ELSE open_batch
            /\ UNCHANGED <<stored, sound>>
  /\ UNCHANGED <<disk, ssts, job, bounds>>

-----------------------------------------------------------------------------
Next ==
  \/ Flush
  \/ \E l \in Level, m \in 1..MaxFlushes :
       l + 1 \in Level /\ Compact(l, l + 1, m)
  \/ \E p \in Prefix : DropTable(p) \/ UndropTable(p)
  \/ AppendFrames \/ AppendFails \/ Publish
  \/ Rename \/ Reopen \/ RewriteFails
  \/ Unlink
  \/ Crash
  \/ Open

Spec == Init /\ [][Next]_vars

-----------------------------------------------------------------------------
(* Properties *)

\* The type invariant of the log, the version set and the job.
LogTypeOK ==
  /\ state \in {"up", "down", "refused"}
  /\ attached \in BOOLEAN /\ sound \in BOOLEAN
  /\ version_set.levels \subseteq Level \X Nat
  /\ sound => \A f \in DOMAIN version_set.meta :
                Cardinality({p \in version_set.levels : p[2] = f}) = 1
  /\ \A f \in DOMAIN version_set.meta : f < version_set.next
  /\ version_set.dropped \subseteq Prefix
  /\ edit_count \in Nat
  /\ \A f \in DOMAIN ssts : ssts[f] \subseteq 1..MaxFlushes
  /\ job.pc \in {"idle", "append", "publish", "rewrite", "reopen", "unlink"}
  /\ job.pc \in {"idle", "append"} \/ job.edits # << >>

\* Manifest::open after a crash at any step, rewrites included, recovers the
\* version set of the batches that finished, and of the batch that was
\* interrupted at most a prefix: as long as no batch was appended behind an
\* unfinished one.  In particular drop filters come back as they were.
RecoversPrefix ==
  [][(state = "down" /\ state' = "up" /\ sound) =>
       \E n \in 0..Len(open_batch) :
         version_set' = VsApplied(settled, SubSeq(open_batch, 1, n))]_vars

\* "Manifest edits make the output visible before retiring inputs, so crashes
\* cannot lose committed versions" (compact): every row that was ever listed is
\* in a listed file that exists, whatever part of a compaction's batch a crash
\* leaves and whichever of its inputs are unlinked.
ListedRowsSurvive ==
  (state = "up" /\ sound) =>
    stored \subseteq UNION {ssts[f] : f \in DOMAIN version_set.meta \cap DOMAIN ssts}

(* What the documentation says of the program, and the program does not do. *)

\* "A torn final frame (crash mid-append) is detected by a bad magic / CRC and
\* silently truncated on open" (manifest.rs): without I/O errors, whatever a
\* crash leaves of a batch, the manifest can be opened.
TornFrameTruncated == state # "refused"
=============================================================================
