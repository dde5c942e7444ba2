----------------------------- MODULE Durability -----------------------------
(***************************************************************************)
(* Write-ahead log, flush and recovery: the write path and flush of        *)
(* crates/hatp-engine/src/lib.rs with the log of wal.rs, under crashes.    *)
(*                                                                         *)
(* write_guard serializes commits, so at most one writer is inside one;    *)
(* wpc says where.  A flusher is a thread inside Engine::flush: it drains  *)
(* the memtable under write_guard and does the rest without it, holding    *)
(* only compaction_guard.  A value is the number of the write that made    *)
(* it, so values are ordered as the log is.  A frame is a member of Frame; *)
(* frames are read back as written, or not at all (their CRC).             *)
(*                                                                         *)
(* Pre-commit validation is in SsiCommit; errors of the manifest append    *)
(* and compaction are not modelled here.                                   *)
(***************************************************************************)
EXTENDS Integers, Sequences, FiniteSets

CONSTANTS Key,        \* storage keys
          Flusher,    \* threads that call flush
          NoFlusher,  \* "compaction_guard is free"
          SyncModes,  \* the modes the database may be opened with
          Crashes,    \* what crashes: the process, or the machine under it
          WalMax,     \* wal_max_size_bytes, in frames
          MaxWrites,  \* bound: write calls
          MaxFlushes, \* bound: flush calls that find rows
          MaxCalls,   \* bound: both together
          MaxCrashes, \* bound: crashes
          MaxFaults   \* bound: crashes of the machine and failed appends, syncs,
                      \* SST writes

ASSUME ModeAssumption == /\ SyncModes \subseteq {"Full", "Group"}
                         /\ Crashes \subseteq {"process", "machine"}
ASSUME GuardAssumption == NoFlusher \notin Flusher
ASSUME KeyAssumption == IsFiniteSet(Key)
ASSUME BoundAssumption ==
  {WalMax, MaxWrites, MaxFlushes, MaxCalls, MaxCrashes, MaxFaults} \subseteq Nat

VARIABLES
  running,     \* the engine is open
  sync_mode,   \* the mode in its configuration
  wal,         \* frames in the log file
  synced,      \* how many of them are known to be on disk
  memtable,    \* rows in memory
  ssts,        \* file id -> rows of the SST file with that id
  unsynced,    \* ids of SST files the machine may lose (there is no fsync)
  manifest,    \* ids of the files the manifest lists
  commit_seq,  \* next commit timestamp
  next_tx_id,  \* next transaction id
  wpc,         \* where the writer inside write_guard is
  batch,       \* its batch
  todo,        \* keys of it not yet applied
  fpc,         \* flusher -> where it is
  rows,        \* flusher -> rows it drained
  compaction_guard, \* the flusher in flush_sst_locked
  writes, flushes, crashes, faults, \* counters; writes numbers values
  (* History variables; no action reads them. *)
  issued,      \* the batches given to write, in order
  acked,       \* values whose write returned Ok
  overlapped   \* values written while a flush was running

engine == <<running, sync_mode>>
walvars == <<wal, synced>>
diskvars == <<ssts, unsynced, manifest>>
wvars == <<wpc, batch, todo>>
fvars == <<fpc, rows, compaction_guard>>
history == <<issued, acked, overlapped>>
vars == <<engine, walvars, memtable, diskvars, commit_seq, next_tx_id, wvars,
          fvars, writes, flushes, crashes, faults, history>>

-----------------------------------------------------------------------------
(* Data *)

Row == [key : Key, ts : Nat, val : Nat]

\* What an interrupted write_all leaves of a frame: less than its magic
\* (Stub); so little of its header that bytes appended later are taken for its
\* operation tag, and are none (Short); or anything else (Torn).
Broken == [op : {"Stub", "Short", "Torn"}]

\* Put and Delete frames carry the same information here.
Frame == [op : {"Put"}, tx : Nat, key : Key, val : Nat]
           \cup [op : {"Commit"}, tx : Nat] \cup Broken

\* What is left of frames w when only the first n of them are complete.
Cut(w, n) ==
  {SubSeq(w, 1, n)}
    \cup IF n < Len(w) THEN {Append(SubSeq(w, 1, n), b) : b \in Broken} ELSE {}

\* encode_mutations: the batch in its own order, then its Commit marker.
Encodings(tx, b) ==
  {Append([i \in 1..Cardinality(b.keys) |->
             [op |-> "Put", tx |-> tx, key |-> order[i], val |-> b.val]],
          [op |-> "Commit", tx |-> tx]) :
     order \in {o \in [1..Cardinality(b.keys) -> b.keys] :
                  \A i, j \in 1..Cardinality(b.keys) : o[i] = o[j] => i = j}}

NoBatch == [tx |-> 0, val |-> 0, keys |-> {}, ts |-> 0]

SstRows == UNION {ssts[f] : f \in manifest \cap DOMAIN ssts}

Stored == memtable \cup SstRows

\* r is the version of k with the highest timestamp, the one a snapshot at the
\* end of the commit sequence sees.  How get finds it is not modelled here.
Newest(k, r) == /\ r \in Stored /\ r.key = k
                /\ \A s \in Stored : s.key = k => s.ts <= r.ts

-----------------------------------------------------------------------------
(* Recovery *)

\* decode_all: frames up to the first one that is broken.
ValidPrefix(w) ==
  LET n == CHOOSE n \in 0..Len(w) :
             /\ \A i \in 1..n : w[i] \notin Broken
             /\ n < Len(w) => w[n + 1] \in Broken
  IN  SubSeq(w, 1, n)

\* recover_records_with_truncation refuses a file that has bytes but does not
\* start with the magic; decode_frame refuses a header with an unknown tag.
Recognized(w) ==
  /\ w # << >> => w[1].op # "Stub"
  /\ LET n == Len(ValidPrefix(w)) + 1
     IN  (n < Len(w) /\ w[n].op = "Short") =>
           \A i \in (n + 1)..Len(w) : w[i].op = "Stub"

\* The frames of the batch that the Commit frame i closes: `pending`.
Pending(w, i) ==
  {j \in 1..(i - 1) :
     /\ w[j].op = "Put" /\ w[j].tx = w[i].tx
     /\ \A m \in (j + 1)..(i - 1) : w[m] # w[i]}

ClosesBatch(w, i) == w[i].op = "Commit" /\ Pending(w, i) # {}

\* Fault: every batch is replayed at the same timestamp.
Replay_SameTs(w, base) ==
  {[key |-> w[j].key, ts |-> base, val |-> w[j].val] :
     j \in UNION {Pending(w, i) : i \in {c \in 1..Len(w) : ClosesBatch(w, c)}}}

\* Replay in log order, one timestamp per batch, the first one being `base`.
Replay(w, base) ==
  LET Ts(i) == base + Cardinality({j \in 1..(i - 1) : ClosesBatch(w, j)})
  IN  UNION {{[key |-> w[j].key, ts |-> Ts(i), val |-> w[j].val] :
                j \in Pending(w, i)} :
             i \in {c \in 1..Len(w) : ClosesBatch(w, c)}}

MaxOf(S) == CHOOSE n \in S : \A m \in S : m <= n

\* Fault: the timestamps of the SSTs are ignored.
SstMaxCommit_Ignored == 0

SstMaxCommit == MaxOf({0} \cup {r.ts : r \in SstRows})

\* Fault: only committed frames count.
HighestTx_Committed(w) ==
  MaxOf({0} \cup {w[i].tx : i \in {j \in 1..Len(w) : w[j].op = "Commit"}})

HighestTx(w) == MaxOf({0} \cup {w[i].tx : i \in 1..Len(w)})

Init ==
  /\ running = TRUE /\ sync_mode \in SyncModes
  /\ wal = << >> /\ synced = 0
  /\ memtable = {}
  /\ ssts = << >> /\ unsynced = {} /\ manifest = {}
  /\ commit_seq = 1 /\ next_tx_id = 1
  /\ wpc = "idle" /\ batch = NoBatch
  /\ todo = {}
  /\ fpc = [f \in Flusher |-> "idle"]
  /\ rows = [f \in Flusher |-> {}]
  /\ compaction_guard = NoFlusher
  /\ writes = 0 /\ flushes = 0 /\ crashes = 0 /\ faults = 0
  /\ issued = << >> /\ acked = {} /\ overlapped = {}

\* The process dies, or the machine does.  The log keeps what was synced; of
\* the rest, a dead process loses at most the write_all it was in.
Crash(kind) ==
  /\ running
  /\ crashes < MaxCrashes
  /\ crashes' = crashes + 1
  /\ running' = FALSE
  /\ LET kept == CASE kind = "machine" -> synced
                   [] kind = "process" /\ wpc = "sync" /\ Len(wal) > synced ->
                        Len(wal) - (Cardinality(batch.keys) + 1)
                   [] OTHER -> Len(wal)
     IN  \E n \in kept..Len(wal) : wal' \in Cut(wal, n)
  /\ synced' = Len(wal')
  /\ \E lost \in IF kind = "machine" THEN SUBSET unsynced ELSE {{}} :
       /\ ssts' = [f \in DOMAIN ssts \ lost |-> ssts[f]]
       /\ unsynced' = IF kind = "machine" THEN {} ELSE unsynced
  /\ IF kind = "machine"
     THEN faults < MaxFaults /\ faults' = faults + 1
     ELSE UNCHANGED faults
  /\ memtable' = {}
  /\ commit_seq' = 1 /\ next_tx_id' = 1
  /\ wpc' = "idle" /\ batch' = NoBatch /\ todo' = {}
  /\ fpc' = [f \in Flusher |-> "idle"]
  /\ rows' = [f \in Flusher |-> {}]
  /\ compaction_guard' = NoFlusher
  /\ UNCHANGED <<sync_mode, manifest, writes, flushes, history>>

\* open_with_hook: read the SSTs the manifest lists (a missing one is
\* skipped), replay the log above them, truncate its broken tail.
Open ==
  /\ ~running
  /\ Recognized(wal)
  /\ running' = TRUE /\ sync_mode' \in SyncModes
  /\ wal' = ValidPrefix(wal)
  /\ synced' = Len(wal')
  /\ memtable' = Replay(wal', SstMaxCommit + 1)
  /\ commit_seq' = SstMaxCommit + 1
       + Cardinality({i \in 1..Len(wal') : ClosesBatch(wal', i)})
  /\ next_tx_id' = HighestTx(wal') + 1
  /\ UNCHANGED <<diskvars, wvars, fvars, writes, flushes, crashes, faults,
                 history>>

-----------------------------------------------------------------------------
(* commit_single *)

\* write reserves an id, takes write_guard and hands the frames to write_all.
WalWrite(keys) ==
  /\ running /\ wpc = "idle"
  /\ writes < MaxWrites /\ writes + flushes < MaxCalls
  /\ LET b == [tx |-> next_tx_id, val |-> writes + 1, keys |-> keys, ts |-> 0]
     IN  /\ batch' = b
         /\ issued' = Append(issued, keys)
         /\ \E frames \in Encodings(next_tx_id, b) : wal' = wal \o frames
  /\ overlapped' = overlapped \cup
       IF \E f \in Flusher : fpc[f] # "idle" THEN {writes + 1} ELSE {}
  /\ writes' = writes + 1
  /\ next_tx_id' = next_tx_id + 1
  /\ wpc' = "sync"
  /\ UNCHANGED <<engine, synced, memtable, diskvars, commit_seq, todo, fvars,
                 flushes, crashes, faults, acked>>

\* ... or write_all fails half way: some frames of the batch, perhaps a broken
\* one, stay in the log, and the caller gets an error.
WalWriteFails(keys) ==
  /\ faults < MaxFaults
  /\ faults' = faults + 1
  /\ running /\ wpc = "idle"
  /\ writes < MaxWrites /\ writes + flushes < MaxCalls
  /\ LET b == [tx |-> next_tx_id, val |-> writes + 1, keys |-> keys, ts |-> 0]
     IN  \E frames \in Encodings(next_tx_id, b) :
           \E n \in 0..(Len(frames) - 1) :
             \E part \in Cut(frames, n) : wal' = wal \o part
  /\ issued' = Append(issued, keys)
  /\ writes' = writes + 1
  /\ next_tx_id' = next_tx_id + 1
  /\ UNCHANGED <<engine, synced, memtable, diskvars, commit_seq, wvars, fvars,
                 flushes, crashes, acked, overlapped>>

\* sync_data, in mode Full; then fetch_add assigns the commit timestamp.
WalSync ==
  /\ running /\ wpc = "sync"
  /\ synced' = IF sync_mode = "Full" THEN Len(wal) ELSE synced
  /\ batch' = [batch EXCEPT !.ts = commit_seq]
  /\ commit_seq' = commit_seq + 1
  /\ todo' = batch.keys
  /\ wpc' = "apply"
  /\ UNCHANGED <<engine, wal, memtable, diskvars, next_tx_id, fvars, writes,
                 flushes, crashes, faults, history>>

\* sync_data fails: the caller gets an error, the batch stays in the log.
WalSyncFails ==
  /\ faults < MaxFaults
  /\ faults' = faults + 1
  /\ sync_mode = "Full"
  /\ running /\ wpc = "sync"
  /\ wpc' = "idle" /\ batch' = NoBatch
  /\ UNCHANGED <<engine, walvars, memtable, diskvars, commit_seq, next_tx_id,
                 todo, fvars, writes, flushes, crashes, history>>

\* apply_mutations_batch, key by key; after the last one write returns Ok.
Apply ==
  /\ running /\ wpc = "apply"
  /\ \E k \in todo :
       /\ memtable' = memtable \cup
            {[key |-> k, ts |-> batch.ts, val |-> batch.val]}
       /\ todo' = todo \ {k}
       /\ IF todo = {k}
          THEN /\ wpc' = "idle" /\ batch' = NoBatch
               /\ acked' = acked \cup {batch.val}
          ELSE UNCHANGED <<wpc, batch, acked>>
  /\ UNCHANGED <<engine, walvars, diskvars, commit_seq, next_tx_id, fvars,
                 writes, flushes, crashes, faults, issued, overlapped>>

\* wal_sync_worker_loop, in mode Group.  The log's file mutex is free.
BackgroundSync ==
  /\ sync_mode = "Group"
  /\ running
  /\ synced < Len(wal)
  /\ synced' = Len(wal)
  /\ UNCHANGED <<engine, wal, memtable, diskvars, commit_seq, next_tx_id,
                 wvars, fvars, writes, flushes, crashes, faults, history>>

-----------------------------------------------------------------------------
(* flush *)

\* Fault: the memtable is drained without waiting for write_guard.
Drain_NoGuard(f) ==
  /\ running /\ fpc[f] = "idle"
  /\ memtable # {}
  /\ flushes < MaxFlushes /\ writes + flushes < MaxCalls
  /\ flushes' = flushes + 1
  /\ rows' = [rows EXCEPT ![f] = memtable]
  /\ memtable' = {}
  /\ fpc' = [fpc EXCEPT ![f] = "drained"]
  /\ UNCHANGED <<engine, walvars, diskvars, commit_seq, next_tx_id, wvars,
                 compaction_guard, writes, crashes, faults, history>>

\* Phase one: drain and clear under write_guard.
Drain(f) ==
  /\ running /\ fpc[f] = "idle"
  /\ wpc = "idle"
  /\ memtable # {}
  /\ flushes < MaxFlushes /\ writes + flushes < MaxCalls
  /\ flushes' = flushes + 1
  /\ rows' = [rows EXCEPT ![f] = memtable]
  /\ memtable' = {}
  /\ fpc' = [fpc EXCEPT ![f] = "drained"]
  /\ UNCHANGED <<engine, walvars, diskvars, commit_seq, next_tx_id, wvars,
                 compaction_guard, writes, crashes, faults, history>>

\* next_file_id of the version set: above every listed file.
NextFileId == MaxOf({0} \cup manifest) + 1

\* Phase two, under compaction_guard: the SST file is written, not synced.
WriteSst(f) ==
  /\ running /\ fpc[f] = "drained"
  /\ compaction_guard = NoFlusher
  /\ compaction_guard' = f
  /\ ssts' = [g \in DOMAIN ssts \cup {NextFileId} |->
                IF g = NextFileId THEN rows[f] ELSE ssts[g]]
  /\ unsynced' = unsynced \cup {NextFileId}
  /\ fpc' = [fpc EXCEPT ![f] = "written"]
  /\ UNCHANGED <<engine, walvars, memtable, manifest, commit_seq, next_tx_id,
                 wvars, rows, writes, flushes, crashes, faults, history>>

\* The SST write fails: flush returns the error and the drained rows are gone
\* from memory.
WriteSstFails(f) ==
  /\ faults < MaxFaults
  /\ faults' = faults + 1
  /\ running /\ fpc[f] = "drained"
  /\ compaction_guard = NoFlusher
  /\ fpc' = [fpc EXCEPT ![f] = "idle"]
  /\ rows' = [rows EXCEPT ![f] = {}]
  /\ UNCHANGED <<engine, walvars, memtable, diskvars, commit_seq, next_tx_id,
                 wvars, compaction_guard, writes, flushes, crashes, history>>

\* append_batch: AddFile and NextFileId, durable in one write and sync.
AppendManifest(f) ==
  /\ running /\ fpc[f] = "written"
  /\ manifest' = manifest \cup {NextFileId}
  /\ fpc' = [fpc EXCEPT ![f] = "listed"]
  /\ UNCHANGED <<engine, walvars, memtable, ssts, unsynced, commit_seq,
                 next_tx_id, wvars, rows, compaction_guard, writes, flushes,
                 crashes, faults, history>>

\* The second clear, without write_guard.
ClearMemtable(f) ==
  /\ running /\ fpc[f] = "listed"
  /\ memtable' = {}
  /\ fpc' = [fpc EXCEPT ![f] = "cleared"]
  /\ UNCHANGED <<engine, walvars, diskvars, commit_seq, next_tx_id, wvars,
                 rows, compaction_guard, writes, flushes, crashes, faults,
                 history>>

\* The log is reset when it is over its threshold; then flush returns.  The
\* log's file mutex keeps the reset out of append_mutations_commit_and_sync.
ResetWal(f) ==
  /\ running /\ fpc[f] = "cleared"
  /\ sync_mode = "Full" => wpc # "sync"
  /\ IF Len(wal) > WalMax
     THEN wal' = << >> /\ synced' = 0
     ELSE UNCHANGED walvars
  /\ fpc' = [fpc EXCEPT ![f] = "idle"]
  /\ rows' = [rows EXCEPT ![f] = {}]
  /\ compaction_guard' = NoFlusher
  /\ UNCHANGED <<engine, memtable, diskvars, commit_seq, next_tx_id, wvars,
                 writes, flushes, crashes, faults, history>>

-----------------------------------------------------------------------------
Next ==
  \/ \E kind \in Crashes : Crash(kind)
  \/ Open
  \/ \E keys \in (SUBSET Key) \ {{}} : WalWrite(keys) \/ WalWriteFails(keys)
  \/ WalSync
  \/ WalSyncFails
  \/ Apply
  \/ BackgroundSync
  \/ \E f \in Flusher : \/ Drain(f)
                        \/ WriteSst(f)
                        \/ WriteSstFails(f)
                        \/ AppendManifest(f)
                        \/ ClearMemtable(f)
                        \/ ResetWal(f)

Spec == Init /\ [][Next]_vars

-----------------------------------------------------------------------------
(* Properties *)

\* Only the process has crashed, and no call has failed, so far.
Mild == faults = 0

\* The newest version of a key never hides a later write of it that is stored
\* too: the timestamps open_with_hook assigns on replay, which differ from
\* those the rows were flushed with, keep the commit order.  (After a failed
\* append they do not: replay stops at the frame it broke, and moves what is
\* before it above the rows that were written after it and flushed.)
NewestWins ==
  (running /\ Mild) => \A k \in Key, r, s \in Stored :
               (Newest(k, r) /\ s.key = k) => s.val <= r.val

\* Recovery replays whole batches: the frames a crash or an error left of a
\* batch without its Commit marker are never taken for part of another one.
AtomicReplay ==
  [][(~running /\ running') =>
       \A r \in memtable' :
         {s.key : s \in {x \in memtable' : x.val = r.val}} = issued[r.val]]_vars

InLog(v) ==
  LET w == ValidPrefix(wal)
  IN  \E i \in 1..Len(w) :
        w[i].op = "Commit" /\ \E j \in Pending(w, i) : w[j].val = v

Recoverable(v) ==
  \A k \in issued[v] :
    InLog(v) \/ \E r \in SstRows : r.key = k /\ r.val = v

\* An acknowledged write that did not run during a flush is in the log or in a
\* listed SST at every moment, so that the death of the process at any step of
\* flush (drain, SST, manifest, clear, log reset) loses none of it.
QuietWritesSurvive == Mild => \A v \in acked \ overlapped : Recoverable(v)

\* ... and outside flushes the newest version of each of its keys is its own or
\* a later one, through any number of flushes and recoveries.
QuietWritesNewest ==
  (running /\ Mild /\ \A f \in Flusher : fpc[f] = "idle") =>
    \A v \in acked \ overlapped : \A k \in issued[v] :
      \E r \in Stored : Newest(k, r) /\ v <= r.val

(* What the documentation says of the program, and the program does not do. *)

\* SyncMode::Full "guarantees no data loss on power failure": every
\* acknowledged write is recoverable.
NoDataLoss == \A v \in acked : Recoverable(v)

\* "A torn final frame is detected by either a missing magic or a CRC mismatch
\* and is silently truncated" (wal.rs): whatever a crash leaves of the log, the
\* database can be opened again.
TornTailRecovers == ~running => Recognized(wal)
=============================================================================
