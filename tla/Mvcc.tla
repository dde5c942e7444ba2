-------------------------------- MODULE Mvcc --------------------------------
(***************************************************************************)
(* The in-memory half of a commit and its readers: the memtable backends   *)
(* of crates/hatp-engine/src/memtable.rs, and the commit sequence, the     *)
(* snapshot pins, the watermark and the memtable garbage collection of     *)
(* lib.rs.                                                                 *)
(*                                                                         *)
(* write_guard serializes commits: there is one writer.  The BTreeMap      *)
(* backend does each of its operations under a lock.  The SkipMap backend  *)
(* has none: a batch is applied one mutation at a time, each an atomic     *)
(* read-copy-update of a chain, and garbage collection loads a chain and   *)
(* stores the pruned copy.  A reader is a transaction or a scan that holds *)
(* a SnapshotGuard.                                                        *)
(*                                                                         *)
(* The log (before a commit gets its timestamp) and flush are in           *)
(* Durability; validation is in SsiCommit.                                 *)
(***************************************************************************)
EXTENDS VersionChain, Sequences, FiniteSets

CONSTANTS Key, Reader,
          Val,        \* what a mutation writes: values and the tombstone
          Batches,    \* the batches clients commit: sequences of mutations
          Backends,   \* the memtable implementations configured
          MaxCommits  \* bound: commits

ASSUME BackendAssumption == Backends \subseteq {"BTreeMap", "SkipMap"}
ASSUME BatchAssumption == Batches \subseteq Seq([key : Key, val : Val]) \ {<< >>}
ASSUME CommitBoundAssumption == MaxCommits \in Nat /\ MaxCommits < OpenEnded
ASSUME ReaderAssumption == IsFiniteSet(Reader)

VARIABLES
  backend,     \* memtable_impl
  commit_seq,  \* next commit timestamp
  chains,      \* the memtable: key -> version chain
  pins,        \* pinned_snapshots: timestamp -> reference count
  reader,      \* reader -> its guard: open, timestamp, and whether the
               \* timestamp was protected when the guard was made
  writer,      \* the thread in write_guard: where it is, its timestamp, the
               \* mutations still to apply
  gc,          \* the thread in garbage_collect: where it is, its watermark,
               \* keys to visit, the key and the copy of the chain it holds
  (* History variables; no action reads them. *)
  hist,        \* key -> versions applied and not lost
  lost,        \* versions overwritten by a store of garbage_collect
  since        \* latest timestamp handed out when the collection began

memvars == <<backend, commit_seq, chains>>
pinvars == <<pins, reader>>
history == <<hist, lost>>
gcvars == <<gc, since>>
vars == <<memvars, pinvars, writer, gcvars, history>>

Ts == 0..MaxCommits

snapshot_ts == commit_seq - 1

NoMutations == << >>

IdleWriter == [pc |-> "idle", ts |-> 0, todo |-> NoMutations]
IdleGc == [pc |-> "idle", oldest |-> 0, todo |-> {}, keys |-> {},
           copy |-> EmptyChain]

Init ==
  /\ backend \in Backends
  /\ commit_seq = 1
  /\ chains = [k \in Key |-> EmptyChain]
  /\ pins = [t \in Ts |-> 0]
  /\ reader = [r \in Reader |-> [open |-> FALSE, ts |-> 0, safe |-> FALSE]]
  /\ writer = IdleWriter
  /\ gc = IdleGc
  /\ hist = [k \in Key |-> [t \in {} |-> "none"]]
  /\ lost = {}
  /\ since = -1

-----------------------------------------------------------------------------
(* Snapshots *)

\* Fault: the snapshot is read, but the pin is not taken with it.
begin_read_NoPin(r) ==
  /\ ~reader[r].open
  /\ reader' = [reader EXCEPT ![r] =
                  [open |-> TRUE, ts |-> snapshot_ts, safe |-> TRUE]]
  /\ UNCHANGED pins

\* begin_read: read the snapshot and pin it, under the pin lock.
begin_read(r) ==
  /\ ~reader[r].open
  /\ reader' = [reader EXCEPT ![r] =
                  [open |-> TRUE, ts |-> snapshot_ts, safe |-> TRUE]]
  /\ pins' = [pins EXCEPT ![snapshot_ts] = @ + 1]

\* pin_snapshot: any timestamp the caller knows of.  It was protected already
\* if a protected guard for it is held, as by a transaction that scans.
pin_snapshot(r, ts) ==
  /\ ~reader[r].open /\ ts <= snapshot_ts
  /\ reader' = [reader EXCEPT ![r] =
                  [open |-> TRUE, ts |-> ts,
                   safe |-> \E q \in Reader : /\ reader[q].open /\ reader[q].safe
                                              /\ reader[q].ts = ts]]
  /\ pins' = [pins EXCEPT ![ts] = @ + 1]

\* Fault: the last reference is not needed for the pin to go.
unpin_snapshot_All(r) ==
  /\ reader[r].open
  /\ reader' = [reader EXCEPT ![r] = [open |-> FALSE, ts |-> 0, safe |-> FALSE]]
  /\ pins' = [pins EXCEPT ![reader[r].ts] = 0]

\* Dropping a guard: unpin_snapshot.
unpin_snapshot(r) ==
  /\ reader[r].open
  /\ reader' = [reader EXCEPT ![r] = [open |-> FALSE, ts |-> 0, safe |-> FALSE]]
  /\ pins' = [pins EXCEPT ![reader[r].ts] = @ - 1]

\* watermark: the oldest pin, or the latest commit if that is older.
IsWatermark(w) ==
  /\ w = snapshot_ts \/ (w \in Ts /\ pins[w] > 0)
  /\ w <= snapshot_ts
  /\ \A t \in Ts : pins[t] > 0 => w <= t

Readers ==
  /\ \E r \in Reader : \/ begin_read(r)
                       \/ \E ts \in Ts : pin_snapshot(r, ts)
                       \/ unpin_snapshot(r)
  /\ UNCHANGED <<memvars, writer, gcvars, history>>

-----------------------------------------------------------------------------
(* Commits *)

\* The commit is in the log; it gets its timestamp.
TakeTimestamp ==
  /\ writer.pc = "idle" /\ commit_seq <= MaxCommits
  /\ \E b \in Batches :
       writer' = [pc |-> "apply", ts |-> commit_seq, todo |-> b]
  /\ commit_seq' = commit_seq + 1
  /\ UNCHANGED <<backend, chains, pinvars, gcvars, hist, lost>>

\* What is recorded of a write: the value under the writer's timestamp.
Recorded(h, v) ==
  [t \in DOMAIN h \cup {writer.ts} |-> IF t = writer.ts THEN v ELSE h[t]]

\* What the batch b leaves in k: an insert replaces an earlier one of the same
\* timestamp, so the last mutation of a key counts.
LastWrite(b, k) ==
  LET writes == {i \in 1..Len(b) : b[i].key = k}
  IN  b[CHOOSE i \in writes : \A j \in writes : j <= i].val

\* BTreeMapTable::apply_mutations_batch: the whole batch under the lock.
ApplyUnderLock ==
  /\ writer.pc = "apply" /\ backend = "BTreeMap"
  /\ LET b == writer.todo
         written == {b[i].key : i \in 1..Len(b)}
     IN  /\ chains' = [k \in Key |->
                         IF k \in written
                         THEN ChainInsert(chains[k], writer.ts, LastWrite(b, k))
                         ELSE chains[k]]
         /\ hist' = [k \in Key |-> IF k \in written THEN Recorded(hist[k], LastWrite(b, k))
                                  ELSE hist[k]]
  /\ writer' = IdleWriter
  /\ UNCHANGED <<backend, commit_seq, pinvars, gcvars, lost>>

\* SkipMapTable::apply_mutations_batch: the next mutation.
ApplyOne ==
  /\ writer.pc = "apply" /\ backend = "SkipMap"
  /\ LET m == Head(writer.todo)
     IN  /\ chains' = [chains EXCEPT ![m.key] = ChainInsert(@, writer.ts, m.val)]
         /\ hist' = [hist EXCEPT ![m.key] = Recorded(@, m.val)]
  /\ writer' = IF Tail(writer.todo) = NoMutations THEN IdleWriter
               ELSE [writer EXCEPT !.todo = Tail(@)]
  /\ UNCHANGED <<backend, commit_seq, pinvars, gcvars, lost>>

-----------------------------------------------------------------------------
(* Garbage collection *)

\* Engine::garbage_collect computes the watermark.
StartCollect ==
  /\ gc.pc = "idle"
  /\ \E w \in Ts : /\ IsWatermark(w)
                   /\ gc' = [IdleGc EXCEPT !.pc = "sweep", !.oldest = w,
                                           !.todo = Key]
  /\ since' = snapshot_ts
  /\ UNCHANGED <<memvars, pinvars, writer, history>>

\* BTreeMapTable::garbage_collect: every chain under the lock.
CollectUnderLock ==
  /\ gc.pc = "sweep" /\ backend = "BTreeMap"
  /\ chains' = [k \in Key |-> ChainCollect(chains[k], gc.oldest)]
  /\ gc' = IdleGc /\ since' = -1
  /\ UNCHANGED <<backend, commit_seq, pinvars, writer, history>>

\* SkipMapTable::garbage_collect: load the next chain.
LoadChain ==
  /\ gc.pc = "sweep" /\ backend = "SkipMap"
  /\ \E k \in gc.todo :
       gc' = [gc EXCEPT !.pc = "store", !.todo = @ \ {k}, !.keys = {k},
                        !.copy = chains[k]]
  /\ UNCHANGED <<memvars, pinvars, writer, since, history>>

\* Store the pruned copy if it is shorter; what was applied to the chain since
\* it was loaded is overwritten.
StoreChain ==
  /\ gc.pc = "store"
  /\ \E k \in gc.keys :
       LET kept == ChainCollect(gc.copy, gc.oldest)
           gone == {t \in DOMAIN chains[k] : Newer(gc.copy, t) = {}} \ DOMAIN kept
           undone == {t \in DOMAIN kept : kept[t].val # chains[k][t].val}
       IN  IF DOMAIN kept = DOMAIN gc.copy THEN UNCHANGED <<chains, history>>
           ELSE /\ chains' = [chains EXCEPT ![k] = kept]
                /\ hist' = [hist EXCEPT ![k] =
                              [t \in DOMAIN @ \ gone |->
                                 IF t \in undone THEN kept[t].val ELSE hist[k][t]]]
                /\ lost' = lost \cup {[key |-> k, ts |-> t] : t \in gone \cup undone}
  /\ IF gc.todo = {} THEN gc' = IdleGc /\ since' = -1
                     ELSE /\ gc' = [gc EXCEPT !.pc = "sweep", !.keys = {},
                                              !.copy = EmptyChain]
                          /\ UNCHANGED since
  /\ UNCHANGED <<backend, commit_seq, pinvars, writer>>

-----------------------------------------------------------------------------

Writer == TakeTimestamp \/ ApplyUnderLock \/ ApplyOne

Collector == StartCollect \/ CollectUnderLock \/ LoadChain \/ StoreChain

Next == Readers \/ Writer \/ Collector

Spec == Init /\ [][Next]_vars

-----------------------------------------------------------------------------
(* Properties *)

\* pinned_snapshots counts, for every timestamp, the guards alive for it: no
\* pin is dropped while a guard needs it or kept when none does.
PinsExact ==
  \A t \in Ts : pins[t] = Cardinality({r \in Reader : reader[r].open /\ reader[r].ts = t})

\* r reads version t of k: the newest one applied not later than its snapshot.
Due(k, s, t) == /\ t \in DOMAIN hist[k] /\ t <= s
                /\ \A u \in DOMAIN hist[k] : u <= s => u <= t

\* A reader with a protected snapshot reads exactly the newest version applied
\* up to it, however commits, other readers and garbage collection interleave,
\* on either backend; only versions that garbage_collect of the SkipMap backend
\* overwrote (`lost`) are missing.
PinnedReadsExact ==
  \A r \in Reader, k \in Key :
    reader[r].open /\ reader[r].safe =>
      LET got == ChainGet(chains[k], reader[r].ts)
      IN  IF got.found THEN /\ Due(k, reader[r].ts, got.begin)
                            /\ got.val = hist[k][got.begin]
          ELSE \A t \in DOMAIN hist[k] : t > reader[r].ts

\* The memtable implements the multi-version map MvccMap: versions leave a
\* chain only when no snapshot can read them, or (SkipMap) when they were
\* applied during a collection.
Abs == INSTANCE MvccMap WITH
         store <- [k \in Key |-> [t \in DOMAIN chains[k] |-> chains[k][t].val]],
         seq <- snapshot_ts,
         snap <- [r \in Reader |-> IF reader[r].safe THEN reader[r].ts ELSE -1],
         racy <- (backend = "SkipMap")

ImplementsMap == Abs!Spec

-----------------------------------------------------------------------------
(* What the documentation says of the program, and the program does not do. *)

\* "so they never drop an MVCC version that a live transaction can still
\* observe": no committed version is lost to garbage collection.
NothingLost == lost = {}
=============================================================================
