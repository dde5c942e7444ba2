----------------------------- MODULE CommitFeed ------------------------------
(***************************************************************************)
(* A commit seen from outside: admission by the write throttle             *)
(* (crates/hatp-engine/src/pressure.rs and write_with_tx of lib.rs), the   *)
(* steps of commit_single, and the change watcher of watch.rs that they    *)
(* feed.  Flush is here for what it does to the memtable's size and to     *)
(* the gauge that the throttle reads.                                      *)
(*                                                                         *)
(* Sizes are counted in commits: each adds one to the memtable.  The hook  *)
(* and its verdict belong to SsiCommit, the log's contents to Durability.  *)
(***************************************************************************)
EXTENDS Watcher, FiniteSets

CONSTANTS
  Writer,       \* threads that commit
  SyncModes,    \* the sync modes a database may be opened with
  WaitFor,      \* the timestamps that waiters wait for
  HardBytes,    \* the size from which should_throttle says Hard
  MaxCommits, MaxFlushes

ASSUME FeedAssumption ==
  /\ SyncModes \subseteq {"full", "group"} /\ SyncModes # {}
  /\ WaitFor \subseteq Nat /\ IsFiniteSet(Writer)
  /\ HardBytes \in Nat \ {0} /\ MaxCommits \in Nat /\ MaxFlushes \in Nat

VARIABLES
  sync_mode,
  commit_seq,     \* the next commit timestamp
  logged,         \* the last commit whose records are in the log
  synced,         \* the last commit whose records are known to be on the disk
  applied,        \* the last commit applied to the memtable
  memtable_bytes, \* what the memtable holds
  gauge,          \* metrics.memtable_bytes
  writer,         \* writer -> [pc, ts, event]
  flusher,        \* "idle" or "drained"
  flushes

feedvars == <<sync_mode, commit_seq, logged, synced, applied, memtable_bytes, gauge,
              writer, flusher, flushes>>
vars == <<watchvars, feedvars>>

Resting == [pc |-> "idle", ts |-> 0, event |-> FALSE]

Init ==
  /\ WInit(0)
  /\ sync_mode \in SyncModes
  /\ commit_seq = 1 /\ logged = 0 /\ synced = 0 /\ applied = 0
  /\ memtable_bytes = 0 /\ gauge = 0
  /\ writer = [x \in Writer |-> Resting]
  /\ flusher = "idle" /\ flushes = 0

-----------------------------------------------------------------------------
(* A commit. *)

\* Fault: commits do not exclude each other.
WriteGuardFree_Ignored == TRUE

\* write_guard: from the append to the gauge it is one writer's.
WriteGuardFree == \A x \in Writer : writer[x].pc \in {"idle", "admitted"}

At(x, pc) == writer' = [writer EXCEPT ![x].pc = pc]

\* Fault: a memtable of exactly the hard size is still let through.
ShouldThrottle_Above == gauge > HardBytes

\* should_throttle answers Hard.  Soft is None after a sleep.
ShouldThrottle == gauge >= HardBytes

\* write_with_tx consults the throttle before it queues for the guard.
Admit(x) ==
  /\ writer[x].pc = "idle" /\ commit_seq <= MaxCommits /\ ~ShouldThrottle
  /\ At(x, "admitted")
  /\ UNCHANGED <<watchvars, sync_mode, commit_seq, logged, synced, applied,
                 memtable_bytes, gauge, flusher, flushes>>

\* commit_single to commit_seq.fetch_add: the log has the commit, synced only in
\* full mode.
Log(x) ==
  /\ writer[x].pc = "admitted" /\ WriteGuardFree /\ commit_seq <= MaxCommits
  /\ writer' = [writer EXCEPT ![x].pc = "logged", ![x].ts = commit_seq]
  /\ commit_seq' = commit_seq + 1
  /\ logged' = commit_seq
  /\ synced' = IF sync_mode = "full" THEN commit_seq ELSE synced
  /\ UNCHANGED <<watchvars, sync_mode, applied, memtable_bytes, gauge, flusher, flushes>>

Apply(x) ==
  /\ writer[x].pc = "logged"
  /\ At(x, "applied")
  /\ applied' = writer[x].ts
  /\ memtable_bytes' = memtable_bytes + 1
  /\ UNCHANGED <<watchvars, sync_mode, commit_seq, logged, synced, gauge, flusher, flushes>>

\* Fault: the commit is published as soon as it has its timestamp.
Resolve_Early(x) ==
  /\ writer[x].pc \in {"logged", "applied"} /\ resolved < writer[x].ts
  /\ writer' = [writer EXCEPT ![x].pc = IF @ = "logged" THEN @ ELSE "resolved",
                              ![x].event = sub.on]
  /\ AdvanceResolved(writer[x].ts)
  /\ UNCHANGED <<sync_mode, commit_seq, logged, synced, applied, memtable_bytes, gauge,
                 flusher, flushes>>

\* has_subscribers decides between publish and publish_empty; both advance the
\* watermark first.
Resolve(x) ==
  /\ writer[x].pc = "applied"
  /\ writer' = [writer EXCEPT ![x].pc = "resolved", ![x].event = sub.on]
  /\ AdvanceResolved(writer[x].ts)
  /\ UNCHANGED <<sync_mode, commit_seq, logged, synced, applied, memtable_bytes, gauge,
                 flusher, flushes>>

Send(x) ==
  /\ writer[x].pc = "resolved" /\ writer[x].event
  /\ At(x, "sent")
  /\ SendEvent(writer[x].ts)
  /\ UNCHANGED <<sync_mode, commit_seq, logged, synced, applied, memtable_bytes, gauge,
                 flusher, flushes>>

Notify(x) ==
  /\ writer[x].pc = "sent" \/ (writer[x].pc = "resolved" /\ ~writer[x].event)
  /\ At(x, "notified")
  /\ NotifyWaiters
  /\ UNCHANGED <<sync_mode, commit_seq, logged, synced, applied, memtable_bytes, gauge,
                 flusher, flushes>>

\* set_memtable_bytes, and the call returns.
SetGauge(x) ==
  /\ writer[x].pc = "notified"
  /\ gauge' = memtable_bytes
  /\ writer' = [writer EXCEPT ![x] = Resting]
  /\ UNCHANGED <<watchvars, sync_mode, commit_seq, logged, synced, applied,
                 memtable_bytes, flusher, flushes>>

-----------------------------------------------------------------------------
(* Flush, the group-sync thread, and the watcher's clients. *)

\* drain and clear under the write guard; the gauge is left as it is.
FlushDrain ==
  /\ flusher = "idle" /\ flushes < MaxFlushes /\ memtable_bytes > 0 /\ WriteGuardFree
  /\ flusher' = "drained" /\ flushes' = flushes + 1
  /\ memtable_bytes' = 0
  /\ UNCHANGED <<watchvars, sync_mode, commit_seq, logged, synced, applied, gauge, writer>>

\* The clear at the end of flush_sst_locked, without the write guard.
FlushClear ==
  /\ flusher = "drained"
  /\ flusher' = "idle"
  /\ memtable_bytes' = 0
  /\ UNCHANGED <<watchvars, sync_mode, commit_seq, logged, synced, applied, gauge, writer,
                 flushes>>

GroupSync ==
  /\ sync_mode = "group" /\ synced < logged
  /\ synced' = logged
  /\ UNCHANGED <<watchvars, sync_mode, commit_seq, logged, applied, memtable_bytes, gauge,
                 writer, flusher, flushes>>

WatcherClient ==
  /\ \/ \E w \in Waiter : CheckResolved(w) \/ Park(w)
     \/ \E w \in Waiter, ts \in WaitFor : CallWait(w, ts)
     \/ Subscribe(commit_seq)
     \/ Receive
  /\ UNCHANGED feedvars

Next ==
  \/ \E x \in Writer : \/ Admit(x) \/ Log(x) \/ Apply(x) \/ Resolve(x)
                       \/ Send(x) \/ Notify(x) \/ SetGauge(x)
  \/ FlushDrain \/ FlushClear \/ GroupSync
  \/ WatcherClient

Spec == Init /\ [][Next]_vars

\* A commit that has the guard runs to its end, and so does a waiter that is not
\* parked: both are ordinary code between two blocking calls.
FairSpec ==
  /\ Spec
  /\ \A x \in Writer : WF_vars(Apply(x) \/ Resolve(x) \/ Send(x) \/ Notify(x) \/ SetGauge(x))
  /\ \A w \in Waiter : WF_vars((CheckResolved(w) \/ Park(w)) /\ UNCHANGED feedvars)

-----------------------------------------------------------------------------
(* Properties. *)

\* Timestamps, sizes and positions are where they can be: the log runs ahead of
\* the memtable and the disk, by one commit at most for the memtable, and at
\* most one writer is past the guard.
FeedTypeOK ==
  /\ commit_seq \in 1..(MaxCommits + 1) /\ logged = commit_seq - 1
  /\ synced \in 0..logged /\ applied \in {logged, logged - 1}
  /\ memtable_bytes \in 0..MaxCommits /\ gauge \in 0..MaxCommits
  /\ Cardinality({x \in Writer : writer[x].pc \notin {"idle", "admitted"}}) <= 1
  /\ Len(sub.queue) <= EventMax

\* What wait_for_resolved returns and resolved_ts shows covers only commits that
\* are applied and, in full sync mode, on the disk.
ResolvedIsApplied ==
  /\ resolved <= applied
  /\ sync_mode = "full" => resolved <= synced

\* The memtable outgrows the hard limit by the writers that were admitted before
\* it was reached, and by no more.
MemtableBounded == memtable_bytes < HardBytes + Cardinality(Writer)

\* All that the subscriber has been or will be given, in order.
Stream == sub.got \o (IF sub.lagged THEN <<Lagged>> ELSE << >>) \o sub.queue

\* A subscriber gets every commit from its subscription on, in order and once,
\* or is told where the channel overwrote some; never a gap without a marker.
NoSilentGap ==
  /\ \A i \in 1..(Len(Stream) - 1) :
       Stream[i] # Lagged /\ Stream[i + 1] # Lagged => Stream[i + 1] = Stream[i] + 1
  /\ sub.on /\ WriteGuardFree /\ commit_seq > sub.since =>
       /\ Stream # << >> /\ Stream[Len(Stream)] = commit_seq - 1
       /\ Stream[1] <= sub.since

\* A waiter that is parked before its commit is published returns.
ParkedWaiterReturns ==
  \A w \in Waiter :
    (waiter[w].pc = "parked"
       /\ \E x \in Writer : writer[x].pc \in {"logged", "applied"} /\ writer[x].ts >= waiter[w].ts)
      ~> (waiter[w].pc = "done")

-----------------------------------------------------------------------------
(* What the documentation says of the program, and the program does not do. *)

\* watch.rs, wait_for_resolved: "Passing a `ts` in the future blocks until that
\* commit is durable and applied"; the watermark is checked before the waiter
\* is listening.
WaitReturns ==
  \A w \in Waiter :
    (waiter[w].pc # "idle" /\ resolved >= waiter[w].ts) ~> (waiter[w].pc = "done")

\* lib.rs, Throttled: "The caller should retry after a flush"; the gauge is only
\* set by commits.
ThrottleFollowsFlush == ShouldThrottle => memtable_bytes > 0 \/ flushes = 0

\* watch.rs: publish "advances only after a commit is fully durable **and**
\* applied"; in group mode it is not.
ResolvedIsDurable == resolved <= synced
=============================================================================
