------------------------------- MODULE Workers -------------------------------
(***************************************************************************)
(* The engine's background threads and how they are stopped:               *)
(* compaction_worker_loop, run_compaction_iteration, wal_sync_worker_loop, *)
(* Engine::shutdown and Drop for Engine of crates/hatp-engine/src/lib.rs,  *)
(* in a database opened in group sync mode.                                *)
(*                                                                         *)
(* The worker's version collection is in Mvcc, the merge itself in LsmTree *)
(* and ManifestLog: here a compaction turns the files it takes into as     *)
(* many as it has chunks.  Files are the metadata the picker sees.  I/O    *)
(* errors, which leave a job undone, are not among the faults here; panics *)
(* are.                                                                    *)
(***************************************************************************)
EXTENDS Picker
LOCAL INSTANCE FiniteSetsExt

CONSTANTS
  Caller,      \* threads that call Engine::shutdown
  KeyRange,    \* the key ranges <<min, max>> of flushed files
  SubBytes,    \* 64 MB: over it a job is split, and the size of its chunks
  PanicMax,    \* MAX_PANICS_BEFORE_QUIT
  MaxFlushes, MaxCommits

ASSUME WorkersAssumption ==
  /\ SubBytes \in Nat /\ PanicMax \in Nat /\ MaxFlushes \in Nat /\ MaxCommits \in Nat
  /\ KeyRange \subseteq Nat \X Nat
ASSUME CallerAssumption == Caller \cap {"some", "none"} = {}

VARIABLES
  files,                \* the files of the version set
  next_file,
  worker,               \* [pc, panics, job]
  syncer,               \* where the group-sync thread is
  compaction_shutdown, wal_sync_shutdown,
  compaction_worker,    \* the join handle: "some", a caller that took it and joins, or "none"
  wal_sync_worker,      \* the same for the group-sync thread
  caller,               \* caller -> where its shutdown call is
  handles,              \* whether a client still has its Arc<Engine>
  appended, synced,     \* commits in the log, and those known to be on the disk
  (* History variable; no action reads it. *)
  due                   \* the commits appended when shutdown was first called

threads == <<worker, syncer>>
stopping == <<compaction_shutdown, wal_sync_shutdown, compaction_worker, wal_sync_worker,
              caller, handles, due>>
log == <<appended, synced>>
vars == <<files, next_file, threads, stopping, log>>

Init ==
  /\ files = {} /\ next_file = 0
  /\ worker = [pc |-> "top", panics |-> 0, job |-> NothingToDo]
  /\ syncer = "sleep"
  /\ compaction_shutdown = FALSE /\ wal_sync_shutdown = FALSE
  /\ compaction_worker = "some" /\ wal_sync_worker = "some"
  /\ caller = [c \in Caller |-> "idle"]
  /\ handles = TRUE
  /\ appended = 0 /\ synced = 0
  /\ due = 0

-----------------------------------------------------------------------------
(* Clients. *)

\* commit_single in group mode: appended, acknowledged, not synced.
Commit ==
  /\ handles /\ appended < MaxCommits
  /\ appended' = appended + 1
  /\ UNCHANGED <<files, next_file, threads, stopping, synced>>

Flush(range) ==
  /\ handles /\ next_file < MaxFlushes
  /\ files' = files \cup {[id |-> next_file, level |-> 0, min |-> range[1], max |-> range[2],
                           bytes |-> 1, created |-> next_file]}
  /\ next_file' = next_file + 1
  /\ UNCHANGED <<threads, stopping, log>>

-----------------------------------------------------------------------------
(* The compaction worker. *)

\* Fault: the loop does not look at the flag.
WorkerTop_Deaf ==
  /\ worker.pc = "top"
  /\ worker' = [worker EXCEPT !.pc = "pick"]
  /\ UNCHANGED <<files, next_file, syncer, stopping, log>>

\* The top of the loop: leave, or start an iteration.
WorkerTop ==
  /\ worker.pc = "top"
  /\ worker' = [worker EXCEPT !.pc = IF compaction_shutdown THEN "leave" ELSE "pick"]
  /\ UNCHANGED <<files, next_file, syncer, stopping, log>>

\* run_compaction_iteration, first half: choose a job under the manifest lock.
WorkerPick ==
  /\ worker.pc = "pick"
  /\ \E job \in {Pick(files)} :
       worker' = [worker EXCEPT !.job = job,
                                !.pc = IF job = NothingToDo THEN "clean" ELSE "run"]
  /\ UNCHANGED <<files, next_file, syncer, stopping, log>>

\* The files a job of two levels takes: all of them, whatever inputs the picker
\* listed.
Taken(job) == OnLevel(files, job.source) \cup OnLevel(files, job.target)

\* What the chunks become, in the order of their first inputs.
Outputs(chunks, job) ==
  LET start(c) == Min({f.id : f \in c})
      id(c) == next_file + Cardinality({d \in chunks : start(d) < start(c)})
  IN  {[id |-> id(c), level |-> job.target,
        min |-> Min({f.min : f \in c}), max |-> Max({f.max : f \in c}),
        bytes |-> Bytes(c), created |-> id(c)] : c \in chunks}

\* Second half: one chunk for a small job, chunks by size for a large one.
Chunks(job) ==
  IF job.bytes > SubBytes THEN SplitBySize(Taken(job), SubBytes) ELSE {Taken(job)}

WorkerRun ==
  /\ worker.pc = "run"
  /\ worker' = [worker EXCEPT !.pc = "clean"]
  /\ IF Cardinality(Taken(worker.job)) < 2 THEN UNCHANGED <<files, next_file>>
     ELSE \E chunks \in {Chunks(worker.job)} :
            /\ files' = (files \ Taken(worker.job)) \cup Outputs(chunks, worker.job)
            /\ next_file' = next_file + Cardinality(chunks)
  /\ UNCHANGED <<syncer, stopping, log>>

\* Fault: the thread retries for ever.
AfterPanic_Forever ==
  [worker EXCEPT !.panics = @ + 1, !.job = NothingToDo, !.pc = "top"]

\* Too many panics in a row end the thread; a few put it to sleep.
AfterPanic ==
  [worker EXCEPT !.panics = @ + 1, !.job = NothingToDo,
                 !.pc = IF worker.panics + 1 > PanicMax THEN "leave" ELSE "top"]

\* The iteration panics, before anything of it has taken effect.
WorkerPanic ==
  /\ worker.pc \in {"pick", "run"}
  /\ worker' = AfterPanic
  /\ UNCHANGED <<files, next_file, syncer, stopping, log>>

\* A clean iteration resets the count; then the thread sleeps.
WorkerClean ==
  /\ worker.pc = "clean"
  /\ worker' = [pc |-> "top", panics |-> 0, job |-> NothingToDo]
  /\ UNCHANGED <<files, next_file, syncer, stopping, log>>

\* The thread ends and lets go of its Arc<Engine>.  When that is the last one,
\* Drop runs shutdown here, which joins this very thread; the join panics, and
\* the rest of shutdown does not happen.
WorkerLeave ==
  /\ worker.pc = "leave"
  /\ worker' = [worker EXCEPT !.pc = "gone"]
  /\ compaction_shutdown' = (compaction_shutdown \/ ~handles)
  /\ compaction_worker' = IF handles THEN compaction_worker ELSE "none"
  /\ UNCHANGED <<files, next_file, syncer, wal_sync_shutdown, wal_sync_worker, caller,
                 handles, due, log>>

-----------------------------------------------------------------------------
(* The group-sync thread. *)

SyncerWake ==
  /\ syncer = "sleep"
  /\ syncer' = IF wal_sync_shutdown THEN "final" ELSE "sync"
  /\ UNCHANGED <<files, next_file, worker, stopping, log>>

SyncerSync ==
  /\ syncer = "sync"
  /\ syncer' = IF wal_sync_shutdown THEN "final" ELSE "sleep"
  /\ synced' = appended
  /\ UNCHANGED <<files, next_file, worker, stopping, appended>>

\* Fault: the loop is left without the sync after it.
SyncerFinal_None ==
  /\ syncer = "final"
  /\ syncer' = "gone"
  /\ UNCHANGED <<files, next_file, worker, stopping, log>>

SyncerFinal ==
  /\ syncer = "final"
  /\ syncer' = "gone"
  /\ synced' = appended
  /\ UNCHANGED <<files, next_file, worker, stopping, appended>>

-----------------------------------------------------------------------------
(* shutdown.  The lock on a join handle is held while the thread is joined, *)
(* so a second caller waits there.                                         *)

Move(c, pc) == caller' = [caller EXCEPT ![c] = pc]

CallShutdown(c) ==
  /\ handles /\ caller[c] = "idle"
  /\ compaction_shutdown' = TRUE
  /\ Move(c, "take")
  /\ due' = IF compaction_shutdown THEN due ELSE appended
  /\ UNCHANGED <<files, next_file, threads, wal_sync_shutdown, compaction_worker,
                 wal_sync_worker, handles, log>>

TakeWorker(c) ==
  /\ caller[c] = "take" /\ compaction_worker \in {"some", "none"}
  /\ Move(c, IF compaction_worker = "some" THEN "join" ELSE "flag")
  /\ compaction_worker' = IF compaction_worker = "some" THEN c ELSE "none"
  /\ UNCHANGED <<files, next_file, threads, compaction_shutdown, wal_sync_shutdown,
                 wal_sync_worker, handles, due, log>>

JoinWorker(c) ==
  /\ caller[c] = "join" /\ worker.pc = "gone"
  /\ Move(c, "flag")
  /\ compaction_worker' = "none"
  /\ UNCHANGED <<files, next_file, threads, compaction_shutdown, wal_sync_shutdown,
                 wal_sync_worker, handles, due, log>>

FlagSyncer(c) ==
  /\ caller[c] = "flag"
  /\ wal_sync_shutdown' = TRUE
  /\ Move(c, "take sync")
  /\ UNCHANGED <<files, next_file, threads, compaction_shutdown, compaction_worker,
                 wal_sync_worker, handles, due, log>>

TakeSyncer(c) ==
  /\ caller[c] = "take sync" /\ wal_sync_worker \in {"some", "none"}
  /\ Move(c, IF wal_sync_worker = "some" THEN "join sync" ELSE "done")
  /\ wal_sync_worker' = IF wal_sync_worker = "some" THEN c ELSE "none"
  /\ UNCHANGED <<files, next_file, threads, compaction_shutdown, wal_sync_shutdown,
                 compaction_worker, handles, due, log>>

JoinSyncer(c) ==
  /\ caller[c] = "join sync" /\ syncer = "gone"
  /\ Move(c, "done")
  /\ wal_sync_worker' = "none"
  /\ UNCHANGED <<files, next_file, threads, compaction_shutdown, wal_sync_shutdown,
                 compaction_worker, handles, due, log>>

\* The last client lets go of the engine.  Drop for Engine runs here only when
\* the worker has already let go of its own Arc.
DropHandle ==
  /\ handles /\ \A c \in Caller : caller[c] \in {"idle", "done"}
  /\ handles' = FALSE
  /\ IF worker.pc = "gone"
     THEN /\ compaction_shutdown' = TRUE /\ compaction_worker' = "none"
          /\ wal_sync_shutdown' = TRUE /\ wal_sync_worker' = "none"
     ELSE UNCHANGED <<compaction_shutdown, compaction_worker, wal_sync_shutdown,
                      wal_sync_worker>>
  /\ UNCHANGED <<files, next_file, threads, caller, due, log>>

Worker == WorkerTop \/ WorkerPick \/ WorkerRun \/ WorkerPanic \/ WorkerClean \/ WorkerLeave
Syncer == SyncerWake \/ SyncerSync \/ SyncerFinal
Shutdown(c) ==
  TakeWorker(c) \/ JoinWorker(c) \/ FlagSyncer(c) \/ TakeSyncer(c) \/ JoinSyncer(c)

Next ==
  \/ Commit \/ DropHandle
  \/ \E range \in KeyRange : Flush(range)
  \/ Worker \/ Syncer
  \/ \E c \in Caller : CallShutdown(c) \/ Shutdown(c)

Spec == Init /\ [][Next]_vars

\* Threads run: sleeps end, and a call that can go on does.
FairSpec ==
  Spec /\ WF_vars(Worker) /\ WF_vars(Syncer) /\ \A c \in Caller : WF_vars(Shutdown(c))

-----------------------------------------------------------------------------
(* Properties. *)

\* The worker is inside its limits, at most one caller joins each thread, and
\* the job it runs names files that compaction will take, two or more of them
\* unless it was made for one file that overlaps nothing.
WorkersTypeOK ==
  /\ worker.panics \in 0..(PanicMax + 1) /\ synced \in 0..appended
  /\ compaction_worker \in {"some", "none"} \cup Caller
  /\ wal_sync_worker \in {"some", "none"} \cup Caller
  /\ worker.pc = "run" =>
       /\ worker.job.inputs \subseteq {f.id : f \in Taken(worker.job)}
       /\ Cardinality(Taken(worker.job)) >= 2
  /\ \A f, g \in files : f.id = g.id => f = g

\* When shutdown has returned to any caller, both threads are gone and every
\* commit appended before the first call is on the disk.
ShutdownSyncs ==
  \A c \in Caller : caller[c] = "done" =>
    worker.pc = "gone" /\ syncer = "gone" /\ due <= synced

\* shutdown returns to every caller, however the calls overlap each other, the
\* worker's iterations and its panics.
ShutdownReturns == \A c \in Caller : (caller[c] = "take") ~> (caller[c] = "done")

WithinLimits ==
  /\ Cardinality(OnLevel(files, 0)) < L0Trigger
  /\ \A l \in 1..(MaxLevel - 1) : Cardinality(OnLevel(files, l)) <= LevelCapacity(l)

\* A tree over its limits (a read would look at too many files) comes back within
\* them: the worker compacts until it does, splitting large jobs into several
\* files or not, unless it is told to stop or gives up after panics.
CompactionSettles ==
  ~WithinLimits ~> (WithinLimits \/ compaction_shutdown \/ worker.pc = "gone")

-----------------------------------------------------------------------------
(* What the documentation says of the program, and the program does not do. *)

\* lib.rs, Drop for Engine: "Stops the background compaction worker when the last
\* `Arc<Engine>` is dropped. Without this, dropping a `Database` would orphan the
\* worker thread"; the worker's own Arc keeps the engine from being dropped.
DropStopsWorker == (~handles) ~> (worker.pc = "gone")
=============================================================================
