--------------------------- MODULE WorkersProofs ---------------------------
(***************************************************************************)
(* What Engine::shutdown guarantees, for any number of callers, any tree   *)
(* and any bounds.                                                         *)
(***************************************************************************)
EXTENDS Workers, TLAPS

CallerStates ==
  {"idle", "take", "join", "flag", "take sync", "join sync", "done"}

\* The records and numbers the argument looks into.
ShutdownTypeOK ==
  /\ worker = [pc |-> worker.pc, panics |-> worker.panics, job |-> worker.job]
  /\ caller \in [Caller -> CallerStates]
  /\ compaction_shutdown \in BOOLEAN /\ wal_sync_shutdown \in BOOLEAN
  /\ handles \in BOOLEAN
  /\ appended \in Nat /\ synced \in Nat /\ due \in Nat

\* The worker's handle is gone, or a caller is past its join, only when the
\* thread is; and whoever calls has raised the flag.
WorkerJoined ==
  /\ compaction_worker = "none" => worker.pc = "gone"
  /\ \A c \in Caller :
       /\ caller[c] # "idle" => compaction_shutdown
       /\ caller[c] \in {"flag", "take sync", "join sync", "done"} => worker.pc = "gone"

\* The same for the group-sync thread, as long as a client holds the engine:
\* Drop for Engine on the last handle takes the join handle without a caller.
SyncerJoined ==
  /\ handles /\ wal_sync_worker = "none" => syncer = "gone"
  /\ ~handles => \A c \in Caller : caller[c] \in {"idle", "done"}
  /\ \A c \in Caller : caller[c] = "done" => syncer = "gone"

\* The thread's last sync comes after the flag, which comes after the first
\* call, and `due` is fixed from then on.
LastSyncCovers ==
  /\ due <= appended
  /\ wal_sync_shutdown => compaction_shutdown
  /\ syncer \in {"final", "gone"} => wal_sync_shutdown
  /\ syncer = "gone" => due <= synced

ShutdownInv == ShutdownTypeOK /\ WorkerJoined /\ SyncerJoined /\ LastSyncCovers

\* What the invariant says of the log, apart from the rest.
LEMMA LogNumbers ==
  ASSUME ShutdownInv
  PROVE  appended \in Nat /\ due \in Nat /\ due <= appended
  BY DEF ShutdownInv, ShutdownTypeOK, LastSyncCovers

\* Before anything has run, nothing was promised.
LEMMA ShutdownInit == Init => ShutdownInv
<1> SUFFICES ASSUME Init PROVE ShutdownInv
  OBVIOUS
<1> USE DEF Init
<1>1. ShutdownTypeOK
  BY DEF ShutdownTypeOK, CallerStates
<1>2. WorkerJoined
  BY DEF WorkerJoined
<1>3. SyncerJoined
  BY DEF SyncerJoined
<1>4. LastSyncCovers
  BY DEF LastSyncCovers
<1> QED
  BY <1>1, <1>2, <1>3, <1>4 DEF ShutdownInv

\* Clients and the worker do not bring a thread back, and a commit only adds to
\* the log.
LEMMA ClientStep ==
  ASSUME ShutdownInv, Commit \/ DropHandle \/ (\E range \in KeyRange : Flush(range))
  PROVE  ShutdownInv'
<1>0. Commit => appended' \in Nat /\ due' <= appended'
  BY LogNumbers DEF Commit, stopping
<1> USE DEF ShutdownInv, ShutdownTypeOK, WorkerJoined, SyncerJoined, LastSyncCovers,
        CallerStates
<1>1. CASE Commit
  <2>1. UNCHANGED <<worker, syncer, compaction_shutdown, wal_sync_shutdown,
                    compaction_worker, wal_sync_worker, caller, handles, due, synced>>
    BY <1>1 DEF Commit, threads, stopping
  <2> QED
    BY <1>0, <1>1, <2>1
<1>2. CASE DropHandle
  <2>1. ShutdownTypeOK'
    BY <1>2 DEF DropHandle, threads, log
  <2>2. WorkerJoined'
    BY <1>2 DEF DropHandle, threads, log
  <2>3. SyncerJoined'
    BY <1>2 DEF DropHandle, threads, log
  <2>4. LastSyncCovers'
    BY <1>2 DEF DropHandle, threads, log
  <2> QED
    BY <2>1, <2>2, <2>3, <2>4
<1>3. CASE \E range \in KeyRange : Flush(range)
  <2>1. UNCHANGED <<worker, syncer, compaction_shutdown, wal_sync_shutdown,
                    compaction_worker, wal_sync_worker, caller, handles, due, appended,
                    synced>>
    BY <1>3 DEF Flush, threads, stopping, log
  <2> QED
    BY <2>1
<1> QED
  BY <1>1, <1>2, <1>3

\* The worker ends once, and its handle goes with it.
LEMMA WorkerStep ==
  ASSUME ShutdownInv, Worker
  PROVE  ShutdownInv'
<1> USE DEF ShutdownInv, ShutdownTypeOK, WorkerJoined, SyncerJoined, LastSyncCovers,
        CallerStates, stopping, log
<1>1. CASE WorkerTop
  BY <1>1 DEF WorkerTop
<1>2. CASE WorkerPick
  BY <1>2 DEF WorkerPick
<1>3. CASE WorkerRun
  BY <1>3 DEF WorkerRun
<1>4. CASE WorkerPanic
  BY <1>4 DEF WorkerPanic, AfterPanic
<1>5. CASE WorkerClean
  BY <1>5 DEF WorkerClean
<1>6. CASE WorkerLeave
  BY <1>6 DEF WorkerLeave
<1> QED
  BY <1>1, <1>2, <1>3, <1>4, <1>5, <1>6 DEF Worker

\* The last sync of the group-sync thread covers all that is in the log.
LEMMA SyncerStep ==
  ASSUME ShutdownInv, Syncer
  PROVE  ShutdownInv'
<1> USE DEF ShutdownInv, ShutdownTypeOK, WorkerJoined, SyncerJoined, LastSyncCovers,
        CallerStates, stopping, log
<1>1. CASE SyncerWake
  BY <1>1 DEF SyncerWake
<1>2. CASE SyncerSync
  BY <1>2 DEF SyncerSync
<1>3. CASE SyncerFinal
  BY <1>3 DEF SyncerFinal
<1> QED
  BY <1>1, <1>2, <1>3 DEF Syncer

\* A caller passes a join when it has seen the thread end, or when nobody can
\* join it any more.
LEMMA ShutdownStep ==
  ASSUME ShutdownInv, NEW c \in Caller, CallShutdown(c) \/ Shutdown(c)
  PROVE  ShutdownInv'
<1>0. CallShutdown(c) => due' <= appended'
  BY LogNumbers DEF CallShutdown, log
<1> USE CallerAssumption
    DEF ShutdownInv, ShutdownTypeOK, WorkerJoined, SyncerJoined, LastSyncCovers,
        CallerStates, Move, threads, log
<1>1. CASE CallShutdown(c)
  <2>1. ShutdownTypeOK'
    BY <1>1 DEF CallShutdown
  <2>2. WorkerJoined'
    BY <1>1 DEF CallShutdown
  <2>3. SyncerJoined'
    BY <1>1 DEF CallShutdown
  <2>4. LastSyncCovers'
    BY <1>0, <1>1 DEF CallShutdown
  <2> QED
    BY <2>1, <2>2, <2>3, <2>4
<1>2. CASE TakeWorker(c)
  BY <1>2 DEF TakeWorker
<1>3. CASE JoinWorker(c)
  BY <1>3 DEF JoinWorker
<1>4. CASE FlagSyncer(c)
  BY <1>4 DEF FlagSyncer
<1>5. CASE TakeSyncer(c)
  BY <1>5 DEF TakeSyncer
<1>6. CASE JoinSyncer(c)
  BY <1>6 DEF JoinSyncer
<1> QED
  BY <1>1, <1>2, <1>3, <1>4, <1>5, <1>6 DEF Shutdown

\* When shutdown has returned to any of its callers, however many there are and
\* however they overlap, the compaction worker and the group-sync thread are gone
\* and every commit appended before the first call is on the disk.
THEOREM ShutdownAlwaysSyncs == Spec => []ShutdownSyncs
<1>1. Init => ShutdownInv
  BY ShutdownInit
<1>2. ShutdownInv /\ [Next]_vars => ShutdownInv'
  <2> SUFFICES ASSUME ShutdownInv, [Next]_vars PROVE ShutdownInv'
    OBVIOUS
  <2>1. CASE Next
    BY <2>1, ClientStep, WorkerStep, SyncerStep, ShutdownStep DEF Next
  <2>2. CASE UNCHANGED vars
    BY <2>2 DEF vars, threads, stopping, log, ShutdownInv, ShutdownTypeOK,
       WorkerJoined, SyncerJoined, LastSyncCovers
  <2> QED
    BY <2>1, <2>2
<1>3. ShutdownInv => ShutdownSyncs
  BY DEF ShutdownInv, ShutdownSyncs, WorkerJoined, SyncerJoined, LastSyncCovers
<1> QED
  BY <1>1, <1>2, <1>3, PTL DEF Spec
=============================================================================
