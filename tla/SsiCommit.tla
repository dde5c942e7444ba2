------------------------------ MODULE SsiCommit ------------------------------
(***************************************************************************)
(* The commit path of the embedded database: client transactions           *)
(* (crates/hatp/src/embedded.rs) driving the storage engine's write path   *)
(* (crates/hatp-engine/src/lib.rs) and, through TxManagerHook              *)
(* (crates/hatp-tx/src/hook.rs), the transaction manager of TxManager.     *)
(*                                                                         *)
(* Each transaction is used by one thread, except that a failed try_commit *)
(* leaves two Transaction values with one id (the original and the retry   *)
(* clone) and any value not inside try_commit may be dropped by another    *)
(* thread at any time.  pc[t] is where the thread of t is; the engine's    *)
(* write_guard serializes everything from "precommit" to "promote".        *)
(***************************************************************************)
EXTENDS TxManager

CONSTANTS Kinds,        \* the kinds of transactions clients begin
          MaxOps,       \* bound: reads and buffered writes per transaction
          MaxAttempts,  \* bound: try_commit calls per transaction
          MaxCalls,     \* bound: both together
          NoTxn         \* "write_guard is free"

ASSUME KindsAssumption == Kinds \subseteq {"ssi", "plain"}
ASSUME MaxOpsAssumption == MaxOps \in Nat
ASSUME MaxAttemptsAssumption == MaxAttempts \in Nat
ASSUME MaxCallsAssumption == MaxCalls \in Nat
ASSUME NoTxnAssumption == NoTxn \notin Txn

VARIABLES
  commit_seq,   \* next commit timestamp
  write_guard,  \* holder of the engine's commit mutex
  memtable,     \* key -> commit timestamps of its applied versions
  pc,           \* txn -> where its thread is
  is_ssi,       \* txn -> begun by begin_ssi with a manager installed
  snapshot_ts,  \* txn -> snapshot of its Transaction values
  mutations,    \* txn -> keys of its buffered writes
  handles,      \* txn -> Transaction values alive
  ops,          \* txn -> reads and writes made (only for the bound)
  attempts,     \* txn -> try_commit calls made
  todo,         \* txn -> keys its scan or its memtable apply has not reached
  commit_ts,    \* txn -> commit timestamp of the commit in progress
  (* History variables; no action reads them. *)
  observed,     \* txn -> <<key, version>> pairs its reads returned
  commits       \* what took effect: one record per assigned timestamp

evars == <<commit_seq, write_guard, memtable, pc, is_ssi, snapshot_ts,
           mutations, handles, ops, attempts, todo, commit_ts, observed,
           commits>>

vars == <<mvars, evars>>

-----------------------------------------------------------------------------
(* Data *)

InGuard == {"precommit", "probe", "validate", "wal", "seq", "apply", "hook",
            "promote"}

Commit == [txn : Txn, ts : Ts, start : Ts, writes : SUBSET Key, ssi : BOOLEAN]

\* VersionChain::get: v is the newest version at or below the snapshot, 0 when
\* there is none.
VisibleAt(k, s, v) ==
  /\ v <= s
  /\ \A w \in memtable[k] : w <= s => w <= v

Goto(t, l) == pc' = [pc EXCEPT ![t] = l]

Init ==
  /\ MInit
  /\ commit_seq = 1
  /\ write_guard = NoTxn
  /\ memtable = [k \in Key |-> {}]
  /\ pc = [t \in Txn |-> "idle"]
  /\ is_ssi = [t \in Txn |-> FALSE]
  /\ snapshot_ts = [t \in Txn |-> 0]
  /\ mutations = [t \in Txn |-> {}]
  /\ handles = [t \in Txn |-> 0]
  /\ ops = [t \in Txn |-> 0]
  /\ attempts = [t \in Txn |-> 0]
  /\ todo = [t \in Txn |-> {}]
  /\ commit_ts = [t \in Txn |-> 0]
  /\ observed = [t \in Txn |-> {}]
  /\ commits = {}

-----------------------------------------------------------------------------
(* begin and begin_ssi *)

TakeSnapshot(t) == snapshot_ts' = [snapshot_ts EXCEPT ![t] = commit_seq - 1]

\* begin: one atomic begin_read, no id is reserved.
Begin(t) ==
  /\ pc[t] = "idle"
  /\ "plain" \in Kinds
  /\ TakeSnapshot(t)
  /\ handles' = [handles EXCEPT ![t] = 1]
  /\ Goto(t, "open")
  /\ UNCHANGED <<mvars, commit_seq, write_guard, memtable, is_ssi, mutations,
                 ops, attempts, todo, commit_ts, observed, commits>>

\* begin_ssi: begin_read, then reserve_tx_id (ids are unique: t itself) ...
BeginSsi(t) ==
  /\ pc[t] = "idle"
  /\ "ssi" \in Kinds
  /\ TakeSnapshot(t)
  /\ is_ssi' = [is_ssi EXCEPT ![t] = TRUE]
  /\ Goto(t, "begin")
  /\ UNCHANGED <<mvars, commit_seq, write_guard, memtable, mutations,
                 handles, ops, attempts, todo, commit_ts, observed, commits>>

\* ... then begin_ssi_with_id, which registers the id ...
BeginSsiHandle(t) ==
  /\ pc[t] = "begin"
  /\ BeginWithId(t)
  /\ Goto(t, "register")
  /\ UNCHANGED <<commit_seq, write_guard, memtable, is_ssi, snapshot_ts,
                 mutations, handles, ops, attempts, todo, commit_ts,
                 observed, commits>>

\* ... and then its context, with the snapshot taken two steps ago.
BeginSsiContext(t) ==
  /\ pc[t] = "register"
  /\ InsertContext(t, snapshot_ts[t])
  /\ handles' = [handles EXCEPT ![t] = 1]
  /\ Goto(t, "open")
  /\ UNCHANGED <<commit_seq, write_guard, memtable, is_ssi, snapshot_ts,
                 mutations, ops, attempts, todo, commit_ts, observed,
                 commits>>

-----------------------------------------------------------------------------
(* Reads and buffered writes *)

Usable(t) == pc[t] = "open" /\ handles[t] > 0

\* Bound: how many reads and writes a transaction makes.
CanCall(t) == ops[t] + attempts[t] < MaxCalls

CountOp(t) ==
  ops[t] < MaxOps /\ CanCall(t) /\ ops' = [ops EXCEPT ![t] = @ + 1]

\* Bookkeeping is skipped for plain transactions, and with_ssi_txn's
\* UnknownTxn is discarded.
Tracked(t) == is_ssi[t] /\ Registered(t)

\* Transaction::get of a key without a buffered write: track, then read.
Get(t, k) ==
  /\ Usable(t)
  /\ CountOp(t)
  /\ k \notin mutations[t]
  /\ IF Tracked(t) THEN RecordRead(t, k) ELSE UNCHANGED mvars
  /\ todo' = [todo EXCEPT ![t] = {k}]
  /\ Goto(t, "reading")
  /\ UNCHANGED <<commit_seq, write_guard, memtable, is_ssi, snapshot_ts,
                 mutations, handles, attempts, commit_ts, observed, commits>>

\* Transaction::scan_range: track the range, then read it.
Scan(t, r) ==
  /\ Usable(t)
  /\ CountOp(t)
  /\ IF Tracked(t) THEN AddReadConflictRange(t, r) ELSE UNCHANGED mvars
  /\ todo' = [todo EXCEPT ![t] = {k \in Key : InRange(k, r)}]
  /\ Goto(t, "reading")
  /\ UNCHANGED <<commit_seq, write_guard, memtable, is_ssi, snapshot_ts,
                 mutations, handles, attempts, commit_ts, observed, commits>>

\* The memtable is read key by key, in ascending order, without write_guard.
ReadNext(t) ==
  /\ pc[t] = "reading"
  /\ IF todo[t] = {}
     THEN Goto(t, "open") /\ UNCHANGED <<todo, observed>>
     ELSE \E k \in todo[t] :
            /\ \A j \in todo[t] : k <= j
            /\ \E v \in memtable[k] \cup {0} :
                 /\ VisibleAt(k, snapshot_ts[t], v)
                 /\ observed' = [observed EXCEPT ![t] = @ \cup {<<k, v>>}]
            /\ todo' = [todo EXCEPT ![t] = @ \ {k}]
            /\ Goto(t, IF todo[t] = {k} THEN "open" ELSE "reading")
  /\ UNCHANGED <<mvars, commit_seq, write_guard, memtable, is_ssi,
                 snapshot_ts, mutations, handles, ops, attempts, commit_ts,
                 commits>>

\* put and delete: both track the key and buffer a mutation of it.
Put(t, k) ==
  /\ Usable(t)
  /\ CountOp(t)
  /\ IF Tracked(t) THEN RecordWrite(t, k) ELSE UNCHANGED mvars
  /\ mutations' = [mutations EXCEPT ![t] = @ \cup {k}]
  /\ UNCHANGED <<commit_seq, write_guard, memtable, pc, is_ssi, snapshot_ts,
                 handles, attempts, todo, commit_ts, observed, commits>>

-----------------------------------------------------------------------------
(* try_commit, up to the write-ahead log *)

\* Every error of try_commit hands out a clone of the transaction.
CloneForRetry(t) == handles' = [handles EXCEPT ![t] = @ + 1]

\* Fault: the error path keeps the guard.
Fail_KeepsGuard(t) ==
  /\ CloneForRetry(t)
  /\ UNCHANGED write_guard
  /\ Goto(t, "open")

\* The call returns an error out of the critical section of write_guard.
Fail(t) ==
  /\ CloneForRetry(t)
  /\ write_guard' = NoTxn
  /\ Goto(t, "open")

CanAttempt(t) == Usable(t) /\ attempts[t] < MaxAttempts /\ CanCall(t)

\* ReadOnlyCommit (nothing buffered) or Throttled (backpressure refuses the
\* write): an error before any lock is taken.
TryCommitRefused(t) ==
  /\ CanAttempt(t)
  /\ attempts' = [attempts EXCEPT ![t] = @ + 1]
  /\ CloneForRetry(t)
  /\ UNCHANGED <<mvars, commit_seq, write_guard, memtable, pc, is_ssi,
                 snapshot_ts, mutations, ops, todo, commit_ts, observed,
                 commits>>

\* write_with_tx (or write) admits the batch; the thread waits for the guard.
TryCommit(t) ==
  /\ CanAttempt(t)
  /\ mutations[t] # {}
  /\ attempts' = [attempts EXCEPT ![t] = @ + 1]
  /\ Goto(t, "lock")
  /\ UNCHANGED <<mvars, commit_seq, write_guard, memtable, is_ssi,
                 snapshot_ts, mutations, handles, ops, todo, commit_ts,
                 observed, commits>>

\* write_with_tx_sync: pending_writes is always empty, so the fast path is
\* taken and commit_single runs under the guard.
LockGuard(t) ==
  /\ pc[t] = "lock"
  /\ write_guard = NoTxn
  /\ write_guard' = t
  /\ Goto(t, "precommit")
  /\ UNCHANGED <<mvars, commit_seq, memtable, is_ssi, snapshot_ts, mutations,
                 handles, ops, attempts, todo, commit_ts, observed, commits>>

\* on_pre_commit, first lock: an id already Aborted may not commit.
PreCommitState(t) ==
  /\ pc[t] = "precommit"
  /\ IF transactions[t] = "Aborted"
     THEN Fail(t)
     ELSE Goto(t, "probe") /\ UNCHANGED <<handles, write_guard>>
  /\ UNCHANGED <<mvars, commit_seq, memtable, is_ssi, snapshot_ts, mutations,
                 ops, attempts, todo, commit_ts, observed, commits>>

\* on_pre_commit, second lock: no context means no validation.
PreCommitProbe(t) ==
  /\ pc[t] = "probe"
  /\ Goto(t, IF Registered(t) THEN "validate" ELSE "wal")
  /\ UNCHANGED <<mvars, commit_seq, write_guard, memtable, is_ssi,
                 snapshot_ts, mutations, handles, ops, attempts, todo,
                 commit_ts, observed, commits>>

\* on_pre_commit, third lock: record_write_and_validate.  A context that
\* vanished since the probe is an error if the id is Aborted (InvalidState),
\* and otherwise lets the commit through (UnknownTxn).
PreCommitValidate(t) ==
  /\ pc[t] = "validate"
  /\ step[t] = "none"
  /\ IF Registered(t)
     THEN /\ RecordWriteAndValidate(t, mutations[t])
          /\ IF ValidateSsi(t, WithWrites(t, mutations[t]))
             THEN Goto(t, "wal") ELSE UNCHANGED pc
          /\ UNCHANGED <<handles, write_guard>>
     ELSE /\ UNCHANGED mvars
          /\ IF transactions[t] = "Aborted"
             THEN Fail(t)
             ELSE Goto(t, "wal") /\ UNCHANGED <<handles, write_guard>>
  /\ UNCHANGED <<commit_seq, memtable, is_ssi, snapshot_ts, mutations, ops,
                 attempts, todo, commit_ts, observed, commits>>

PreCommitMarkRejected(t) ==
  /\ pc[t] = "validate"
  /\ MarkRejected(t)
  /\ UNCHANGED evars

PreCommitDropRejected(t) ==
  /\ pc[t] = "validate"
  /\ DropRejected(t)
  /\ Fail(t)
  /\ UNCHANGED <<commit_seq, memtable, is_ssi, snapshot_ts, mutations, ops,
                 attempts, todo, commit_ts, observed, commits>>

\* The WAL append (with its fsync) succeeds or fails.
WalAppend(t) ==
  /\ pc[t] = "wal"
  /\ \/ Goto(t, "seq") /\ UNCHANGED <<handles, write_guard>>
     \/ Fail(t)
  /\ UNCHANGED <<mvars, commit_seq, memtable, is_ssi, snapshot_ts, mutations,
                 ops, attempts, todo, commit_ts, observed, commits>>

-----------------------------------------------------------------------------
(* try_commit, from the commit timestamp on *)

\* commit_seq.fetch_add: from here new snapshots include this commit.
AssignCommitTs(t) ==
  /\ pc[t] = "seq"
  /\ commit_seq \in Ts            \* bound: the timestamps of the instance
  /\ commit_ts' = [commit_ts EXCEPT ![t] = commit_seq]
  /\ commit_seq' = commit_seq + 1
  /\ todo' = [todo EXCEPT ![t] = mutations[t]]
  /\ commits' = commits \cup
       {[txn |-> t, ts |-> commit_seq, start |-> snapshot_ts[t],
         writes |-> mutations[t], ssi |-> is_ssi[t]]}
  /\ Goto(t, "apply")
  /\ UNCHANGED <<mvars, write_guard, memtable, is_ssi, snapshot_ts,
                 mutations, handles, ops, attempts, observed>>

\* apply_mutations_batch on the skip-list memtable: one key after the other,
\* in the order of the batch, visible to readers as it goes.
ApplyMutation(t) ==
  /\ pc[t] = "apply"
  /\ \E k \in todo[t] :
       /\ memtable' = [memtable EXCEPT ![k] = @ \cup {commit_ts[t]}]
       /\ todo' = [todo EXCEPT ![t] = @ \ {k}]
       /\ Goto(t, IF todo[t] = {k} THEN "hook" ELSE "apply")
  /\ UNCHANGED <<mvars, commit_seq, write_guard, is_ssi, snapshot_ts,
                 mutations, handles, ops, attempts, commit_ts, observed,
                 commits>>

\* on_tx_commit calls commit_at and discards its result: an id that is not
\* Active (or unknown) is not promoted.
OnTxCommit(t) ==
  /\ pc[t] = "hook"
  /\ IF transactions[t] = "Active"
     THEN /\ CommitAt(t, commit_ts[t])
          /\ Goto(t, "promote")
          /\ UNCHANGED write_guard
     ELSE /\ write_guard' = NoTxn
          /\ Goto(t, "open")
          /\ UNCHANGED mvars
  /\ UNCHANGED <<commit_seq, memtable, is_ssi, snapshot_ts, mutations,
                 handles, ops, attempts, todo, commit_ts, observed, commits>>

\* The rest of commit_at; try_commit returns the commit timestamp.
OnTxCommitPromote(t) ==
  /\ pc[t] = "promote"
  /\ Promote(t)
  /\ write_guard' = NoTxn
  /\ Goto(t, "open")
  /\ UNCHANGED <<commit_seq, memtable, is_ssi, snapshot_ts, mutations,
                 handles, ops, attempts, todo, commit_ts, observed, commits>>

-----------------------------------------------------------------------------
(* Drop for Transaction *)

\* A value inside a call is borrowed and cannot be dropped.
Borrowed(t) == IF pc[t] = "open" THEN 0 ELSE 1

\* drop calls abort for every value with a reserved id; the result (not
\* Active, unknown) is discarded.
DropHandle(t) ==
  /\ handles[t] > Borrowed(t)
  /\ handles' = [handles EXCEPT ![t] = @ - 1]
  /\ IF is_ssi[t] THEN Abort(t) ELSE UNCHANGED mvars
  /\ UNCHANGED <<commit_seq, write_guard, memtable, pc, is_ssi, snapshot_ts,
                 mutations, ops, attempts, todo, commit_ts, observed,
                 commits>>

DropHandleFinish(t) ==
  /\ FinishAbort(t)
  /\ UNCHANGED evars

-----------------------------------------------------------------------------
\* What the thread of t does once it is inside a call.
ThreadStep(t) ==
  \/ BeginSsiHandle(t)
  \/ BeginSsiContext(t)
  \/ ReadNext(t)
  \/ PreCommitState(t)
  \/ PreCommitProbe(t)
  \/ PreCommitValidate(t)
  \/ PreCommitMarkRejected(t)
  \/ PreCommitDropRejected(t)
  \/ WalAppend(t)
  \/ AssignCommitTs(t)
  \/ ApplyMutation(t)
  \/ OnTxCommit(t)
  \/ OnTxCommitPromote(t)

\* What a client may decide to do.
ClientStep(t) ==
  \/ Begin(t)
  \/ BeginSsi(t)
  \/ \E k \in Key : Get(t, k)
  \/ \E r \in ScanRange : Scan(t, r)
  \/ \E k \in Key : Put(t, k)
  \/ TryCommitRefused(t)
  \/ TryCommit(t)
  \/ DropHandle(t)

Next ==
  \E t \in Txn : \/ ClientStep(t)
                 \/ LockGuard(t)
                 \/ ThreadStep(t)
                 \/ DropHandleFinish(t)

Spec == Init /\ [][Next]_vars

\* A thread inside a call keeps running; write_guard is a parking_lot mutex,
\* which is eventually fair, so a waiting thread is not overtaken forever.
FairSpec ==
  /\ Spec
  /\ \A t \in Txn : /\ WF_vars(ThreadStep(t))
                    /\ SF_vars(LockGuard(t))
                    /\ WF_vars(DropHandleFinish(t))

-----------------------------------------------------------------------------
(* Properties *)

\* Types of the engine's and the clients' state.
ETypeOK ==
  /\ commit_seq \in Nat \ {0}
  /\ commit_seq - 1 \in Ts
  /\ write_guard \in Txn \cup {NoTxn}
  /\ memtable \in [Key -> SUBSET Ts]
  /\ pc \in [Txn -> {"idle", "begin", "register", "open", "reading", "lock"}
                      \cup InGuard]
  /\ is_ssi \in [Txn -> BOOLEAN]
  /\ snapshot_ts \in [Txn -> Ts]
  /\ mutations \in [Txn -> SUBSET Key]
  /\ handles \in [Txn -> Nat]
  /\ ops \in [Txn -> 0..MaxOps]
  /\ attempts \in [Txn -> 0..MaxAttempts]
  /\ todo \in [Txn -> SUBSET Key]
  /\ commit_ts \in [Txn -> Ts]
  /\ observed \in [Txn -> SUBSET (Key \X Ts)]
  /\ commits \in SUBSET Commit

\* The type invariant of the commit path: of the manager's tables
\* (transactions, ssi_contexts, commit_history), the engine's write path and
\* the clients' Transaction values.
TypeOK == MTypeOK /\ ETypeOK

\* A serializable transaction that reaches the commit history does not
\* conflict (write-write, read-write or phantom) with anything that was
\* promoted while it was registered: the validation under write_guard in
\* on_pre_commit is still valid when commit_at promotes the write set, several
\* lock acquisitions later.
FirstCommitterWins ==
  \A t \in Txn : promoted[t] # NoContext =>
    \A e \in peers[t] : ~CheckConflict(promoted[t], e)

\* The commit history is strictly ordered by commit_ts, which is what lets
\* CommitHistory::garbage_collect stop at the first entry above the watermark.
HistoryOrdered ==
  \A i, j \in 1..Len(commit_history) :
    i < j => commit_history[i].commit_ts < commit_history[j].commit_ts

\* Once the last Transaction value of an id is gone, so is its context (no
\* ghost conflicts, no watermark held back forever), whatever the interleaving
\* of drops, failed commits and aborts was.
ContextReleased ==
  \A t \in Txn : (pc[t] = "open" /\ handles[t] = 0) ~> [](~Registered(t))

\* Every try_commit returns: nobody waits for write_guard forever and no path
\* out of commit_single keeps it.
CommitReturns ==
  \A t \in Txn : (pc[t] \in InGuard \cup {"lock"}) ~> (pc[t] = "open")

(* What the documentation says of the program, and the program does not do. *)

\* Engine::snapshot_ts: "a read at this timestamp sees every committed version".
SnapshotSeesEveryCommit ==
  \A t \in Txn : \A o \in observed[t] : \A c \in commits :
    (o[1] \in c.writes /\ c.ts <= snapshot_ts[t]) => c.ts <= o[2]

\* Two different serializable transactions that overlap (by timestamps) and
\* write a common key do not both take effect (TX1 of the hatp-tx README).
NoLostUpdate ==
  \A a, b \in commits :
    (a.ssi /\ b.ssi /\ a.txn # b.txn /\ a.ts < b.ts /\ a.writes \cap b.writes # {})
      => a.ts <= b.start

\* TX4: "An already-aborted txn cannot be re-committed".
AbortedNeverTakesEffect ==
  [][\A c \in commits' \ commits : transactions[c.txn] # "Aborted"]_vars
=============================================================================
