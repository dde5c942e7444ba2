------------------------------ MODULE TxManager ------------------------------
(***************************************************************************)
(* The transaction manager of crates/hatp-tx/src/manager.rs.               *)
(*                                                                         *)
(* The manager holds two tables under two separate mutexes: `transactions` *)
(* (the state of every id) and `ssi_contexts` (start timestamp, read set,  *)
(* write set and scanned ranges of every live serializable transaction).   *)
(* The commit history is only touched while `ssi_contexts` is locked.      *)
(* Every action below is ONE critical section of a method, so a method     *)
(* that locks twice (begin_ssi_with_id, record_write_and_validate,         *)
(* commit_at, abort) is several actions and other callers interleave       *)
(* between them; `step` and `aborting` say how far such a call has come.   *)
(*                                                                         *)
(* MSpec is the manager under an arbitrary caller: any method, any         *)
(* timestamps, with at most one begin or commit call per id in progress    *)
(* (the engine's write_guard sees to that) and aborts at any time.         *)
(* Module SsiCommit adds the caller the program really has.                *)
(*                                                                         *)
(* Not modelled: stage_commit and discard_staged have no caller outside    *)
(* the unit tests, so `provisional` is always empty in the program and     *)
(* the second check of validate_ssi_with_contexts finds nothing.           *)
(***************************************************************************)
EXTENDS Integers, Sequences

CONSTANTS Txn,        \* transaction ids, each handed to begin at most once
          Key,        \* storage keys, numbered in byte order
          Ts,         \* timestamps callers may pass
          NoContext   \* "this id has no entry in ssi_contexts"

ASSUME KeyAssumption == Key \subseteq Nat
\* 0 is the snapshot of an empty database.
ASSUME TsAssumption == Ts \subseteq Nat /\ 0 \in Ts

VARIABLES
  transactions,    \* id -> "None" | "Active" | "Committed" | "Aborted"
  ssi_contexts,    \* id -> SSI context | NoContext
  commit_history,  \* the ring: committed write sets, oldest first
  step,            \* id -> the critical section the committing call runs next
  pending_ts,      \* id -> commit_ts argument of the commit_at in progress
  aborting,        \* id -> an abort has marked the id but not yet cleaned up
  (* History variables; no action reads them. *)
  peers,           \* id -> entries promoted while the id was registered
  promoted         \* id -> the context the id was promoted with

mvars == <<transactions, ssi_contexts, commit_history, step, pending_ts,
           aborting, peers, promoted>>

-----------------------------------------------------------------------------
(* Data *)

\* A scanned range [lower, upper).
ScanRange == Key \X {k + 1 : k \in Key}

SsiTxn == [start_ts : Ts, read_set : SUBSET Key, write_set : SUBSET Key,
           read_conflict_ranges : SUBSET ScanRange]

ASSUME NoContextAssumption == NoContext \notin SsiTxn

CommitEntry == [write_set : SUBSET Key, commit_ts : Ts]

NewSsiTxn(s) ==
  [start_ts |-> s, read_set |-> {}, write_set |-> {},
   read_conflict_ranges |-> {}]

InRange(k, r) == r[1] <= k /\ k < r[2]

Registered(t) == ssi_contexts[t] # NoContext

Entries == {commit_history[i] : i \in 1..Len(commit_history)}

\* Does some key of `writes` hit a point or a range read of `ctx`?
WriteSetHitsReads(writes, ctx) ==
  \E k \in writes : \/ k \in ctx.read_set
                    \/ \E r \in ctx.read_conflict_ranges : InRange(k, r)

\* A committed peer conflicts only when it committed after the snapshot.
CheckConflict(ctx, entry) ==
  /\ entry.commit_ts > ctx.start_ts
  /\ \/ entry.write_set \cap ctx.write_set # {}
     \/ WriteSetHitsReads(entry.write_set, ctx)

\* The breadth-first search of validate_cahill finds t again exactly when t
\* is in every set that holds t's successors and is closed under successors.
OnRwCycle(t, ctxs) ==
  LET live == {u \in Txn : ctxs[u] # NoContext}
      Outgoing(u) == {v \in live \ {u} :
                        WriteSetHitsReads(ctxs[u].write_set, ctxs[v])}
  IN  \A C \in SUBSET live :
        (Outgoing(t) \subseteq C /\ \A u \in C : Outgoing(u) \subseteq C)
          => t \in C

\* Fault: only live contexts are consulted, not the commit history.
ValidateSsi_LiveOnly(t, ctxs) == ~OnRwCycle(t, ctxs)

ValidateSsi(t, ctxs) ==
  /\ \A e \in Entries : ~CheckConflict(ctxs[t], e)
  /\ ~OnRwCycle(t, ctxs)

\* Fault: the watermark ignores the contexts that are left.
AtOrBelowWatermark_Max(entry, left) == TRUE

\* watermark = min(start_ts of the contexts left), u64::MAX when none is left:
\* an entry is at or below it when it is at or below every such start_ts.
AtOrBelowWatermark(entry, left) ==
  \A u \in left : entry.commit_ts <= ssi_contexts[u].start_ts

\* CommitHistory::garbage_collect pops the front while it is at or below the
\* watermark: `rest` is what remains of `ring`.
GarbageCollect(ring, left, rest) ==
  \E n \in 0..Len(ring) :
    /\ \A i \in 1..n : AtOrBelowWatermark(ring[i], left)
    /\ n < Len(ring) => ~AtOrBelowWatermark(ring[n + 1], left)
    /\ rest = SubSeq(ring, n + 1, Len(ring))

-----------------------------------------------------------------------------
(* begin_ssi_with_id *)

MInit ==
  /\ transactions = [t \in Txn |-> "None"]
  /\ ssi_contexts = [t \in Txn |-> NoContext]
  /\ commit_history = << >>
  /\ step = [t \in Txn |-> "none"]
  /\ pending_ts = [t \in Txn |-> 0]
  /\ aborting = [t \in Txn |-> FALSE]
  /\ peers = [t \in Txn |-> {}]
  /\ promoted = [t \in Txn |-> NoContext]

\* begin_with_id: the handle becomes known, and Active.
BeginWithId(t) ==
  /\ transactions[t] = "None"
  /\ transactions' = [transactions EXCEPT ![t] = "Active"]
  /\ step' = [step EXCEPT ![t] = "begin"]
  /\ UNCHANGED <<ssi_contexts, commit_history, pending_ts, aborting, peers,
                 promoted>>

\* ... and only then is the context registered, with a start_ts the caller
\* took earlier.
InsertContext(t, start_ts) ==
  /\ step[t] = "begin"
  /\ ssi_contexts' = [ssi_contexts EXCEPT ![t] = NewSsiTxn(start_ts)]
  /\ step' = [step EXCEPT ![t] = "none"]
  /\ UNCHANGED <<transactions, commit_history, pending_ts, aborting, peers,
                 promoted>>

(* with_ssi_txn: bookkeeping under the context lock; without a context the
   call is an error its callers discard, and nothing changes. *)

UpdateContext(t, ctx) ==
  /\ Registered(t)
  /\ ssi_contexts' = [ssi_contexts EXCEPT ![t] = ctx]
  /\ UNCHANGED <<transactions, commit_history, step, pending_ts, aborting,
                 peers, promoted>>

RecordRead(t, k) ==
  UpdateContext(t, [ssi_contexts[t] EXCEPT !.read_set = @ \cup {k}])

RecordWrite(t, k) ==
  UpdateContext(t, [ssi_contexts[t] EXCEPT !.write_set = @ \cup {k}])

AddReadConflictRange(t, r) ==
  UpdateContext(t, [ssi_contexts[t] EXCEPT !.read_conflict_ranges = @ \cup {r}])

-----------------------------------------------------------------------------
(* record_write_and_validate *)

WithWrites(t, keys) ==
  [ssi_contexts EXCEPT ![t].write_set = @ \cup keys]

\* One critical section: the write set becomes final and is validated.
RecordWriteAndValidate(t, keys) ==
  /\ step[t] = "none"
  /\ Registered(t)
  /\ ssi_contexts' = WithWrites(t, keys)
  /\ step' = IF ValidateSsi(t, WithWrites(t, keys))
             THEN step ELSE [step EXCEPT ![t] = "reject"]
  /\ UNCHANGED <<transactions, commit_history, pending_ts, aborting, peers,
                 promoted>>

\* A rejected commit first marks the id Aborted, whatever its state was ...
MarkRejected(t) ==
  /\ step[t] = "reject"
  /\ transactions' = [transactions EXCEPT ![t] = "Aborted"]
  /\ step' = [step EXCEPT ![t] = "unregister"]
  /\ UNCHANGED <<ssi_contexts, commit_history, pending_ts, aborting, peers,
                 promoted>>

\* ... and then drops the context.
DropRejected(t) ==
  /\ step[t] = "unregister"
  /\ ssi_contexts' = [ssi_contexts EXCEPT ![t] = NoContext]
  /\ step' = [step EXCEPT ![t] = "none"]
  /\ UNCHANGED <<transactions, commit_history, pending_ts, aborting, peers,
                 promoted>>

-----------------------------------------------------------------------------
(* commit_at and abort *)

\* First critical section of commit_at, for an Active id (any other id is an
\* error and changes nothing).
CommitAt(t, commit_ts) ==
  /\ step[t] = "none"
  /\ transactions[t] = "Active"
  /\ transactions' = [transactions EXCEPT ![t] = "Committed"]
  /\ step' = [step EXCEPT ![t] = "promote"]
  /\ pending_ts' = [pending_ts EXCEPT ![t] = commit_ts]
  /\ UNCHANGED <<ssi_contexts, commit_history, aborting, peers, promoted>>

\* Second critical section: promote the write set, drop the context, collect
\* garbage against the contexts that are left.
Promote(t) ==
  /\ step[t] = "promote"
  /\ step' = [step EXCEPT ![t] = "none"]
  /\ IF ~Registered(t)
     THEN UNCHANGED <<ssi_contexts, commit_history, peers, promoted>>
     ELSE LET entry == [write_set |-> ssi_contexts[t].write_set,
                        commit_ts |-> pending_ts[t]]
              left == {u \in Txn \ {t} : Registered(u)}
          IN  /\ ssi_contexts' = [ssi_contexts EXCEPT ![t] = NoContext]
              /\ GarbageCollect(Append(commit_history, entry), left,
                                commit_history')
              /\ peers' = [u \in Txn |-> IF u \in left
                                         THEN peers[u] \cup {entry}
                                         ELSE peers[u]]
              /\ promoted' = [promoted EXCEPT ![t] = ssi_contexts[t]]
  /\ UNCHANGED <<transactions, pending_ts, aborting>>

\* Fault: the state is not looked at.
Abort_AnyState(t) ==
  /\ transactions' = [transactions EXCEPT ![t] = "Aborted"]
  /\ aborting' = [aborting EXCEPT ![t] = TRUE]
  /\ UNCHANGED <<ssi_contexts, commit_history, step, pending_ts, peers,
                 promoted>>

\* abort: an Active id is marked under the transactions lock (any other id is
\* an error and changes nothing) ...
Abort(t) ==
  IF transactions[t] = "Active"
  THEN /\ transactions' = [transactions EXCEPT ![t] = "Aborted"]
       /\ aborting' = [aborting EXCEPT ![t] = TRUE]
       /\ UNCHANGED <<ssi_contexts, commit_history, step, pending_ts, peers,
                      promoted>>
  ELSE UNCHANGED mvars

\* Fault: the context is left behind.
FinishAbort_KeepsContext(t) ==
  /\ aborting[t]
  /\ aborting' = [aborting EXCEPT ![t] = FALSE]
  /\ UNCHANGED <<transactions, ssi_contexts, commit_history, step, pending_ts,
                 peers, promoted>>

\* ... and its context is removed under the other lock.
FinishAbort(t) ==
  /\ aborting[t]
  /\ aborting' = [aborting EXCEPT ![t] = FALSE]
  /\ ssi_contexts' = [ssi_contexts EXCEPT ![t] = NoContext]
  /\ UNCHANGED <<transactions, commit_history, step, pending_ts, peers,
                 promoted>>

-----------------------------------------------------------------------------
MNext ==
  \E t \in Txn :
    \/ BeginWithId(t)
    \/ \E s \in Ts : InsertContext(t, s)
    \/ \E k \in Key : RecordRead(t, k)
    \/ \E k \in Key : RecordWrite(t, k)
    \/ \E r \in ScanRange : AddReadConflictRange(t, r)
    \/ \E keys \in SUBSET Key : RecordWriteAndValidate(t, keys)
    \/ MarkRejected(t)
    \/ DropRejected(t)
    \/ \E c \in Ts : CommitAt(t, c)
    \/ Promote(t)
    \/ Abort(t)
    \/ FinishAbort(t)

MSpec == MInit /\ [][MNext]_mvars

-----------------------------------------------------------------------------
(* Properties *)

\* The type invariant of the manager's tables.
MTypeOK ==
  /\ transactions \in [Txn -> {"None", "Active", "Committed", "Aborted"}]
  /\ ssi_contexts \in [Txn -> SsiTxn \cup {NoContext}]
  /\ commit_history \in Seq(CommitEntry)
  /\ step \in [Txn -> {"none", "begin", "reject", "unregister", "promote"}]
  /\ pending_ts \in [Txn -> Ts]
  /\ aborting \in [Txn -> BOOLEAN]
  /\ peers \in [Txn -> SUBSET CommitEntry]
  /\ promoted \in [Txn -> SsiTxn \cup {NoContext}]

\* Collecting the commit history never loses an entry that a registered
\* transaction still has to be validated against: whatever was promoted while
\* a transaction was registered, and committed after its start_ts, is in the
\* history for as long as the transaction stays registered (invariant TX5).
HistoryRetained ==
  \A t \in Txn : Registered(t) =>
    \A e \in peers[t] : e.commit_ts > ssi_contexts[t].start_ts => e \in Entries

\* Committed and Aborted are final: neither the unconditional Aborted of
\* record_write_and_validate nor a late abort from Drop overwrites them.
TerminalStates ==
  [][\A t \in Txn : transactions[t] \in {"Committed", "Aborted"} =>
       transactions'[t] = transactions[t]]_mvars
=============================================================================
