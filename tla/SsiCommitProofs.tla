--------------------------- MODULE SsiCommitProofs ---------------------------
(* Proofs about the commit path of SsiCommit, for any set of transactions,   *)
(* keys and timestamps and any bounds.                                       *)
EXTENDS SsiCommit, TLAPS

-----------------------------------------------------------------------------
(* The manager, whatever its caller *)

\* Appending to the commit history and collecting garbage keeps it a sequence
\* of commit entries.
LEMMA GarbageCollectType ==
  ASSUME NEW ring \in Seq(CommitEntry), NEW left, NEW rest,
         GarbageCollect(ring, left, rest)
  PROVE  rest \in Seq(CommitEntry)
<1>1. PICK n \in 0..Len(ring) : rest = SubSeq(ring, n + 1, Len(ring))
  BY Zenon DEF GarbageCollect
<1>2. Len(ring) \in Nat /\ \A i \in 1..Len(ring) : ring[i] \in CommitEntry
  OBVIOUS
<1>3. n + 1 \in Int /\ Len(ring) \in Int
        /\ \A i \in (n + 1)..Len(ring) : ring[i] \in CommitEntry
  BY <1>2
<1> QED
  BY <1>1, <1>3

\* garbage_collect drops only entries at or below the watermark: an entry that
\* some remaining context has to be validated against survives.
LEMMA GarbageCollectKeeps ==
  ASSUME NEW ring \in Seq(CommitEntry), NEW left, NEW rest,
         GarbageCollect(ring, left, rest),
         NEW i \in 1..Len(ring), ~AtOrBelowWatermark(ring[i], left)
  PROVE  \E j \in 1..Len(rest) : rest[j] = ring[i]
<1>1. PICK n \in 0..Len(ring) :
        /\ \A m \in 1..n : AtOrBelowWatermark(ring[m], left)
        /\ rest = SubSeq(ring, n + 1, Len(ring))
  BY Zenon DEF GarbageCollect
<1>2. Len(ring) \in Nat /\ \A m \in 1..Len(ring) : ring[m] \in CommitEntry
  OBVIOUS
<1>3. i > n
  BY <1>1, <1>2
<1>4. n + 1 \in Int /\ Len(ring) \in Int
        /\ \A m \in (n + 1)..Len(ring) : ring[m] \in CommitEntry
  BY <1>2
<1>5. /\ Len(rest) = Len(ring) - n
      /\ \A m \in 1..(Len(ring) - n) : rest[m] = ring[n + m]
  BY <1>1, <1>2, <1>4
<1>6. i - n \in 1..Len(rest) /\ rest[i - n] = ring[i]
  BY <1>2, <1>3, <1>5
<1> QED
  BY <1>6, Zenon

\* What garbage_collect leaves is a suffix.
LEMMA GarbageCollectSuffix ==
  ASSUME NEW ring \in Seq(CommitEntry), NEW left, NEW rest,
         GarbageCollect(ring, left, rest)
  PROVE  \E n \in 0..Len(ring) :
           /\ Len(rest) = Len(ring) - n
           /\ \A m \in 1..Len(rest) : rest[m] = ring[n + m]
<1>1. PICK n \in 0..Len(ring) : rest = SubSeq(ring, n + 1, Len(ring))
  BY DEF GarbageCollect
<1>2. Len(ring) \in Nat /\ \A m \in 1..Len(ring) : ring[m] \in CommitEntry
  OBVIOUS
<1>3. n + 1 \in Int /\ Len(ring) \in Int
        /\ \A m \in (n + 1)..Len(ring) : ring[m] \in CommitEntry
  BY <1>2
<1>4. /\ Len(rest) = Len(ring) - n
      /\ \A m \in 1..(Len(ring) - n) : rest[m] = ring[n + m]
  BY <1>1, <1>2, <1>3
<1> QED
  BY <1>4, Zenon

-----------------------------------------------------------------------------
(* Type correctness *)

\* The contexts the bookkeeping calls write are contexts again.
LEMMA ContextUpdates ==
  ASSUME NEW ctx \in SsiTxn
  PROVE  /\ \A k \in Key :
              /\ [ctx EXCEPT !.read_set = @ \cup {k}] \in SsiTxn
              /\ [ctx EXCEPT !.write_set = @ \cup {k}] \in SsiTxn
         /\ \A r \in ScanRange :
              [ctx EXCEPT !.read_conflict_ranges = @ \cup {r}] \in SsiTxn
         /\ \A keys \in SUBSET Key :
              [ctx EXCEPT !.write_set = @ \cup keys] \in SsiTxn
  BY Zenon DEF SsiTxn

\* Every critical section preserves the types of the manager's tables.
LEMMA MTypeStep ==
  ASSUME MTypeOK, [MNext]_mvars
  PROVE  MTypeOK'
<1> USE DEF MTypeOK
<1>1. CASE UNCHANGED mvars
  BY <1>1, Zenon DEF mvars
<1>2. ASSUME NEW t \in Txn, BeginWithId(t)
      PROVE  MTypeOK'
  BY <1>2, Zenon DEF BeginWithId
<1>3. ASSUME NEW t \in Txn, NEW s \in Ts, InsertContext(t, s)
      PROVE  MTypeOK'
  <2>1. NewSsiTxn(s) \in SsiTxn
    BY Zenon DEF NewSsiTxn, SsiTxn
  <2> QED
    BY <1>3, <2>1, Zenon DEF InsertContext
<1>4. ASSUME NEW t \in Txn, NEW ctx \in SsiTxn, UpdateContext(t, ctx)
      PROVE  MTypeOK'
  BY <1>4, Zenon DEF UpdateContext
<1>5. ASSUME NEW t \in Txn, NEW k \in Key, RecordRead(t, k) \/ RecordWrite(t, k)
      PROVE  MTypeOK'
  <2>1. ssi_contexts[t] \in SsiTxn
    BY <1>5, Zenon DEF RecordRead, RecordWrite, UpdateContext, Registered
  <2> QED
    BY <1>4, <1>5, <2>1, ContextUpdates, Zenon DEF RecordRead, RecordWrite
<1>6. ASSUME NEW t \in Txn, NEW r \in ScanRange, AddReadConflictRange(t, r)
      PROVE  MTypeOK'
  <2>1. ssi_contexts[t] \in SsiTxn
    BY <1>6, Zenon DEF AddReadConflictRange, UpdateContext, Registered
  <2> QED
    BY <1>4, <1>6, <2>1, ContextUpdates, Zenon DEF AddReadConflictRange
<1>7. ASSUME NEW t \in Txn, NEW keys \in SUBSET Key,
             RecordWriteAndValidate(t, keys)
      PROVE  MTypeOK'
  <2>1. [ssi_contexts[t] EXCEPT !.write_set = @ \cup keys] \in SsiTxn
    BY <1>7, ContextUpdates, Zenon DEF RecordWriteAndValidate, Registered
  <2>2. ssi_contexts' \in [Txn -> SsiTxn \cup {NoContext}]
    BY <1>7, <2>1, Zenon DEF RecordWriteAndValidate, WithWrites
  <2> QED
    BY <1>7, <2>2, Zenon DEF RecordWriteAndValidate
<1>8. ASSUME NEW t \in Txn, MarkRejected(t) \/ DropRejected(t)
      PROVE  MTypeOK'
  BY <1>8, Zenon DEF MarkRejected, DropRejected
<1>9. ASSUME NEW t \in Txn, NEW c \in Ts, CommitAt(t, c)
      PROVE  MTypeOK'
  BY <1>9, Zenon DEF CommitAt
<1>10. ASSUME NEW t \in Txn, Promote(t)
       PROVE  MTypeOK'
  <2>1. CASE ~Registered(t)
    BY <1>10, <2>1, Zenon DEF Promote
  <2>2. CASE Registered(t)
    <3> DEFINE entry == [write_set |-> ssi_contexts[t].write_set,
                         commit_ts |-> pending_ts[t]]
               left == {u \in Txn \ {t} : Registered(u)}
    <3>1. ssi_contexts[t] \in SsiTxn
      BY <2>2, Zenon DEF Registered
    <3>2. entry \in CommitEntry
      BY <3>1, Zenon DEF CommitEntry, SsiTxn
    <3>3. Append(commit_history, entry) \in Seq(CommitEntry)
      BY <3>2
    <3>4. GarbageCollect(Append(commit_history, entry), left, commit_history')
      BY <1>10, <2>2, Zenon DEF Promote
    <3>5. commit_history' \in Seq(CommitEntry)
      BY <3>3, <3>4, GarbageCollectType, Zenon
    <3>6. peers' \in [Txn -> SUBSET CommitEntry]
      BY <1>10, <2>2, <3>2 DEF Promote
    <3> QED
      BY <1>10, <2>2, <3>1, <3>5, <3>6, Zenon DEF Promote
  <2> QED
    BY <2>1, <2>2, Zenon
<1>11. ASSUME NEW t \in Txn, Abort(t) \/ FinishAbort(t)
       PROVE  MTypeOK'
  BY <1>11, Zenon DEF Abort, FinishAbort, mvars
<1> QED
  BY <1>1, <1>2, <1>3, <1>5, <1>6, <1>7, <1>8, <1>9, <1>10, <1>11, Zenon DEF MNext

\* The manager's tables are type correct under any caller.
THEOREM MTypeCorrect == MSpec => []MTypeOK
<1>1. MInit => MTypeOK
  BY TsAssumption DEF MInit, MTypeOK
<1> QED
  BY <1>1, MTypeStep, PTL DEF MSpec

-----------------------------------------------------------------------------
(* Retention of the commit history *)

\* An id in ssi_contexts was begun, so it is not begun (and registered) again;
\* before it is registered, nothing is held against it.
BegunOnce ==
  \A t \in Txn :
    /\ transactions[t] = "None" => step[t] = "none"
    /\ (transactions[t] = "None" \/ step[t] = "begin")
         => ~Registered(t) /\ peers[t] = {}

\* The invariant that HistoryRetained needs to be inductive.
RetainInv == MTypeOK /\ BegunOnce /\ HistoryRetained

\* Steps that leave the history and the peers alone and do not change the
\* start_ts of a context keep what HistoryRetained keeps.
LEMMA RetainedFrame ==
  ASSUME HistoryRetained, UNCHANGED <<commit_history, peers>>,
         \A t \in Txn : Registered(t)' =>
           /\ Registered(t)
           /\ ssi_contexts'[t].start_ts = ssi_contexts[t].start_ts
  PROVE  HistoryRetained'
  BY Zenon DEF HistoryRetained, Entries

\* commit_at's second critical section retains what the others still need.
LEMMA RetainedPromote ==
  ASSUME MTypeOK, HistoryRetained, NEW t \in Txn, Promote(t), Registered(t)
  PROVE  HistoryRetained'
<1> DEFINE entry == [write_set |-> ssi_contexts[t].write_set,
                     commit_ts |-> pending_ts[t]]
           left == {u \in Txn \ {t} : Registered(u)}
           ring == Append(commit_history, entry)
<1>1. /\ ssi_contexts' = [ssi_contexts EXCEPT ![t] = NoContext]
      /\ GarbageCollect(ring, left, commit_history')
      /\ peers' = [u \in Txn |-> IF u \in left THEN peers[u] \cup {entry}
                                               ELSE peers[u]]
  BY Zenon DEF Promote
<1>2. entry \in CommitEntry /\ commit_history \in Seq(CommitEntry)
  BY Zenon DEF MTypeOK, Registered, CommitEntry, SsiTxn
<1>3. /\ ring \in Seq(CommitEntry)
      /\ Len(ring) = Len(commit_history) + 1
      /\ \A i \in 1..Len(commit_history) : ring[i] = commit_history[i]
      /\ ring[Len(ring)] = entry
      /\ Len(commit_history) \in Nat
  BY <1>2
<1>4. SUFFICES ASSUME NEW u \in Txn, Registered(u)', NEW e \in peers'[u],
                      e.commit_ts > ssi_contexts'[u].start_ts
               PROVE  e \in Entries'
  BY Zenon DEF HistoryRetained
<1>5. u \in left /\ ssi_contexts'[u] = ssi_contexts[u]
  BY <1>1, <1>4, Zenon DEF Registered, MTypeOK
<1>6. PICK i \in 1..Len(ring) : ring[i] = e
  <2>1. CASE e = entry
    BY <1>3, <2>1
  <2>2. CASE e \in peers[u]
    <3>1. e \in Entries
      BY <1>4, <1>5, <2>2, Zenon DEF HistoryRetained
    <3>2. PICK i \in 1..Len(commit_history) : commit_history[i] = e
      BY <3>1, Zenon DEF Entries
    <3> QED
      BY <1>3, <3>2
  <2> QED
    BY <1>1, <1>5, <2>1, <2>2, Zenon
<1>7. e.commit_ts \in Nat /\ ssi_contexts[u].start_ts \in Nat
  <2>1. e \in CommitEntry
    BY <1>3, <1>6
  <2>2. ssi_contexts[u] \in SsiTxn
    BY <1>5, Zenon DEF MTypeOK, Registered
  <2> QED
    BY <2>1, <2>2, TsAssumption, Zenon DEF CommitEntry, SsiTxn
<1>8. ~AtOrBelowWatermark(ring[i], left)
  BY <1>4, <1>5, <1>6, <1>7 DEF AtOrBelowWatermark
<1>9. PICK j \in 1..Len(commit_history') : commit_history'[j] = ring[i]
  <2> DEFINE rest == commit_history'
  <2> HIDE DEF ring, left
  <2>1. ring \in Seq(CommitEntry) /\ GarbageCollect(ring, left, rest)
    BY <1>1, <1>3, Zenon
  <2> HIDE DEF rest
  <2>2. \E j \in 1..Len(rest) : rest[j] = ring[i]
    BY <1>8, <2>1, GarbageCollectKeeps, SMT
  <2> QED
    BY <2>2, Zenon DEF rest
<1> QED
  BY <1>6, <1>9, Zenon DEF Entries

\* The invariant is inductive.
LEMMA RetainStep ==
  ASSUME RetainInv, [MNext]_mvars
  PROVE  BegunOnce' /\ HistoryRetained'
<1> USE DEF RetainInv
<1>1. CASE UNCHANGED mvars
  BY <1>1, Zenon DEF mvars, BegunOnce, HistoryRetained, Registered, Entries
<1>2. ASSUME NEW t \in Txn, BeginWithId(t)
      PROVE  BegunOnce' /\ HistoryRetained'
  BY <1>2, RetainedFrame, Zenon DEF BeginWithId, BegunOnce, Registered, MTypeOK
<1>3. ASSUME NEW t \in Txn, NEW s \in Ts, InsertContext(t, s)
      PROVE  BegunOnce' /\ HistoryRetained'
  <2>1. BegunOnce'
    BY <1>3, Zenon DEF InsertContext, BegunOnce, Registered, MTypeOK
  <2>2. peers'[t] = {}
    BY <1>3, Zenon DEF InsertContext, BegunOnce
  <2>3. \A u \in Txn \ {t} : ssi_contexts'[u] = ssi_contexts[u]
    BY <1>3, Zenon DEF InsertContext, MTypeOK
  <2> QED
    BY <1>3, <2>1, <2>2, <2>3
    DEF InsertContext, HistoryRetained, Registered, Entries
<1>4. ASSUME NEW t \in Txn, NEW ctx \in SsiTxn, UpdateContext(t, ctx),
             ctx.start_ts = ssi_contexts[t].start_ts
      PROVE  BegunOnce' /\ HistoryRetained'
  BY <1>4, RetainedFrame, Zenon DEF UpdateContext, BegunOnce, Registered, MTypeOK
<1>5. ASSUME NEW t \in Txn, NEW k \in Key, RecordRead(t, k) \/ RecordWrite(t, k)
      PROVE  BegunOnce' /\ HistoryRetained'
  <2>1. ssi_contexts[t] \in SsiTxn
    BY <1>5, Zenon DEF RecordRead, RecordWrite, UpdateContext, Registered, MTypeOK
  <2>2. /\ [ssi_contexts[t] EXCEPT !.read_set = @ \cup {k}].start_ts
             = ssi_contexts[t].start_ts
        /\ [ssi_contexts[t] EXCEPT !.write_set = @ \cup {k}].start_ts
             = ssi_contexts[t].start_ts
    BY <2>1, Zenon DEF SsiTxn
  <2> QED
    BY <1>4, <1>5, <2>1, <2>2, ContextUpdates, Zenon DEF RecordRead, RecordWrite
<1>6. ASSUME NEW t \in Txn, NEW r \in ScanRange, AddReadConflictRange(t, r)
      PROVE  BegunOnce' /\ HistoryRetained'
  <2>1. ssi_contexts[t] \in SsiTxn
    BY <1>6, Zenon DEF AddReadConflictRange, UpdateContext, Registered, MTypeOK
  <2>2. [ssi_contexts[t] EXCEPT !.read_conflict_ranges = @ \cup {r}].start_ts
          = ssi_contexts[t].start_ts
    BY <2>1, Zenon DEF SsiTxn
  <2> QED
    BY <1>4, <1>6, <2>1, <2>2, ContextUpdates, Zenon DEF AddReadConflictRange
<1>7. ASSUME NEW t \in Txn, NEW keys \in SUBSET Key,
             RecordWriteAndValidate(t, keys)
      PROVE  BegunOnce' /\ HistoryRetained'
  <2>1. ssi_contexts[t] \in SsiTxn
    BY <1>7, Zenon DEF RecordWriteAndValidate, Registered, MTypeOK
  <2>2. \A u \in Txn : Registered(u)' =>
           /\ Registered(u)
           /\ ssi_contexts'[u].start_ts = ssi_contexts[u].start_ts
    BY <1>7, <2>1, Zenon
    DEF RecordWriteAndValidate, WithWrites, Registered, MTypeOK, SsiTxn
  <2>3. BegunOnce'
    BY <1>7, <2>2, Zenon DEF RecordWriteAndValidate, BegunOnce, MTypeOK
  <2> QED
    BY <1>7, <2>2, <2>3, RetainedFrame, Zenon DEF RecordWriteAndValidate
<1>8. ASSUME NEW t \in Txn, MarkRejected(t) \/ DropRejected(t)
      PROVE  BegunOnce' /\ HistoryRetained'
  BY <1>8, RetainedFrame
  DEF MarkRejected, DropRejected, BegunOnce, Registered, MTypeOK
<1>9. ASSUME NEW t \in Txn, NEW c \in Ts, CommitAt(t, c)
      PROVE  BegunOnce' /\ HistoryRetained'
  BY <1>9, RetainedFrame, Zenon DEF CommitAt, BegunOnce, Registered, MTypeOK
<1>10. ASSUME NEW t \in Txn, Promote(t)
       PROVE  BegunOnce' /\ HistoryRetained'
  <2>1. CASE ~Registered(t)
    BY <1>10, <2>1, RetainedFrame, Zenon DEF Promote, BegunOnce, Registered, MTypeOK
  <2>2. CASE Registered(t)
    <3>1. BegunOnce'
      BY <1>10, <2>2 DEF Promote, BegunOnce, Registered, MTypeOK
    <3> QED
      BY <1>10, <2>2, <3>1, RetainedPromote, Zenon
  <2> QED
    BY <2>1, <2>2, Zenon
<1>11. ASSUME NEW t \in Txn, Abort(t) \/ FinishAbort(t)
       PROVE  BegunOnce' /\ HistoryRetained'
  BY <1>11, RetainedFrame, ZenonT(40)
  DEF Abort, FinishAbort, BegunOnce, Registered, MTypeOK, mvars
<1> QED
  BY <1>1, <1>2, <1>3, <1>5, <1>6, <1>7, <1>8, <1>9, <1>10, <1>11, Zenon DEF MNext

\* TX5, for any number of transactions, keys and timestamps and any caller:
\* garbage collection of the commit history never loses an entry that a
\* registered transaction still has to be validated against.
THEOREM HistoryIsRetained == MSpec => []HistoryRetained
<1>1. MInit => BegunOnce /\ HistoryRetained
  BY Zenon DEF MInit, BegunOnce, HistoryRetained, Registered
<1>2. MTypeOK /\ (BegunOnce /\ HistoryRetained) /\ [MNext]_mvars
        => (BegunOnce /\ HistoryRetained)'
  BY RetainStep, Zenon DEF RetainInv
<1> QED
  BY <1>1, <1>2, MTypeCorrect, PTL DEF MSpec

-----------------------------------------------------------------------------
(* Terminal states *)

\* A Committed id is past every step that could still mark it Aborted: its
\* context is only there until commit_at promotes it, and a rejected commit is
\* never one that was Committed.
NotRejectable ==
  \A t \in Txn :
    /\ transactions[t] = "None" => step[t] = "none" /\ ~Registered(t)
    /\ (Registered(t) /\ transactions[t] = "Committed") => step[t] = "promote"
    /\ step[t] \in {"begin", "reject"} => transactions[t] # "Committed"

\* No step makes an id in the middle of a rejection Committed.
LEMMA NotRejectableStep ==
  ASSUME MTypeOK, NotRejectable, [MNext]_mvars
  PROVE  NotRejectable'
<1> USE DEF NotRejectable, Registered, MTypeOK
<1>1. CASE UNCHANGED mvars
  BY <1>1, Zenon DEF mvars
<1>2. ASSUME NEW t \in Txn, BeginWithId(t)
      PROVE  NotRejectable'
  BY <1>2, Zenon DEF BeginWithId
<1>3. ASSUME NEW t \in Txn, NEW s \in Ts, InsertContext(t, s)
      PROVE  NotRejectable'
  BY <1>3, Zenon DEF InsertContext
<1>4. ASSUME NEW t \in Txn, NEW ctx, UpdateContext(t, ctx)
      PROVE  NotRejectable'
  BY <1>4, Zenon DEF UpdateContext
<1>5. ASSUME NEW t \in Txn, NEW keys \in SUBSET Key,
             RecordWriteAndValidate(t, keys)
      PROVE  NotRejectable'
  <2>1. /\ \A u \in Txn : Registered(u)' => Registered(u)
        /\ step[t] = "none" /\ Registered(t)
        /\ UNCHANGED transactions
        /\ step' = step \/ step' = [step EXCEPT ![t] = "reject"]
    BY <1>5, Zenon DEF RecordWriteAndValidate, WithWrites
  <2> QED
    BY <2>1, Zenon
<1>6. ASSUME NEW t \in Txn, MarkRejected(t) \/ DropRejected(t)
      PROVE  NotRejectable'
  BY <1>6, ZenonT(40) DEF MarkRejected, DropRejected
<1>7. ASSUME NEW t \in Txn, NEW c \in Ts, CommitAt(t, c)
      PROVE  NotRejectable'
  BY <1>7, Zenon DEF CommitAt
<1>8. ASSUME NEW t \in Txn, Promote(t)
      PROVE  NotRejectable'
  BY <1>8, Zenon DEF Promote
<1>9. ASSUME NEW t \in Txn, Abort(t) \/ FinishAbort(t)
      PROVE  NotRejectable'
  BY <1>9, ZenonT(40) DEF Abort, FinishAbort, mvars
<1> QED
  BY <1>1, <1>2, <1>3, <1>4, <1>5, <1>6, <1>7, <1>8, <1>9, Zenon
  DEF MNext, RecordRead, RecordWrite, AddReadConflictRange

\* Committed and Aborted are final under any caller.
THEOREM TerminalStatesAreFinal == MSpec => TerminalStates
<1> DEFINE Final == \A t \in Txn : transactions[t] \in {"Committed", "Aborted"} =>
                      transactions'[t] = transactions[t]
<1>1. MInit => NotRejectable
  BY Zenon DEF MInit, NotRejectable, Registered
<1>2. MTypeOK /\ NotRejectable /\ [MNext]_mvars => [Final]_mvars
  <2>1. SUFFICES ASSUME MTypeOK, NotRejectable, MNext
                 PROVE  Final
    BY Zenon
  <2>2. PICK t \in Txn :
          \/ UNCHANGED transactions
          \/ transactions[t] \in {"None", "Active"}
               /\ \E x : transactions' = [transactions EXCEPT ![t] = x]
          \/ step[t] = "reject"
               /\ transactions' = [transactions EXCEPT ![t] = "Aborted"]
    BY <2>1 DEF MNext, BeginWithId, InsertContext, RecordRead, RecordWrite,
         AddReadConflictRange, UpdateContext, RecordWriteAndValidate,
         MarkRejected, DropRejected, CommitAt, Promote, Abort, FinishAbort,
         mvars
  <2> QED
    BY <2>1, <2>2, Zenon DEF MTypeOK, NotRejectable
<1> QED
  BY <1>1, <1>2, MTypeCorrect, NotRejectableStep, PTL DEF MSpec, TerminalStates

-----------------------------------------------------------------------------
(* The commit path drives the manager through its methods only *)

\* Every step of the program is a critical section of a manager method, or
\* leaves the manager alone.
LEMMA ManagerStep ==
  ASSUME ETypeOK, [Next]_vars
  PROVE  [MNext]_mvars
<1>1. CASE UNCHANGED vars
  BY <1>1, Zenon DEF vars
<1>2. ASSUME NEW t \in Txn, ClientStep(t)
      PROVE  [MNext]_mvars
  BY <1>2, Zenon DEF ClientStep, Begin, BeginSsi, Get, Scan, Put, TryCommitRefused,
              TryCommit, DropHandle, MNext
<1>3. ASSUME NEW t \in Txn, LockGuard(t) \/ DropHandleFinish(t)
      PROVE  [MNext]_mvars
  BY <1>3, Zenon DEF LockGuard, DropHandleFinish, MNext
<1>4. ASSUME NEW t \in Txn, ThreadStep(t)
      PROVE  [MNext]_mvars
  <2>1. snapshot_ts[t] \in Ts /\ commit_ts[t] \in Ts
          /\ mutations[t] \in SUBSET Key
    BY SMTT(30), Zenon DEF ETypeOK
  <2>2. CASE BeginSsiHandle(t) \/ BeginSsiContext(t) \/ ReadNext(t)
    BY <2>1, <2>2, Zenon DEF BeginSsiHandle, BeginSsiContext, ReadNext, MNext
  <2>3. CASE PreCommitState(t) \/ PreCommitProbe(t)
    BY <2>3, Zenon DEF PreCommitState, PreCommitProbe
  <2>4. CASE PreCommitValidate(t)
    BY <2>1, <2>4, Zenon DEF PreCommitValidate, MNext
  <2>5. CASE PreCommitMarkRejected(t) \/ PreCommitDropRejected(t)
    BY <2>5, Zenon DEF PreCommitMarkRejected, PreCommitDropRejected, MNext
  <2>6. CASE WalAppend(t) \/ AssignCommitTs(t) \/ ApplyMutation(t)
    BY <2>6, Zenon DEF WalAppend, AssignCommitTs, ApplyMutation
  <2>7. CASE OnTxCommit(t) \/ OnTxCommitPromote(t)
    BY <2>1, <2>7, Zenon DEF OnTxCommit, OnTxCommitPromote, MNext
  <2> QED
    BY <1>4, <2>2, <2>3, <2>4, <2>5, <2>6, <2>7, Zenon DEF ThreadStep
<1> QED
  BY <1>1, <1>2, <1>3, <1>4, Zenon DEF Next

-----------------------------------------------------------------------------
(* Type correctness *)

\* Every step preserves the types of the engine's and the clients' state.
LEMMA EngineTypeStep ==
  ASSUME ETypeOK, [Next]_vars
  PROVE  ETypeOK'
<1> USE DEF ETypeOK, Goto, InGuard
<1>1. CASE UNCHANGED vars
  BY <1>1, Zenon DEF vars, evars
<1>2. ASSUME NEW t \in Txn, Begin(t) \/ BeginSsi(t) \/ BeginSsiHandle(t)
                              \/ BeginSsiContext(t)
      PROVE  ETypeOK'
  <2>1. CASE Begin(t) \/ BeginSsiHandle(t) \/ BeginSsiContext(t)
    BY <2>1 DEF Begin, BeginSsiHandle, BeginSsiContext, TakeSnapshot
  <2>2. CASE BeginSsi(t)
    <3>1. is_ssi' \in [Txn -> BOOLEAN]
      BY <2>2, Zenon DEF BeginSsi
    <3> QED
      BY <2>2, <3>1, Zenon DEF BeginSsi, TakeSnapshot
  <2> QED
    BY <1>2, <2>1, <2>2, Zenon
<1>3. ASSUME NEW t \in Txn, NEW k \in Key, Get(t, k) \/ Put(t, k)
      PROVE  ETypeOK'
  BY <1>3, MaxOpsAssumption DEF Get, Put, CountOp
<1>4. ASSUME NEW t \in Txn, NEW r \in ScanRange, Scan(t, r)
      PROVE  ETypeOK'
  BY <1>4, MaxOpsAssumption DEF Scan, CountOp
<1>5. ASSUME NEW t \in Txn, ReadNext(t)
      PROVE  ETypeOK'
  <2>1. CASE todo[t] = {}
    BY <1>5, <2>1, Zenon DEF ReadNext
  <2>2. CASE todo[t] # {}
    <3>1. PICK k \in todo[t] :
            /\ \E v \in memtable[k] \cup {0} :
                 observed' = [observed EXCEPT ![t] = @ \cup {<<k, v>>}]
            /\ todo' = [todo EXCEPT ![t] = @ \ {k}]
            /\ Goto(t, IF todo[t] = {k} THEN "open" ELSE "reading")
      BY <1>5, <2>2, Zenon DEF ReadNext
    <3>2. k \in Key /\ memtable[k] \cup {0} \subseteq Ts
      BY TsAssumption, Zenon
    <3>3. PICK v \in Ts : observed' = [observed EXCEPT ![t] = @ \cup {<<k, v>>}]
      BY <3>1, <3>2, Zenon
    <3> QED
      BY <1>5, <3>1, <3>2, <3>3 DEF ReadNext
  <2> QED
    BY <2>1, <2>2, Zenon
<1>6. ASSUME NEW t \in Txn, TryCommitRefused(t) \/ TryCommit(t) \/ LockGuard(t)
      PROVE  ETypeOK'
  BY <1>6, MaxAttemptsAssumption, SMTT(30)
  DEF TryCommitRefused, TryCommit, LockGuard, CanAttempt, CloneForRetry
<1>7. ASSUME NEW t \in Txn, PreCommitState(t) \/ PreCommitProbe(t)
                              \/ PreCommitValidate(t)
      PROVE  ETypeOK'
  BY <1>7 DEF PreCommitState, PreCommitProbe, PreCommitValidate, Fail,
              CloneForRetry
<1>8. ASSUME NEW t \in Txn, PreCommitMarkRejected(t) \/ PreCommitDropRejected(t)
                              \/ WalAppend(t)
      PROVE  ETypeOK'
  BY <1>8 DEF PreCommitMarkRejected, PreCommitDropRejected, WalAppend, Fail,
              CloneForRetry, evars
<1>9. ASSUME NEW t \in Txn, AssignCommitTs(t)
      PROVE  ETypeOK'
  <2>1. [txn |-> t, ts |-> commit_seq, start |-> snapshot_ts[t],
         writes |-> mutations[t], ssi |-> is_ssi[t]] \in Commit
    BY <1>9, Zenon DEF AssignCommitTs, Commit
  <2> QED
    BY <1>9, <2>1 DEF AssignCommitTs
<1>10. ASSUME NEW t \in Txn, ApplyMutation(t)
       PROVE  ETypeOK'
  BY <1>10 DEF ApplyMutation
<1>11. ASSUME NEW t \in Txn, OnTxCommit(t) \/ OnTxCommitPromote(t)
       PROVE  ETypeOK'
  BY <1>11, Zenon DEF OnTxCommit, OnTxCommitPromote
<1>12. ASSUME NEW t \in Txn, DropHandle(t) \/ DropHandleFinish(t)
       PROVE  ETypeOK'
  BY <1>12 DEF DropHandle, DropHandleFinish, Borrowed, evars
<1> QED
  BY <1>1, <1>2, <1>3, <1>4, <1>5, <1>6, <1>7, <1>8, <1>9, <1>10, <1>11, <1>12, Zenon
  DEF Next, ClientStep, ThreadStep

\* The state of the commit path is type correct.
THEOREM TypeCorrect == Spec => []TypeOK
<1>1. Init => TypeOK
  BY TsAssumption, MaxOpsAssumption, MaxAttemptsAssumption
  DEF Init, MInit, TypeOK, MTypeOK, ETypeOK
<1>2. TypeOK /\ [Next]_vars => TypeOK'
  BY ManagerStep, EngineTypeStep, MTypeStep, Zenon DEF TypeOK
<1> QED
  BY <1>1, <1>2, PTL DEF Spec

\* The program, seen through the manager's variables, is a behaviour of the
\* manager's own specification: everything proved of MSpec holds of it.
THEOREM ImplementsManager == Spec => MSpec
<1>1. Init => MInit
  BY Zenon DEF Init
<1>2. TypeOK /\ [Next]_vars => [MNext]_mvars
  BY ManagerStep, Zenon DEF TypeOK
<1> QED
  BY <1>1, <1>2, TypeCorrect, PTL DEF Spec, MSpec

\* TX5 for the program: no entry that a registered transaction still has to be
\* validated against is ever collected.
THEOREM ProgramRetainsHistory == Spec => []HistoryRetained
  BY ImplementsManager, HistoryIsRetained, PTL

\* Committed and Aborted are final in the program.
THEOREM ProgramTerminalStates == Spec => TerminalStates
  BY ImplementsManager, TerminalStatesAreFinal, PTL

-----------------------------------------------------------------------------
(* First committer wins *)

\* write_guard excludes: whoever is between pre-commit and promotion holds it.
GuardHeld == \A t \in Txn : pc[t] \in InGuard => write_guard = t

AfterValidation == {"wal", "seq", "apply", "hook", "promote"}

\* From validation to promotion, nothing that was promoted while t was
\* registered conflicts with t's context (which may vanish, but not change).
StillValid ==
  \A t \in Txn : (pc[t] \in AfterValidation /\ Registered(t)) =>
    \A e \in peers[t] : ~CheckConflict(ssi_contexts[t], e)

\* A promoted transaction is never registered again.
PromotedOnce ==
  \A t \in Txn : promoted[t] # NoContext =>
    ~Registered(t) /\ pc[t] \notin {"idle", "begin", "register"}

CommitInv == GuardHeld /\ StillValid /\ PromotedOnce /\ FirstCommitterWins

\* Steps that take no thread past validation and leave every registered
\* context, the peers and the promotions alone keep the invariant.
LEMMA CommitFrame ==
  ASSUME CommitInv, GuardHeld',
         UNCHANGED <<peers, promoted>>,
         \A t \in Txn : pc'[t] \in AfterValidation =>
           \/ ~Registered(t)'
           \/ pc[t] \in AfterValidation /\ ssi_contexts'[t] = ssi_contexts[t],
         \A t \in Txn : Registered(t)' => Registered(t),
         \A t \in Txn : pc'[t] \in {"idle", "begin", "register"} =>
           pc[t] \in {"idle", "begin", "register"}
  PROVE  CommitInv'
  BY ZenonT(40) DEF CommitInv, StillValid, PromotedOnce, FirstCommitterWins, Registered,
         CheckConflict, WriteSetHitsReads, InRange

\* Validation succeeds only against everything the transaction's peers are.
LEMMA ValidatedAgainstPeers ==
  ASSUME TypeOK, HistoryRetained, NEW t \in Txn, Registered(t),
         ValidateSsi(t, WithWrites(t, mutations[t])), NEW e \in peers[t]
  PROVE  ~CheckConflict(WithWrites(t, mutations[t])[t], e)
<1> DEFINE ctx == WithWrites(t, mutations[t])[t]
<1>1. ctx.start_ts = ssi_contexts[t].start_ts
  BY Zenon DEF WithWrites, TypeOK, MTypeOK, Registered, SsiTxn
<1>2. CASE e \in Entries
  BY <1>2, Zenon DEF ValidateSsi
<1>3. CASE e \notin Entries
  <2>1. ~(e.commit_ts > ctx.start_ts)
    BY <1>1, <1>3, Zenon DEF HistoryRetained
  <2> QED
    BY <2>1, Zenon DEF CheckConflict
<1> QED
  BY <1>2, <1>3, Zenon

\* Mutual exclusion is inductive.
LEMMA GuardStep ==
  ASSUME TypeOK, GuardHeld, [Next]_vars
  PROVE  GuardHeld'
<1>t. write_guard \in Txn \cup {NoTxn} /\ pc = [t \in Txn |-> pc[t]]
  BY Zenon DEF TypeOK, ETypeOK
<1> USE <1>t, NoTxnAssumption DEF GuardHeld, InGuard, Goto
<1>1. CASE UNCHANGED vars
  BY <1>1, Zenon DEF vars, evars
<1>2. ASSUME NEW t \in Txn, ClientStep(t)
      PROVE  GuardHeld'
  BY <1>2, Zenon DEF ClientStep, Begin, BeginSsi, Get, Scan, Put, TryCommitRefused,
              TryCommit, DropHandle, Usable, CanAttempt
<1>3. ASSUME NEW t \in Txn, LockGuard(t)
      PROVE  GuardHeld'
  BY <1>3, Zenon DEF LockGuard
<1>4. ASSUME NEW t \in Txn, DropHandleFinish(t)
      PROVE  GuardHeld'
  BY <1>4, Zenon DEF DropHandleFinish, evars
<1>5. ASSUME NEW t \in Txn, BeginSsiHandle(t) \/ BeginSsiContext(t) \/ ReadNext(t)
      PROVE  GuardHeld'
  BY <1>5, ZenonT(40) DEF BeginSsiHandle, BeginSsiContext, ReadNext
<1>6. ASSUME NEW t \in Txn, PreCommitState(t) \/ PreCommitProbe(t)
                              \/ PreCommitValidate(t)
      PROVE  GuardHeld'
  BY <1>6, Zenon DEF PreCommitState, PreCommitProbe, PreCommitValidate, Fail
<1>7. ASSUME NEW t \in Txn, PreCommitMarkRejected(t) \/ PreCommitDropRejected(t)
                              \/ WalAppend(t)
      PROVE  GuardHeld'
  BY <1>7 DEF PreCommitMarkRejected, PreCommitDropRejected, WalAppend, Fail,
              evars
<1>8. ASSUME NEW t \in Txn, AssignCommitTs(t) \/ ApplyMutation(t)
      PROVE  GuardHeld'
  BY <1>8, Zenon DEF AssignCommitTs, ApplyMutation
<1>9. ASSUME NEW t \in Txn, OnTxCommit(t) \/ OnTxCommitPromote(t)
      PROVE  GuardHeld'
  BY <1>9, Zenon DEF OnTxCommit, OnTxCommitPromote
<1> QED
  BY <1>1, <1>2, <1>3, <1>4, <1>5, <1>6, <1>7, <1>8, <1>9, Zenon DEF Next, ThreadStep

\* The invariant behind FirstCommitterWins is inductive.
LEMMA CommitInvStep ==
  ASSUME TypeOK, HistoryRetained, CommitInv, [Next]_vars
  PROVE  CommitInv'
<1>1. GuardHeld'
  BY GuardStep, Zenon DEF CommitInv
<1>t. /\ ssi_contexts \in [Txn -> SsiTxn \cup {NoContext}]
      /\ promoted \in [Txn -> SsiTxn \cup {NoContext}]
      /\ peers \in [Txn -> SUBSET CommitEntry]
      /\ pc = [t \in Txn |-> pc[t]]
  BY Zenon DEF TypeOK, ETypeOK, MTypeOK
<1> USE <1>t DEF Goto
<1>2. CASE UNCHANGED vars
  BY <1>1, <1>2, CommitFrame, Zenon DEF vars, mvars, evars, Registered
<1>3. ASSUME NEW t \in Txn, Begin(t) \/ BeginSsi(t) \/ TryCommitRefused(t)
                              \/ TryCommit(t)
      PROVE  CommitInv'
  <2>1. /\ UNCHANGED <<ssi_contexts, peers, promoted>>
        /\ \A u \in Txn \ {t} : pc'[u] = pc[u]
        /\ pc[t] \in {"idle", "open"}
        /\ pc'[t] \in {"open", "begin", "lock"}
        /\ pc'[t] = "begin" => pc[t] = "idle"
    BY <1>3, Zenon DEF Begin, BeginSsi, TryCommitRefused, TryCommit, CanAttempt,
                Usable, mvars
  <2> QED
    BY <1>1, <2>1, CommitFrame, Zenon DEF AfterValidation, Registered
<1>4. ASSUME NEW t \in Txn, NEW k \in Key, Get(t, k) \/ Put(t, k)
      PROVE  CommitInv'
  <2>1. pc[t] = "open" /\ pc'[t] \in {"open", "reading"}
          /\ \A u \in Txn \ {t} : pc'[u] = pc[u]
    BY <1>4, Zenon DEF Get, Put, Usable
  <2>2. /\ UNCHANGED <<peers, promoted>>
        /\ \A u \in Txn \ {t} : ssi_contexts'[u] = ssi_contexts[u]
        /\ Registered(t)' => Registered(t)
    BY <1>4, Zenon DEF Get, Put, Tracked, mvars, RecordRead, RecordWrite,
                UpdateContext, Registered
  <2> QED
    BY <1>1, <2>1, <2>2, CommitFrame, Zenon DEF AfterValidation, Registered
<1>5. ASSUME NEW t \in Txn, NEW r \in ScanRange, Scan(t, r)
      PROVE  CommitInv'
  <2>1. pc[t] = "open" /\ pc'[t] = "reading"
          /\ \A u \in Txn \ {t} : pc'[u] = pc[u]
    BY <1>5, Zenon DEF Scan, Usable
  <2>2. /\ UNCHANGED <<peers, promoted>>
        /\ \A u \in Txn \ {t} : ssi_contexts'[u] = ssi_contexts[u]
        /\ Registered(t)' => Registered(t)
    BY <1>5, Zenon DEF Scan, Tracked, mvars, AddReadConflictRange, UpdateContext,
                Registered
  <2> QED
    BY <1>1, <2>1, <2>2, CommitFrame, Zenon DEF AfterValidation, Registered
<1>6. ASSUME NEW t \in Txn, DropHandle(t) \/ DropHandleFinish(t)
      PROVE  CommitInv'
  <2>1. /\ UNCHANGED <<pc, peers, promoted>>
        /\ \A u \in Txn : ssi_contexts'[u] \in {ssi_contexts[u], NoContext}
    BY <1>6, Zenon DEF DropHandle, DropHandleFinish, Abort, FinishAbort, mvars, evars
  <2> QED
    BY <1>1, <2>1, CommitFrame, Zenon DEF Registered
<1>7. ASSUME NEW t \in Txn, LockGuard(t) \/ ReadNext(t) \/ BeginSsiHandle(t)
      PROVE  CommitInv'
  <2>1. /\ UNCHANGED <<ssi_contexts, peers, promoted>>
        /\ pc[t] \in {"lock", "reading", "begin"}
        /\ pc'[t] \in {"precommit", "open", "reading", "register"}
        /\ pc'[t] = "register" => pc[t] = "begin"
        /\ \A u \in Txn \ {t} : pc'[u] = pc[u]
    BY <1>7, Zenon DEF LockGuard, ReadNext, BeginSsiHandle, BeginWithId, mvars
  <2> QED
    BY <1>1, <2>1, CommitFrame, Zenon DEF AfterValidation, Registered
<1>8. ASSUME NEW t \in Txn, BeginSsiContext(t)
      PROVE  CommitInv'
  <2>1. promoted[t] = NoContext
    BY <1>8, Zenon DEF BeginSsiContext, CommitInv, PromotedOnce
  <2>2. /\ UNCHANGED <<peers, promoted>>
        /\ \A u \in Txn \ {t} : /\ ssi_contexts'[u] = ssi_contexts[u]
                                /\ pc'[u] = pc[u]
        /\ pc'[t] = "open"
    BY <1>8, Zenon DEF BeginSsiContext, InsertContext
  <2>3. StillValid'
    BY <2>2, ZenonT(40) DEF CommitInv, StillValid, AfterValidation, Registered,
                CheckConflict, WriteSetHitsReads, InRange
  <2>4. PromotedOnce' /\ FirstCommitterWins'
    BY <2>1, <2>2, ZenonT(40) DEF CommitInv, PromotedOnce, FirstCommitterWins, Registered,
                      CheckConflict, WriteSetHitsReads, InRange
  <2> QED
    BY <1>1, <2>3, <2>4, Zenon DEF CommitInv
<1>9. ASSUME NEW t \in Txn, PreCommitState(t) \/ PreCommitMarkRejected(t)
                              \/ PreCommitDropRejected(t)
      PROVE  CommitInv'
  <2>1. /\ UNCHANGED <<peers, promoted>>
        /\ \A u \in Txn : ssi_contexts'[u] \in {ssi_contexts[u], NoContext}
        /\ \A u \in Txn : pc'[u] = pc[u] \/ pc'[u] \in {"probe", "open"}
    BY <1>9, Zenon DEF PreCommitState, PreCommitMarkRejected, PreCommitDropRejected,
                MarkRejected, DropRejected, Fail, mvars, evars
  <2> QED
    BY <1>1, <2>1, CommitFrame, Zenon DEF AfterValidation, Registered
<1>10. ASSUME NEW t \in Txn, PreCommitProbe(t)
       PROVE  CommitInv'
  BY <1>1, <1>10, CommitFrame, Zenon
  DEF PreCommitProbe, AfterValidation, Registered, mvars
<1>11. ASSUME NEW t \in Txn, PreCommitValidate(t)
       PROVE  CommitInv'
  <2>1. CASE ~Registered(t)
    <3>1. /\ UNCHANGED <<ssi_contexts, peers, promoted>>
          /\ \A u \in Txn \ {t} : pc'[u] = pc[u]
          /\ pc'[t] \in {"open", "wal"}
      BY <1>11, <2>1, Zenon DEF PreCommitValidate, Fail, mvars
    <3> QED
      BY <1>1, <2>1, <3>1, CommitFrame, Zenon DEF AfterValidation, Registered
  <2>2. CASE Registered(t)
    <3>1. /\ UNCHANGED <<peers, promoted>>
          /\ ssi_contexts' = WithWrites(t, mutations[t])
          /\ \A u \in Txn \ {t} : pc'[u] = pc[u]
          /\ \/ pc'[t] = "wal" /\ ValidateSsi(t, WithWrites(t, mutations[t]))
             \/ pc'[t] = "validate"
      BY <1>11, <2>2, Zenon DEF PreCommitValidate, RecordWriteAndValidate
    <3>2. \A u \in Txn \ {t} : ssi_contexts'[u] = ssi_contexts[u]
      BY <3>1, Zenon DEF WithWrites
    <3>3. pc'[t] = "wal" => \A e \in peers[t] : ~CheckConflict(ssi_contexts'[t], e)
      BY <2>2, <3>1, ValidatedAgainstPeers, ZenonT(30)
    <3> HIDE DEF TypeOK, ETypeOK, MTypeOK
    <3>4. StillValid'
      <4>1. \A u \in Txn \ {t} :
              pc'[u] \in AfterValidation /\ ssi_contexts'[u] # NoContext =>
                \A e \in peers'[u] : ~CheckConflict(ssi_contexts'[u], e)
        BY <3>1, <3>2, Zenon DEF CommitInv, StillValid, Registered
      <4>2. pc'[t] \in AfterValidation =>
              \A e \in peers'[t] : ~CheckConflict(ssi_contexts'[t], e)
        BY <3>1, <3>3, Zenon DEF AfterValidation
      <4> QED
        BY <4>1, <4>2, Zenon
        DEF StillValid, Registered, CheckConflict, WriteSetHitsReads, InRange
    <3>5. PromotedOnce'
      <4>1. promoted'[t] = NoContext
        BY <2>2, <3>1, Zenon DEF CommitInv, PromotedOnce
      <4>2. \A u \in Txn \ {t} : promoted'[u] # NoContext =>
              /\ ssi_contexts'[u] = NoContext
              /\ pc'[u] \notin {"idle", "begin", "register"}
        BY <3>1, <3>2, Zenon DEF CommitInv, PromotedOnce, Registered
      <4> QED
        BY <4>1, <4>2, Zenon DEF PromotedOnce, Registered
    <3>6. FirstCommitterWins'
      BY <3>1, Zenon
      DEF CommitInv, FirstCommitterWins, CheckConflict, WriteSetHitsReads, InRange
    <3> QED
      BY <1>1, <3>4, <3>5, <3>6, Zenon DEF CommitInv
  <2> QED
    BY <2>1, <2>2, Zenon
<1>12. ASSUME NEW t \in Txn, WalAppend(t) \/ AssignCommitTs(t)
                               \/ ApplyMutation(t) \/ OnTxCommit(t)
       PROVE  CommitInv'
  <2>1. /\ UNCHANGED <<ssi_contexts, peers, promoted>>
        /\ pc[t] \in AfterValidation
        /\ pc'[t] \in AfterValidation \cup {"open"}
        /\ \A u \in Txn \ {t} : pc'[u] = pc[u]
    BY <1>12, Zenon DEF WalAppend, AssignCommitTs, ApplyMutation, OnTxCommit,
                 CommitAt, Fail, mvars, AfterValidation
  <2> QED
    BY <1>1, <2>1, CommitFrame, Zenon DEF AfterValidation, Registered
<1>13. ASSUME NEW t \in Txn, OnTxCommitPromote(t)
       PROVE  CommitInv'
  <2>1. /\ pc[t] = "promote" /\ pc'[t] = "open"
        /\ \A u \in Txn \ {t} : pc'[u] = pc[u] /\ pc[u] \notin InGuard
    BY <1>13, Zenon DEF OnTxCommitPromote, CommitInv, GuardHeld, InGuard
  <2>2. CASE ~Registered(t)
    <3>1. UNCHANGED <<ssi_contexts, peers, promoted>>
      BY <1>13, <2>2, Zenon DEF OnTxCommitPromote, Promote
    <3> QED
      BY <1>1, <2>1, <3>1, CommitFrame, Zenon DEF AfterValidation, Registered
  <2>3. CASE Registered(t)
    <3>1. /\ promoted' = [promoted EXCEPT ![t] = ssi_contexts[t]]
          /\ ssi_contexts' = [ssi_contexts EXCEPT ![t] = NoContext]
          /\ \A u \in Txn : (u = t \/ ~Registered(u)) => peers'[u] = peers[u]
      BY <1>13, <2>3, SMTT(30) DEF OnTxCommitPromote, Promote
    <3>2. StillValid'
      BY <2>1, ZenonT(30) DEF StillValid, AfterValidation, InGuard
    <3>3. PromotedOnce'
      BY <2>1, <3>1, Zenon DEF CommitInv, PromotedOnce, Registered
    <3>4. ASSUME NEW u \in Txn, promoted'[u] # NoContext, NEW e \in peers'[u]
          PROVE  ~CheckConflict(promoted'[u], e)
      <4>1. CASE u = t
        <5>1. promoted'[u] = ssi_contexts[u] /\ peers'[u] = peers[u]
          BY <3>1, <4>1, Zenon
        <5>2. pc[u] \in AfterValidation
          BY <2>1, <4>1, Zenon DEF AfterValidation
        <5> QED
          BY <2>3, <3>4, <4>1, <5>1, <5>2, Zenon DEF CommitInv, StillValid
      <4>2. CASE u # t
        <5>1. promoted'[u] = promoted[u]
          BY <3>1, <4>2, Zenon
        <5>2. peers'[u] = peers[u]
          BY <3>1, <3>4, <5>1, Zenon DEF CommitInv, PromotedOnce
        <5> QED
          BY <3>4, <5>1, <5>2, Zenon DEF CommitInv, FirstCommitterWins
      <4> QED
        BY <4>1, <4>2, Zenon
    <3>5. FirstCommitterWins'
      BY <3>4, Zenon DEF FirstCommitterWins, CheckConflict, WriteSetHitsReads, InRange
    <3> QED
      BY <1>1, <3>2, <3>3, <3>5, SMTT(30) DEF CommitInv
  <2> QED
    BY <2>2, <2>3
<1> QED
  BY <1>2, <1>3, <1>4, <1>5, <1>6, <1>7, <1>8, <1>9, <1>10, <1>11, <1>12, <1>13, Zenon
  DEF Next, ClientStep, ThreadStep

\* For any number of transactions and keys: a serializable transaction that
\* reaches the commit history conflicts with nothing that was promoted while it
\* was registered.
THEOREM FirstCommitterAlwaysWins == Spec => []FirstCommitterWins
<1>1. Init => CommitInv
  BY DEF Init, MInit, CommitInv, GuardHeld, StillValid, PromotedOnce,
         FirstCommitterWins, InGuard, AfterValidation, Registered
<1>2. TypeOK /\ HistoryRetained /\ CommitInv /\ [Next]_vars => CommitInv'
  BY CommitInvStep, Zenon
<1>3. CommitInv => FirstCommitterWins
  BY Zenon DEF CommitInv
<1> QED
  BY <1>1, <1>2, <1>3, TypeCorrect, ProgramRetainsHistory, PTL DEF Spec

-----------------------------------------------------------------------------
(* Order of the commit history *)

AfterTimestamp == {"apply", "hook", "promote"}

\* Timestamps are handed out under write_guard and promoted under the same
\* hold of it: the one in flight is above everything in the history.
TimestampsAbove ==
  /\ \A i \in 1..Len(commit_history) :
       commit_history[i].commit_ts < commit_seq
  /\ \A t \in Txn : pc[t] \in AfterTimestamp =>
       /\ commit_ts[t] < commit_seq
       /\ \A i \in 1..Len(commit_history) :
            commit_history[i].commit_ts < commit_ts[t]
  /\ \A t \in Txn : pc[t] = "promote" => pending_ts[t] = commit_ts[t]

OrderInv == TimestampsAbove /\ HistoryOrdered

\* Steps that leave the history, the timestamps and the threads past the
\* timestamp alone keep the order.
LEMMA OrderFrame ==
  ASSUME OrderInv, UNCHANGED <<commit_history, commit_seq, commit_ts>>,
         \A t \in Txn : pc'[t] \in AfterTimestamp => pc[t] \in AfterTimestamp,
         \A t \in Txn : pc'[t] = "promote" =>
           pc[t] = "promote" /\ pending_ts'[t] = pending_ts[t]
  PROVE  OrderInv'
  BY Zenon DEF OrderInv, TimestampsAbove, HistoryOrdered

\* commit_at appends above everything, and collecting garbage keeps a suffix.
LEMMA OrderPromote ==
  ASSUME TypeOK, GuardHeld, OrderInv, NEW t \in Txn, OnTxCommitPromote(t),
         Registered(t)
  PROVE  OrderInv'
<1> DEFINE entry == [write_set |-> ssi_contexts[t].write_set,
                     commit_ts |-> pending_ts[t]]
           left == {u \in Txn \ {t} : Registered(u)}
           ring == Append(commit_history, entry)
           N == Len(commit_history)
<1>1. /\ GarbageCollect(ring, left, commit_history')
      /\ UNCHANGED <<commit_seq, commit_ts>>
      /\ pc[t] = "promote"
      /\ pc' = [pc EXCEPT ![t] = "open"]
  BY Zenon DEF OnTxCommitPromote, Promote, Goto
<1>2. entry \in CommitEntry /\ commit_history \in Seq(CommitEntry)
  BY Zenon DEF TypeOK, MTypeOK, Registered, CommitEntry, SsiTxn
<1>3. /\ ring \in Seq(CommitEntry)
      /\ Len(ring) = N + 1
      /\ \A i \in 1..N : ring[i] = commit_history[i]
      /\ ring[N + 1] = entry
      /\ N \in Nat
  BY <1>2, SMTT(30)
<1>4. /\ entry.commit_ts = commit_ts[t]
      /\ \A i \in 1..N : ring[i].commit_ts < commit_ts[t]
      /\ commit_ts[t] < commit_seq
  BY <1>1, <1>3, ZenonT(30) DEF OrderInv, TimestampsAbove, AfterTimestamp
<1>5. \A i \in 1..N : ring[i].commit_ts < commit_seq
  BY <1>3, Zenon DEF OrderInv, TimestampsAbove
<1>6. \A i, j \in 1..N : i < j => ring[i].commit_ts < ring[j].commit_ts
  BY <1>3, Zenon DEF OrderInv, HistoryOrdered
<1> HIDE DEF entry, left, ring
<1>7. \A i, j \in 1..Len(ring) : i < j => ring[i].commit_ts < ring[j].commit_ts
  BY <1>3, <1>4, <1>6
<1>8. \A i \in 1..Len(ring) : ring[i].commit_ts < commit_seq
  BY <1>3, <1>4, <1>5
<1>9. PICK n \in 0..Len(ring) :
        /\ Len(commit_history') = Len(ring) - n
        /\ \A m \in 1..Len(commit_history') : commit_history'[m] = ring[n + m]
  <2>1. GarbageCollect(ring, left, commit_history') /\ ring \in Seq(CommitEntry)
    BY <1>1, <1>3, Zenon
  <2> QED
    BY <2>1, GarbageCollectSuffix
<1>10. HistoryOrdered'
  BY <1>3, <1>7, <1>9, SMTT(30) DEF HistoryOrdered
<1>11. \A u \in Txn : pc'[u] \notin AfterTimestamp
  BY <1>1, Zenon DEF TypeOK, ETypeOK, GuardHeld, AfterTimestamp, InGuard
<1>12. TimestampsAbove'
  <2>1. \A m \in 1..Len(commit_history') : n + m \in 1..Len(ring)
    BY <1>3, <1>9
  <2>2. \A m \in 1..Len(commit_history') :
          commit_history'[m].commit_ts < commit_seq'
    BY <1>1, <1>8, <1>9, <2>1, Zenon
  <2> QED
    BY <1>11, <2>2, Zenon DEF TimestampsAbove, AfterTimestamp
<1> QED
  BY <1>10, <1>12, Zenon DEF OrderInv

\* The invariant behind HistoryOrdered is inductive.
LEMMA OrderStep ==
  ASSUME TypeOK, GuardHeld, OrderInv, [Next]_vars
  PROVE  OrderInv'
<1> USE DEF Goto, AfterTimestamp
<1>0. /\ pc \in [Txn -> {"idle", "begin", "register", "open", "reading", "lock"}
                             \cup InGuard]
      /\ pending_ts \in [Txn -> Ts]
      /\ commit_ts \in [Txn -> Ts]
      /\ commit_seq \in Nat
      /\ commit_history \in Seq(CommitEntry)
  BY Zenon DEF TypeOK, ETypeOK, MTypeOK
<1>1. CASE UNCHANGED vars
  BY <1>1, OrderFrame, Zenon DEF vars, mvars, evars
<1>2. ASSUME NEW t \in Txn, Begin(t) \/ BeginSsi(t) \/ TryCommitRefused(t)
                              \/ TryCommit(t) \/ LockGuard(t) \/ ReadNext(t)
      PROVE  OrderInv'
  <2>1. UNCHANGED <<commit_history, commit_seq, commit_ts, pending_ts>>
    BY <1>2, ZenonT(30)
    DEF Begin, BeginSsi, TryCommitRefused, TryCommit, LockGuard, ReadNext, mvars
  <2>2. \E l \in {"open", "begin", "lock", "precommit", "reading"} :
          pc' = [pc EXCEPT ![t] = l] \/ pc' = pc
    BY <1>2, Zenon
    DEF Begin, BeginSsi, TryCommitRefused, TryCommit, LockGuard, ReadNext
  <2> QED
    BY <1>0, <2>1, <2>2, OrderFrame, Zenon
<1>3. ASSUME NEW t \in Txn, NEW k \in Key, Get(t, k) \/ Put(t, k)
      PROVE  OrderInv'
  BY <1>0, <1>3, OrderFrame, Zenon
  DEF Get, Put, mvars, RecordRead, RecordWrite, UpdateContext
<1>4. ASSUME NEW t \in Txn, NEW r \in ScanRange, Scan(t, r)
      PROVE  OrderInv'
  BY <1>0, <1>4, OrderFrame, Zenon DEF Scan, mvars, AddReadConflictRange, UpdateContext
<1>5. ASSUME NEW t \in Txn, DropHandle(t) \/ DropHandleFinish(t)
      PROVE  OrderInv'
  BY <1>0, <1>5, OrderFrame, Zenon
  DEF DropHandle, DropHandleFinish, Abort, FinishAbort, mvars, evars
<1>6. ASSUME NEW t \in Txn, BeginSsiHandle(t) \/ BeginSsiContext(t)
      PROVE  OrderInv'
  BY <1>0, <1>6, OrderFrame, ZenonT(30)
  DEF BeginSsiHandle, BeginSsiContext, BeginWithId, InsertContext
<1>7. ASSUME NEW t \in Txn, PreCommitState(t) \/ PreCommitProbe(t)
                              \/ PreCommitMarkRejected(t)
                              \/ PreCommitDropRejected(t) \/ WalAppend(t)
      PROVE  OrderInv'
  BY <1>0, <1>7, OrderFrame, Zenon
  DEF PreCommitState, PreCommitProbe, PreCommitMarkRejected,
      PreCommitDropRejected, WalAppend, MarkRejected, DropRejected, Fail, mvars,
      evars
<1>8. ASSUME NEW t \in Txn, PreCommitValidate(t)
      PROVE  OrderInv'
  BY <1>0, <1>8, OrderFrame, Zenon
  DEF PreCommitValidate, RecordWriteAndValidate, Fail, mvars
<1>9. ASSUME NEW t \in Txn, AssignCommitTs(t)
      PROVE  OrderInv'
  <2>1. \A u \in Txn \ {t} : pc'[u] \notin AfterTimestamp
    BY <1>0, <1>9, Zenon DEF AssignCommitTs, GuardHeld, InGuard
  <2>2. /\ UNCHANGED commit_history
        /\ commit_seq' = commit_seq + 1
        /\ commit_ts'[t] = commit_seq
        /\ pc'[t] = "apply"
        /\ commit_seq \in Nat
    BY <1>0, <1>9, Zenon DEF AssignCommitTs, mvars
  <2>3. Len(commit_history) \in Nat
          /\ \A i \in 1..Len(commit_history) :
               commit_history[i].commit_ts \in Nat
    <3>1. Len(commit_history) \in Nat
            /\ \A i \in 1..Len(commit_history) : commit_history[i] \in CommitEntry
      BY <1>0
    <3> QED
      BY <3>1, TsAssumption, Zenon DEF CommitEntry
  <2>4. TimestampsAbove'
    <3>1. \A i \in 1..Len(commit_history) :
            commit_history[i].commit_ts < commit_seq
      BY Zenon DEF OrderInv, TimestampsAbove
    <3>2. \A i \in 1..Len(commit_history') :
            commit_history'[i].commit_ts < commit_seq'
      BY <2>2, <2>3, <3>1
    <3>3. /\ commit_ts'[t] < commit_seq'
          /\ \A i \in 1..Len(commit_history') :
               commit_history'[i].commit_ts < commit_ts'[t]
      BY <2>2, <3>1
    <3>4. \A u \in Txn : pc'[u] \in AfterTimestamp => u = t
      BY <2>1, Zenon
    <3>5. \A u \in Txn : pc'[u] # "promote"
      BY <2>2, <3>4, Zenon
    <3> QED
      BY <3>2, <3>3, <3>4, <3>5, Zenon DEF TimestampsAbove
  <2>5. HistoryOrdered'
    BY <2>2, Zenon DEF OrderInv, HistoryOrdered
  <2> QED
    BY <2>4, <2>5, Zenon DEF OrderInv
<1>10. ASSUME NEW t \in Txn, ApplyMutation(t)
       PROVE  OrderInv'
  BY <1>0, <1>10, OrderFrame, Zenon DEF ApplyMutation, mvars
<1>11. ASSUME NEW t \in Txn, OnTxCommit(t)
       PROVE  OrderInv'
  <2>1. CASE transactions[t] # "Active"
    BY <1>0, <1>11, <2>1, OrderFrame, Zenon DEF OnTxCommit, mvars
  <2>2. CASE transactions[t] = "Active"
    <3>1. /\ UNCHANGED <<commit_history, commit_seq, commit_ts>>
          /\ pending_ts' = [pending_ts EXCEPT ![t] = commit_ts[t]]
          /\ pc' = [pc EXCEPT ![t] = "promote"]
          /\ pc[t] = "hook"
      BY <1>11, <2>2, Zenon DEF OnTxCommit, CommitAt
    <3>2. \A u \in Txn : pc'[u] \in AfterTimestamp => pc[u] \in AfterTimestamp
      BY <1>0, <3>1, Zenon DEF AfterTimestamp
    <3>3. \A u \in Txn : pc'[u] = "promote" => pending_ts'[u] = commit_ts'[u]
      <4>1. \A u \in Txn : u # t /\ pc[u] = "promote" => pending_ts[u] = commit_ts[u]
        BY Zenon DEF OrderInv, TimestampsAbove
      <4> QED
        BY <1>0, <3>1, <4>1, Zenon
    <3>4. TimestampsAbove'
      BY <3>1, <3>2, <3>3, Zenon DEF OrderInv, TimestampsAbove
    <3> QED
      BY <3>1, <3>4, Zenon DEF OrderInv, HistoryOrdered
  <2> QED
    BY <2>1, <2>2, Zenon
<1>12. ASSUME NEW t \in Txn, OnTxCommitPromote(t)
       PROVE  OrderInv'
  <2>1. CASE Registered(t)
    BY <1>12, <2>1, OrderPromote, Zenon
  <2>2. CASE ~Registered(t)
    BY <1>0, <1>12, <2>2, OrderFrame, Zenon DEF OnTxCommitPromote, Promote
  <2> QED
    BY <2>1, <2>2, Zenon
<1> QED
  BY <1>1, <1>2, <1>3, <1>4, <1>5, <1>6, <1>7, <1>8, <1>9, <1>10, <1>11, <1>12, Zenon
  DEF Next, ClientStep, ThreadStep

\* The commit history is strictly ordered by commit timestamp, so that popping
\* its front up to the watermark collects exactly the entries at or below it.
THEOREM HistoryStaysOrdered == Spec => []HistoryOrdered
<1>1. Init => GuardHeld /\ OrderInv
  BY DEF Init, MInit, GuardHeld, OrderInv, TimestampsAbove, HistoryOrdered,
         InGuard, AfterTimestamp
<1>2. TypeOK /\ GuardHeld /\ [Next]_vars => GuardHeld'
  BY GuardStep, Zenon
<1>3. TypeOK /\ GuardHeld /\ OrderInv /\ [Next]_vars => OrderInv'
  BY OrderStep, Zenon
<1>4. OrderInv => HistoryOrdered
  BY Zenon DEF OrderInv
<1> QED
  BY <1>1, <1>2, <1>3, <1>4, TypeCorrect, PTL DEF Spec
=============================================================================
