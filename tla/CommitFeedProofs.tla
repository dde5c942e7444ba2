-------------------------- MODULE CommitFeedProofs --------------------------
(***************************************************************************)
(* What the watcher's resolved timestamp and the write throttle guarantee, *)
(* for any number of writers, waiters and commits and any limit.           *)
(***************************************************************************)
EXTENDS CommitFeed, FiniteSetTheorems, SequenceTheorems, TLAPS

\* Where a writer has the write guard.
Guarded == {"logged", "applied", "resolved", "sent", "notified"}

\* The writers that have yet to add to the memtable, and the one that has added
\* to it and not yet to the gauge.
Adding == {x \in Writer : writer[x].pc \in {"admitted", "logged"}}
Unmeasured(x) == writer[x].pc \in {"applied", "resolved", "sent", "notified"}

\* Types of what the argument looks at.
FeedTypes ==
  /\ sync_mode \in SyncModes
  /\ writer \in [Writer -> [pc : {"idle", "admitted"} \cup Guarded, ts : Nat, event : BOOLEAN]]
  /\ sub.on \in BOOLEAN
  /\ sub = [on |-> sub.on, queue |-> sub.queue, lagged |-> sub.lagged, got |-> sub.got,
            since |-> sub.since]
  /\ commit_seq \in Nat /\ logged \in Nat /\ synced \in Nat /\ applied \in Nat
  /\ resolved \in Nat /\ memtable_bytes \in Nat /\ gauge \in Nat

\* One writer is past the guard.
Exclusive ==
  \A x, y \in Writer : writer[x].pc \in Guarded /\ writer[y].pc \in Guarded => x = y

\* It carries the latest timestamp, which is applied from its Apply on; in full
\* mode the log is synced up to there.
InOrder ==
  /\ logged = commit_seq - 1 /\ applied <= logged /\ resolved <= applied
  /\ \A x \in Writer : writer[x].pc \in Guarded => writer[x].ts = logged
  /\ \A x \in Writer : Unmeasured(x) => applied = logged
  /\ sync_mode = "full" => synced = logged

\* The gauge is behind the memtable by the commit that is not measured yet.
GaugeFollows ==
  /\ memtable_bytes <= gauge + 1
  /\ (\A x \in Writer : ~Unmeasured(x)) => memtable_bytes <= gauge

\* What the memtable holds and what the admitted writers will add to it.
RoomLeft == memtable_bytes + Cardinality(Adding) < HardBytes + Cardinality(Writer)

FeedInv == FeedTypes /\ Exclusive /\ InOrder /\ GaugeFollows /\ RoomLeft

\* Sets of writers are finite.
LEMMA WriterSets ==
  ASSUME NEW S \in SUBSET Writer
  PROVE  /\ IsFiniteSet(S) /\ Cardinality(S) \in Nat /\ Cardinality(Writer) \in Nat
         /\ Cardinality(S) <= Cardinality(Writer)
  BY FeedAssumption, FS_Subset, FS_CardinalityType, Zenon DEF FeedAssumption

\* It holds when the database is opened.
LEMMA FeedInit == Init => FeedInv
<1> SUFFICES ASSUME Init PROVE FeedInv
  BY Zenon
<1> USE DEF Init, WInit, Resting
<1>1. FeedTypes
  BY Zenon DEF FeedTypes, Guarded
<1>2. Exclusive /\ InOrder /\ GaugeFollows
  BY DEF Exclusive, InOrder, GaugeFollows, Guarded, Unmeasured
<1>3. RoomLeft
  <2>1. Adding = {}
    BY Zenon DEF Adding
  <2> QED
    BY <2>1, FS_EmptySet, WriterSets, FeedAssumption DEF RoomLeft, FeedAssumption
<1> QED
  BY <1>1, <1>2, <1>3, Zenon DEF FeedInv

\* A step that moves no writer and neither fills the memtable nor lowers the
\* gauge.
LEMMA QuietStep ==
  ASSUME FeedInv, UNCHANGED <<sync_mode, commit_seq, logged, applied, resolved, gauge, writer>>,
         synced' \in Nat, sync_mode = "full" => synced' = synced,
         memtable_bytes' \in {0, memtable_bytes},
         sub' = [on |-> sub'.on, queue |-> sub'.queue, lagged |-> sub'.lagged,
                 got |-> sub'.got, since |-> sub'.since], sub'.on \in BOOLEAN
  PROVE  FeedInv'
<1> USE DEF FeedInv
<1>1. memtable_bytes \in Nat /\ memtable_bytes' \in Nat /\ memtable_bytes' <= memtable_bytes
  BY DEF FeedTypes
<1>2. FeedTypes'
  BY <1>1, Zenon DEF FeedTypes
<1>3. Exclusive'
  BY Zenon DEF Exclusive
<1>4. InOrder'
  BY Zenon DEF InOrder, Unmeasured
<1>5. GaugeFollows'
  <2>1. gauge \in Nat /\ gauge' = gauge
    BY Zenon DEF FeedTypes
  <2>2. \A x \in Writer : Unmeasured(x)' = Unmeasured(x)
    BY Zenon DEF Unmeasured
  <2> QED
    BY <1>1, <2>1, <2>2 DEF GaugeFollows
<1>6. RoomLeft'
  <2>1. Adding' = Adding /\ Adding \in SUBSET Writer
    BY Zenon DEF Adding
  <2> HIDE DEF FeedInv
  <2>2. RoomLeft
    BY Zenon DEF FeedInv
  <2> QED
    BY <1>1, <2>1, <2>2, WriterSets, FeedAssumption DEF RoomLeft, FeedAssumption
<1> QED
  BY <1>2, <1>3, <1>4, <1>5, <1>6, Zenon

\* Steps of flush, the group-sync thread and the watcher's clients.
LEMMA OtherStep ==
  ASSUME FeedInv, FlushDrain \/ FlushClear \/ GroupSync \/ WatcherClient
  PROVE  FeedInv'
<1>0. FeedTypes
  BY Zenon DEF FeedInv
<1>1. CASE FlushDrain
  BY <1>0, <1>1, QuietStep, Zenon DEF FlushDrain, watchvars, FeedTypes
<1>2. CASE FlushClear
  BY <1>0, <1>2, QuietStep, Zenon DEF FlushClear, watchvars, FeedTypes
<1>3. CASE GroupSync
  BY <1>0, <1>3, QuietStep, Zenon DEF GroupSync, watchvars, FeedTypes
<1>4. CASE WatcherClient
  <2> USE DEF feedvars, watchvars
  <2>1. UNCHANGED feedvars
    BY <1>4, Zenon DEF WatcherClient
  <2>2. CASE \E w \in Waiter : CheckResolved(w) \/ Park(w)
    BY <1>0, <2>1, <2>2, QuietStep, Zenon DEF CheckResolved, Park, FeedTypes
  <2>3. CASE \E w \in Waiter, ts \in WaitFor : CallWait(w, ts)
    BY <1>0, <2>1, <2>3, QuietStep, Zenon DEF CallWait, FeedTypes
  <2>4. CASE Subscribe(commit_seq)
    BY <1>0, <2>1, <2>4, QuietStep, Zenon DEF Subscribe, FeedTypes
  <2>5. CASE Receive
    BY <1>0, <2>1, <2>5, QuietStep, Zenon DEF Receive, FeedTypes
  <2> QED
    BY <1>4, <2>2, <2>3, <2>4, <2>5, Zenon DEF WatcherClient
<1> QED
  BY <1>1, <1>2, <1>3, <1>4, Zenon

\* Admission: the gauge is below the limit, so the memtable is at most at it, and
\* exactly at it only if a writer that adds nothing more has the guard.
LEMMA AdmitStep ==
  ASSUME FeedInv, NEW x \in Writer, Admit(x)
  PROVE  FeedInv'
<1>0. FeedTypes /\ Exclusive /\ InOrder /\ GaugeFollows /\ RoomLeft
  BY Zenon DEF FeedInv
<1> USE DEF Admit, At, watchvars
<1>1. FeedTypes'
  BY <1>0 DEF FeedTypes, Guarded
<1>2. \A y \in Writer : /\ writer'[y].pc \in Guarded <=> writer[y].pc \in Guarded
                        /\ Unmeasured(y)' <=> Unmeasured(y)
                        /\ writer'[y].ts = writer[y].ts
  BY <1>0, Zenon DEF FeedTypes, Guarded, Unmeasured
<1>3. Exclusive' /\ InOrder'
  BY <1>0, <1>2, Zenon DEF Exclusive, InOrder
<1>4. memtable_bytes' = memtable_bytes /\ gauge' = gauge /\ memtable_bytes \in Nat
      /\ gauge \in Nat /\ gauge < HardBytes /\ HardBytes \in Nat
  BY <1>0, FeedAssumption DEF FeedTypes, ShouldThrottle, FeedAssumption
<1>5. GaugeFollows'
  BY <1>0, <1>2, <1>4, Zenon DEF GaugeFollows
<1>6. RoomLeft'
  <2>1. Adding' \in SUBSET Writer
    BY Zenon DEF Adding
  <2>2. CASE \A y \in Writer : ~Unmeasured(y)
    <3>1. memtable_bytes < HardBytes
      BY <1>0, <1>4, <2>2 DEF GaugeFollows
    <3> QED
      BY <1>4, <2>1, <3>1, WriterSets DEF RoomLeft
  <2>3. ASSUME NEW y \in Writer, Unmeasured(y) PROVE RoomLeft'
    <3>1. Adding' \in SUBSET (Writer \ {y})
      BY <1>2, <2>3, Zenon DEF Adding, Unmeasured
    <3>2. /\ IsFiniteSet(Writer \ {y})
          /\ Cardinality(Writer \ {y}) = Cardinality(Writer) - 1
      BY <2>3, FeedAssumption, FS_RemoveElement, Zenon DEF FeedAssumption
    <3>3. Cardinality(Adding') <= Cardinality(Writer) - 1
      BY <3>1, <3>2, FS_Subset
    <3>4. memtable_bytes <= gauge + 1
      BY <1>0, Zenon DEF GaugeFollows
    <3>5. Cardinality(Writer) \in Nat /\ Cardinality(Adding') \in Nat
      BY <2>1, WriterSets, Zenon
    <3> QED
      BY <1>4, <3>3, <3>4, <3>5 DEF RoomLeft
  <2> QED
    BY <2>2, <2>3, Zenon
<1> QED
  BY <1>1, <1>3, <1>5, <1>6, Zenon DEF FeedInv

\* The guard is taken: the newest timestamp goes to its holder.
LEMMA LogStep ==
  ASSUME FeedInv, NEW x \in Writer, Log(x)
  PROVE  FeedInv'
<1>0. FeedTypes /\ Exclusive /\ InOrder /\ GaugeFollows /\ RoomLeft
  BY DEF FeedInv
<1> USE DEF Log, watchvars
<1>1. FeedTypes'
  <2>1. commit_seq \in Nat /\ commit_seq' \in Nat /\ logged' \in Nat /\ synced' \in Nat
    BY <1>0 DEF FeedTypes
  <2>2. writer' \in [Writer -> [pc : {"idle", "admitted"} \cup Guarded, ts : Nat,
                               event : BOOLEAN]]
    BY <1>0, <2>1, ZenonT(40) DEF FeedTypes, Guarded
  <2> QED
    BY <1>0, <2>1, <2>2, Zenon DEF FeedTypes
<1>2. \A y \in Writer : writer[y].pc \notin Guarded
  BY Zenon DEF WriteGuardFree, Guarded
<1>3. \A y \in Writer : /\ writer'[y].pc \in Guarded => y = x
                        /\ ~Unmeasured(y) /\ ~Unmeasured(y)'
  BY <1>0, <1>2, Zenon DEF FeedTypes, Guarded, Unmeasured
<1>4. Exclusive'
  BY <1>3, Zenon DEF Exclusive
<1>5. InOrder'
  <2>1. writer'[x].ts = commit_seq
    BY <1>0, Zenon DEF FeedTypes
  <2> QED
    BY <1>0, <1>3, <2>1 DEF InOrder, FeedTypes
<1>6. GaugeFollows'
  BY <1>0, <1>3, Zenon DEF GaugeFollows
<1>7. RoomLeft'
  <2>1. Adding' = Adding
    BY <1>0, Zenon DEF Adding, FeedTypes
  <2> QED
    BY <1>0, <2>1, Zenon DEF RoomLeft
<1> QED
  BY <1>1, <1>4, <1>5, <1>6, <1>7, Zenon DEF FeedInv

\* What an admitted writer was counted with goes into the memtable.
LEMMA ApplyStep ==
  ASSUME FeedInv, NEW x \in Writer, Apply(x)
  PROVE  FeedInv'
<1>0. FeedTypes /\ Exclusive /\ InOrder /\ GaugeFollows /\ RoomLeft
  BY DEF FeedInv
<1> USE DEF Apply, At, watchvars
<1>1. FeedTypes'
  BY <1>0 DEF FeedTypes, Guarded
<1>2. \A y \in Writer : /\ writer'[y].pc \in Guarded <=> writer[y].pc \in Guarded
                        /\ writer[y].pc \in Guarded => y = x
                        /\ writer'[y].ts = writer[y].ts
                        /\ ~Unmeasured(y)
                        /\ Unmeasured(y)' => y = x
  BY <1>0 DEF FeedTypes, Guarded, Unmeasured, Exclusive
<1>3. Exclusive'
  BY <1>2, Zenon DEF Exclusive
<1>4. InOrder'
  <2>1. writer[x].ts = logged
    BY <1>0, Zenon DEF InOrder, Guarded
  <2> QED
    BY <1>0, <1>2, <2>1 DEF InOrder, FeedTypes
<1>5. GaugeFollows'
  <2>1. Unmeasured(x)'
    BY <1>0, Zenon DEF Unmeasured, FeedTypes
  <2> QED
    BY <1>0, <1>2, <2>1 DEF GaugeFollows, FeedTypes
<1>6. RoomLeft'
  <2>1. Adding' = Adding \ {x} /\ x \in Adding /\ Adding \in SUBSET Writer
    BY <1>0, Zenon DEF Adding, FeedTypes
  <2>2. Cardinality(Adding') = Cardinality(Adding) - 1
    BY <2>1, WriterSets, FS_RemoveElement, Zenon
  <2>3. Cardinality(Adding) \in Nat /\ Cardinality(Writer) \in Nat /\ HardBytes \in Nat
        /\ memtable_bytes \in Nat
    BY <1>0, <2>1, WriterSets, FeedAssumption, Zenon DEF FeedAssumption, FeedTypes
  <2> QED
    BY <1>0, <2>2, <2>3 DEF RoomLeft
<1> QED
  BY <1>1, <1>3, <1>4, <1>5, <1>6, Zenon DEF FeedInv

\* Publication, by the writer that has the guard: the timestamp it publishes is
\* the latest, and applied.
LEMMA PublishStep ==
  ASSUME FeedInv, NEW x \in Writer, Resolve(x) \/ Send(x) \/ Notify(x)
  PROVE  FeedInv'
<1>0. FeedTypes /\ Exclusive /\ InOrder /\ GaugeFollows /\ RoomLeft
  BY Zenon DEF FeedInv
<1> USE DEF AdvanceResolved, SendEvent, NotifyWaiters
<1>1. /\ writer' \in [Writer -> [pc : {"idle", "admitted"} \cup Guarded, ts : Nat,
                                event : BOOLEAN]]
      /\ writer[x].pc \in {"applied", "resolved", "sent"}
      /\ writer'[x].pc \in {"resolved", "sent", "notified"}
      /\ writer'[x].ts = writer[x].ts
      /\ \A y \in Writer \ {x} : writer'[y] = writer[y]
  <2>1. CASE Resolve(x)
    BY <1>0, <2>1, ZenonT(40) DEF Resolve, FeedTypes, Guarded
  <2>2. CASE Send(x)
    BY <1>0, <2>2, Zenon DEF Send, At, FeedTypes, Guarded
  <2>3. CASE Notify(x)
    BY <1>0, <2>3 DEF Notify, At, FeedTypes, Guarded
  <2> QED
    BY <2>1, <2>2, <2>3, Zenon
<1>2. /\ UNCHANGED <<sync_mode, commit_seq, logged, synced, applied, memtable_bytes, gauge>>
      /\ resolved' = resolved \/ (Resolve(x) /\ resolved' \in {resolved, writer[x].ts})
  BY Zenon DEF Resolve, Send, Notify
<1>3. sub' = [on |-> sub.on, queue |-> sub'.queue, lagged |-> sub'.lagged,
              got |-> sub'.got, since |-> sub'.since]
  BY <1>0, Zenon DEF Resolve, Send, Notify, FeedTypes
<1>4. FeedTypes'
  <2>1. resolved' \in Nat
    BY <1>0, <1>2, Zenon DEF FeedTypes
  <2> QED
    BY <1>0, <1>1, <1>2, <1>3, <2>1 DEF FeedTypes
<1>5. \A y \in Writer : /\ writer'[y].pc \in Guarded <=> writer[y].pc \in Guarded
                        /\ writer'[y].ts = writer[y].ts
                        /\ Unmeasured(y)' <=> Unmeasured(y)
  BY <1>1, Zenon DEF Guarded, Unmeasured
<1>6. Exclusive'
  BY <1>0, <1>5, Zenon DEF Exclusive
<1>7. resolved' <= applied
  <2>1. Resolve(x) => writer[x].ts = logged /\ applied = logged
    BY <1>0, Zenon DEF InOrder, Guarded, Unmeasured, Resolve
  <2>2. resolved <= applied
    BY <1>0, Zenon DEF InOrder
  <2> QED
    BY <1>0, <1>2, <2>1, <2>2 DEF FeedTypes
<1>8. InOrder'
  BY <1>0, <1>2, <1>5, <1>7, Zenon DEF InOrder
<1>9. GaugeFollows'
  BY <1>0, <1>2, <1>5, Zenon DEF GaugeFollows
<1>10. RoomLeft'
  <2>1. Adding' = Adding
    BY <1>1, Zenon DEF Adding
  <2> QED
    BY <1>0, <1>2, <2>1, Zenon DEF RoomLeft
<1> QED
  BY <1>4, <1>6, <1>8, <1>9, <1>10, Zenon DEF FeedInv

\* The gauge catches up before the guard is free.
LEMMA SetGaugeStep ==
  ASSUME FeedInv, NEW x \in Writer, SetGauge(x)
  PROVE  FeedInv'
<1>0. FeedTypes /\ Exclusive /\ InOrder /\ GaugeFollows /\ RoomLeft
  BY DEF FeedInv
<1> USE DEF SetGauge, watchvars, Resting
<1>1. FeedTypes'
  BY <1>0, Zenon DEF FeedTypes, Guarded
<1>2. \A y \in Writer : writer'[y].pc \notin Guarded /\ ~Unmeasured(y)'
  BY <1>0, Zenon DEF FeedTypes, Guarded, Unmeasured, Exclusive
<1>3. Exclusive' /\ InOrder'
  BY <1>0, <1>2, Zenon DEF Exclusive, InOrder
<1>4. GaugeFollows'
  BY <1>0 DEF GaugeFollows, FeedTypes
<1>5. RoomLeft'
  <2>1. Adding' = Adding
    BY <1>0, Zenon DEF Adding, FeedTypes
  <2> QED
    BY <1>0, <2>1, Zenon DEF RoomLeft
<1> QED
  BY <1>1, <1>3, <1>4, <1>5, Zenon DEF FeedInv

\* Every step preserves the invariant.
LEMMA FeedStep == FeedInv /\ [Next]_vars => FeedInv'
<1> SUFFICES ASSUME FeedInv, [Next]_vars PROVE FeedInv'
  BY Zenon
<1>1. CASE Next
  BY <1>1, AdmitStep, LogStep, ApplyStep, PublishStep, SetGaugeStep, OtherStep, Zenon DEF Next
<1>2. CASE UNCHANGED vars
  <2>1. FeedTypes
    BY Zenon DEF FeedInv
  <2> QED
    BY <1>2, <2>1, QuietStep, Zenon DEF vars, feedvars, watchvars, FeedTypes
<1> QED
  BY <1>1, <1>2, Zenon

\* resolved_ts never runs ahead of the memtable or, in full sync mode, of the
\* disk: what a task that waited for a commit reads is there, however many
\* writers publish.
THEOREM ResolvedIsAlwaysApplied == Spec => []ResolvedIsApplied
<1>1. FeedInv => ResolvedIsApplied
  BY DEF FeedInv, InOrder, FeedTypes, ResolvedIsApplied
<1> QED
  BY <1>1, FeedInit, FeedStep, PTL DEF Spec

\* The write throttle bounds the memtable: the hard limit is exceeded by fewer
\* commits than there are writers, although they consult a gauge that is set
\* later and that a flush does not lower.
THEOREM MemtableStaysBounded == Spec => []MemtableBounded
<1>1. FeedInv => MemtableBounded
  <2> SUFFICES ASSUME FeedInv PROVE MemtableBounded
    BY Zenon
  <2>1. RoomLeft /\ memtable_bytes \in Nat /\ HardBytes \in Nat
    BY FeedAssumption, Zenon DEF FeedInv, FeedTypes, FeedAssumption
  <2>2. Cardinality(Adding) \in Nat /\ Cardinality(Writer) \in Nat
    BY WriterSets, Zenon DEF Adding
  <2> QED
    BY <2>1, <2>2 DEF RoomLeft, MemtableBounded
<1> QED
  BY <1>1, FeedInit, FeedStep, PTL DEF Spec

-----------------------------------------------------------------------------
(* Timestamps and sizes. *)

\* The log is ahead of the memtable exactly while a commit is in between, the
\* disk is behind the log, and nothing is counted that was not applied.
Counts ==
  /\ commit_seq \in 1..(MaxCommits + 1) /\ synced <= logged
  /\ (\A x \in Writer : writer[x].pc # "logged") => applied = logged
  /\ (\E x \in Writer : writer[x].pc = "logged") => applied = logged - 1
  /\ memtable_bytes <= applied /\ gauge <= applied

\* The channel and what the subscriber has.
ChannelOK ==
  /\ sub.queue \in Seq(Nat) /\ Len(sub.queue) <= EventMax
  /\ sub.got \in Seq(Nat) /\ sub.lagged \in BOOLEAN /\ sub.since \in Nat

\* A commit that the subscriber may still be sent, and the last one that it has
\* been sent if it was subscribed in time.
Pending(x) == writer[x].pc \in {"logged", "applied"} \/ (writer[x].pc = "resolved" /\ writer[x].event)
Sent == IF \E x \in Writer : Pending(x) THEN logged - 1 ELSE logged

\* No gap without a marker, in a sequence of commit timestamps and markers.
Consecutive(s) ==
  \A i \in 1..(Len(s) - 1) : s[i] # 0 /\ s[i + 1] # 0 => s[i + 1] = s[i] + 1

\* The stream has no gap, ends with the last commit that was sent, starts no later
\* than the subscription and is not empty once a commit after it was sent; an
\* event is only sent to a subscriber.
StreamOK ==
  /\ Consecutive(Stream)
  /\ Stream # << >> => sub.on /\ Stream[1] <= sub.since /\ Stream[Len(Stream)] = Sent
  /\ sub.on /\ sub.since <= Sent => Stream # << >>
  /\ \A x \in Writer : writer[x].event => sub.on

\* Where the elements of a concatenation come from.
LEMMA Joined ==
  ASSUME NEW a \in Seq(Nat), NEW b \in Seq(Nat)
  PROVE  /\ a \o b \in Seq(Nat) /\ Len(a \o b) = Len(a) + Len(b)
         /\ \A i \in 1..Len(a) : (a \o b)[i] = a[i]
         /\ \A i \in 1..Len(b) : (a \o b)[Len(a) + i] = b[i]
         /\ a \o << >> = a
  BY ConcatProperties, ConcatEmptySeq

\* An event is sent after what the stream has.
LEMMA SentAfter ==
  ASSUME NEW a \in Seq(Nat), NEW q \in Seq(Nat), NEW t \in Nat
  PROVE  a \o Append(q, t) = Append(a \o q, t)
<1>1. /\ a \o q \in Seq(Nat) /\ Append(q, t) \in Seq(Nat) /\ Append(a \o q, t) \in Seq(Nat)
      /\ a \o Append(q, t) \in Seq(Nat)
  BY Joined
<1>2. Len(a \o Append(q, t)) = Len(Append(a \o q, t))
  BY <1>1, Joined
<1>3. ASSUME NEW i \in 1..Len(a \o Append(q, t))
      PROVE  (a \o Append(q, t))[i] = Append(a \o q, t)[i]
  BY <1>1
<1> QED
  BY <1>1, <1>2, <1>3, SeqEqual, Zenon

\* It keeps the stream without gaps if it is the next one or follows a marker.
LEMMA SentNext ==
  ASSUME NEW s \in Seq(Nat), Consecutive(s), NEW t \in Nat,
         s # << >> => s[Len(s)] \in {0, t - 1}
  PROVE  Consecutive(Append(s, t))
<1>1. Len(Append(s, t)) = Len(s) + 1 /\ Append(s, t)[Len(s) + 1] = t
  OBVIOUS
<1>2. \A i \in 1..Len(s) : Append(s, t)[i] = s[i] /\ s[i] \in Nat
  OBVIOUS
<1> QED
  BY <1>1, <1>2 DEF Consecutive

\* What a stream is when a marker has taken the place of one of its events.
Follows(new, old) ==
  /\ new \in Seq(Nat) /\ new # << >> /\ old # << >> /\ Consecutive(new)
  /\ new[1] \in {0, old[1]} /\ new[Len(new)] \in {0, old[Len(old)]}

\* Overwriting the oldest event in the channel leaves a marker in its place.
LEMMA Overwriting ==
  ASSUME NEW g \in Seq(Nat), NEW q \in Seq(Nat), q # << >>, NEW m \in {<< >>, << 0 >>},
         Consecutive(g \o m \o q)
  PROVE  Follows(g \o << 0 >> \o Tail(q), g \o m \o q)
<1> DEFINE old == g \o m \o q
           new == g \o << 0 >> \o Tail(q)
           n == Len(g)
           l == Len(q)
<1>1. /\ n \in Nat /\ l \in Nat \ {0} /\ Tail(q) \in Seq(Nat) /\ Len(Tail(q)) = l - 1
      /\ \A i \in 1..(l - 1) : Tail(q)[i] = q[i + 1]
  BY HeadTailProperties
<1>6. n \in Nat /\ l \in Nat \ {0}
  BY <1>1, Zenon
<1>2. g \o << 0 >> \in Seq(Nat) /\ Len(g \o << 0 >>) = n + 1 /\ (g \o << 0 >>)[n + 1] = 0
      /\ \A i \in 1..n : (g \o << 0 >>)[i] = g[i]
  OBVIOUS
<1>3. /\ new \in Seq(Nat) /\ Len(new) = n + l /\ new[n + 1] = 0
      /\ \A i \in 1..n : new[i] = g[i]
      /\ \A i \in 1..(l - 1) : new[n + 1 + i] = q[i + 1]
  BY <1>1, <1>2, Joined
<1>4. CASE m = << >>
  <2>1. /\ old \in Seq(Nat) /\ Len(old) = n + l
        /\ \A i \in 1..n : old[i] = g[i]
        /\ \A i \in 1..l : old[n + i] = q[i]
    BY <1>1, <1>4, Joined
  <2> HIDE DEF new, old, n, l
  <2>2. \A i \in 1..(n + l) : i # n + 1 => new[i] = old[i]
    <3> SUFFICES ASSUME NEW i \in 1..(n + l), i # n + 1 PROVE new[i] = old[i]
      BY Zenon
    <3>1. CASE i <= n
      <4>1. i \in 1..n
        BY <1>6, <3>1
      <4> QED
        BY <1>3, <2>1, <4>1, Zenon
    <3>2. CASE i > n + 1
      <4>1. i - n - 1 \in 1..(l - 1) /\ i - n \in 1..l
        BY <1>6, <3>2
      <4>2. new[n + 1 + (i - n - 1)] = q[(i - n - 1) + 1] /\ old[n + (i - n)] = q[i - n]
        BY <4>1, <1>3, <2>1, Zenon
      <4>3. n + 1 + (i - n - 1) = i /\ (i - n - 1) + 1 = i - n /\ n + (i - n) = i
        BY <1>6
      <4> QED
        BY <4>2, <4>3, Zenon
    <3>3. i <= n \/ i > n + 1
      BY <1>6
    <3> QED
      BY <3>1, <3>2, <3>3, Zenon
  <2>3. ASSUME Consecutive(old), NEW i \in 1..(n + l - 1), new[i] # 0, new[i + 1] # 0
        PROVE  new[i + 1] = new[i] + 1
    <3>1. i # n + 1 /\ i + 1 # n + 1
      BY <1>3, <2>3, Zenon
    <3>2. i \in 1..(n + l) /\ i + 1 \in 1..(n + l)
      BY <1>6
    <3>3. new[i] = old[i] /\ new[i + 1] = old[i + 1]
      BY <2>2, <3>1, <3>2, Zenon
    <3> QED
      BY <1>6, <2>1, <2>3, <3>3 DEF Consecutive
  <2>4. Consecutive(old) => Consecutive(new)
    BY <1>6, <1>3, <2>3 DEF Consecutive
  <2>5. new # << >> /\ old # << >>
    BY <1>6, <1>3, <2>1
  <2>6. new[1] \in {0, old[1]}
    <3>1. 1 \in 1..(n + l) /\ (1 = n + 1 \/ 1 # n + 1)
      BY <1>6
    <3> QED
      BY <1>3, <2>2, <3>1, Zenon
  <2>7. new[Len(new)] \in {0, old[Len(old)]}
    <3>1. n + l \in 1..(n + l) /\ Len(new) = n + l /\ Len(old) = n + l
      BY <1>6, <1>3, <2>1
    <3> QED
      BY <1>3, <2>2, <3>1, Zenon
  <2> QED
    BY <1>3, <2>4, <2>5, <2>6, <2>7, Zenon DEF Follows, new, old
<1>5. CASE m = << 0 >>
  <2>1. /\ old \in Seq(Nat) /\ Len(old) = n + 1 + l /\ old[n + 1] = 0
        /\ \A i \in 1..n : old[i] = g[i]
        /\ \A i \in 1..l : old[n + 1 + i] = q[i]
    BY <1>1, <1>2, <1>5, Joined
  <2> HIDE DEF new, old, n, l
  <2>2. /\ \A i \in 1..(n + 1) : new[i] = old[i]
        /\ \A i \in (n + 2)..(n + l) : new[i] = old[i + 1]
    <3>1. ASSUME NEW i \in 1..(n + 1) PROVE new[i] = old[i]
      <4>1. i \in 1..n \/ i = n + 1
        BY <1>6
      <4> QED
        BY <1>3, <2>1, <4>1, Zenon
    <3>2. ASSUME NEW i \in (n + 2)..(n + l) PROVE new[i] = old[i + 1]
      <4>1. i - n - 1 \in 1..(l - 1) /\ i - n \in 1..l
        BY <1>6
      <4>2. new[n + 1 + (i - n - 1)] = q[(i - n - 1) + 1] /\ old[n + 1 + (i - n)] = q[i - n]
        BY <4>1, <1>3, <2>1, Zenon
      <4>3. n + 1 + (i - n - 1) = i /\ (i - n - 1) + 1 = i - n /\ n + 1 + (i - n) = i + 1
        BY <1>6
      <4> QED
        BY <4>2, <4>3, Zenon
    <3> QED
      BY <3>1, <3>2, Zenon
  <2>3. Consecutive(old) => Consecutive(new)
    <3> SUFFICES ASSUME Consecutive(old), NEW i \in 1..(n + l - 1),
                        new[i] # 0, new[i + 1] # 0
                 PROVE  new[i + 1] = new[i] + 1
      BY <1>6, <1>3 DEF Consecutive
    <3>1. CASE i <= n
      <4>1. i \in 1..(n + 1) /\ i + 1 \in 1..(n + 1) /\ i \in 1..(Len(old) - 1)
        BY <1>6, <2>1, <3>1
      <4>2. new[i] = old[i] /\ new[i + 1] = old[i + 1]
        BY <2>2, <4>1, Zenon
      <4> QED
        BY <4>1, <4>2, Zenon DEF Consecutive
    <3>2. CASE i > n
      <4>0. i # n + 1
        BY <1>3, Zenon
      <4>1. i >= n + 2
        BY <1>6, <3>2, <4>0
      <4>2. new[i] = old[i + 1] /\ new[i + 1] = old[i + 2]
        BY <4>1, <1>6, <2>2
      <4>3. i + 1 \in 1..(Len(old) - 1)
        BY <1>6, <2>1
      <4> QED
        BY <4>2, <4>3 DEF Consecutive
    <3> QED
      BY <1>6, <3>1, <3>2
  <2>4. new # << >> /\ old # << >> /\ new[1] = old[1]
    BY <1>6, <1>3, <2>1, <2>2
  <2>5. new[Len(new)] \in {0, old[Len(old)]}
    <3>1. CASE l = 1
      BY <1>6, <1>3, <3>1, Zenon
    <3>2. CASE l > 1
      <4>1. n + l \in (n + 2)..(n + l) /\ Len(new) = n + l
            /\ Len(old) = n + l + 1
        BY <1>6, <1>3, <2>1, <3>2
      <4>2. new[n + l] = old[n + l + 1]
        BY <2>2, <4>1, Zenon
      <4> QED
        BY <4>1, <4>2, Zenon
    <3>3. l = 1 \/ l > 1
      BY <1>6
    <3> QED
      BY <3>1, <3>2, <3>3, Zenon
  <2> QED
    BY <1>3, <2>3, <2>4, <2>5, ZenonT(40) DEF Follows, new, old
<1> QED
  BY <1>4, <1>5, Zenon

\* Three pieces of a stream join either way.
LEMMA Regrouped ==
  ASSUME NEW s \in Seq(Nat), NEW t \in Seq(Nat), NEW u \in Seq(Nat)
  PROVE  (s \o t) \o u = s \o (t \o u)
  BY ConcatAssociative, SMTT(90)

\* Receiving an event or the marker moves it and leaves the stream as it is.
LEMMA Receiving ==
  ASSUME NEW g \in Seq(Nat), NEW q \in Seq(Nat)
  PROVE  /\ Append(g, 0) \o << >> \o q = g \o << 0 >> \o q
         /\ q # << >> => Append(g, Head(q)) \o << >> \o Tail(q) = g \o << >> \o q
<1>1. Append(g, 0) \o << >> = g \o << 0 >>
  <2>1. Append(g, 0) \in Seq(Nat)
    OBVIOUS
  <2> QED
    BY <2>1, Joined, AppendIsConcat
<1>2. ASSUME q # << >> PROVE Append(g, Head(q)) \o << >> \o Tail(q) = g \o << >> \o q
  <2>1. Head(q) \in Nat /\ Tail(q) \in Seq(Nat) /\ q = <<Head(q)>> \o Tail(q)
        /\ <<Head(q)>> \in Seq(Nat)
    BY <1>2
  <2>2. Append(g, Head(q)) \o << >> = g \o <<Head(q)>> /\ g \o << >> = g
    BY <2>1, Joined, AppendIsConcat, AppendProperties
  <2>3. (g \o <<Head(q)>>) \o Tail(q) = g \o (<<Head(q)>> \o Tail(q))
    <3> DEFINE h == <<Head(q)>>
               r == Tail(q)
    <3>1. h \in Seq(Nat) /\ r \in Seq(Nat)
      BY <2>1, Zenon
    <3> HIDE DEF h, r
    <3>2. (g \o h) \o r = g \o (h \o r)
      BY <3>1, Regrouped, Zenon
    <3> QED
      BY <3>2, Zenon DEF h, r
  <2> QED
    BY <2>1, <2>2, <2>3, Zenon
<1> QED
  BY <1>1, <1>2, Zenon

\* Both hold when the database is opened.
LEMMA CountsInit == Init => Counts /\ ChannelOK /\ StreamOK
<1> SUFFICES ASSUME Init PROVE Counts /\ ChannelOK /\ StreamOK
  BY Zenon
<1> USE DEF Init, WInit, Resting
<1>1. Counts
  BY FeedAssumption DEF Counts, FeedAssumption
<1>2. sub.queue = << >> /\ sub.got = << >> /\ ~sub.lagged /\ ~sub.on /\ sub.since = 0
  BY Zenon
<1>3. ChannelOK
  BY <1>2, EventAssumption DEF ChannelOK, EventAssumption
<1>4. Stream = << >> /\ Len(<< >>) = 0
  BY <1>2 DEF Stream
<1>5. StreamOK
  BY <1>2, <1>4 DEF StreamOK, Consecutive
<1> QED
  BY <1>1, <1>3, <1>5, Zenon

\* Timestamps and sizes after each step of a commit or of the others.
LEMMA CountsStep ==
  ASSUME FeedInv, Counts, [Next]_vars
  PROVE  Counts'
<1>0. FeedTypes /\ Exclusive /\ InOrder
  BY Zenon DEF FeedInv
<1>1. /\ commit_seq \in Nat /\ logged \in Nat /\ synced \in Nat /\ applied \in Nat
      /\ memtable_bytes \in Nat /\ gauge \in Nat /\ MaxCommits \in Nat
      /\ logged = commit_seq - 1
  BY <1>0, FeedAssumption, Zenon DEF FeedTypes, InOrder, FeedAssumption
<1>2. ASSUME UNCHANGED <<commit_seq, logged, applied>>, synced' \in {synced, logged},
             memtable_bytes' \in {0, memtable_bytes}, gauge' \in {memtable_bytes, gauge},
             \A y \in Writer : writer'[y].pc = "logged" <=> writer[y].pc = "logged"
      PROVE  Counts'
  BY <1>1, <1>2 DEF Counts
<1>3. ASSUME NEW x \in Writer, Log(x) PROVE Counts'
  <2>1. /\ commit_seq <= MaxCommits /\ commit_seq' = commit_seq + 1 /\ logged' = commit_seq
        /\ synced' \in {synced, commit_seq} /\ applied' = applied
        /\ memtable_bytes' = memtable_bytes /\ gauge' = gauge
    BY <1>3, Zenon DEF Log
  <2>2. writer'[x].pc = "logged"
    BY <1>0, <1>3, Zenon DEF Log, FeedTypes
  <2>3. \A y \in Writer : writer[y].pc # "logged"
    BY <1>3, Zenon DEF Log, WriteGuardFree
  <2> QED
    BY <1>1, <2>1, <2>2, <2>3 DEF Counts
<1>4. ASSUME NEW x \in Writer, Apply(x) PROVE Counts'
  <2>1. /\ UNCHANGED <<commit_seq, logged, synced, gauge>>
        /\ memtable_bytes' = memtable_bytes + 1 /\ applied' = writer[x].ts
    BY <1>4, Zenon DEF Apply
  <2>2. writer[x].ts = logged /\ applied = logged - 1
    BY <1>0, <1>4, Zenon DEF Apply, InOrder, Guarded, Counts
  <2>3. \A y \in Writer : writer'[y].pc # "logged"
    BY <1>0, <1>4, Zenon DEF Apply, At, FeedTypes, Exclusive, Guarded
  <2> QED
    BY <1>1, <2>1, <2>2, <2>3 DEF Counts
<1>5. ASSUME NEW x \in Writer, Admit(x) \/ Notify(x) \/ SetGauge(x) \/ Resolve(x) \/ Send(x)
      PROVE  Counts'
  <2>1. UNCHANGED <<commit_seq, logged, applied, synced, memtable_bytes>>
        /\ gauge' \in {memtable_bytes, gauge}
    BY <1>5, Zenon DEF Admit, Notify, SetGauge, Resolve, Send
  <2>2. \A y \in Writer : writer'[y].pc = "logged" <=> writer[y].pc = "logged"
    BY <1>0, <1>5 DEF Admit, Notify, SetGauge, Resolve, Send, At, Resting, FeedTypes
  <2> QED
    BY <1>2, <2>1, <2>2, Zenon
<1>6. CASE FlushDrain \/ FlushClear \/ GroupSync
  BY <1>2, <1>6, Zenon DEF FlushDrain, FlushClear, GroupSync
<1>7. CASE WatcherClient \/ UNCHANGED vars
  BY <1>2, <1>7, Zenon DEF WatcherClient, vars, feedvars
<1> QED
  BY <1>3, <1>4, <1>5, <1>6, <1>7, Zenon DEF Next

\* A step that leaves the channel alone and sends nothing.
LEMMA StreamKept ==
  ASSUME ChannelOK, StreamOK, sub' = sub, Sent' = Sent,
         \A x \in Writer : writer'[x].event => sub.on
  PROVE  ChannelOK' /\ StreamOK'
<1>1. Stream' = Stream
  BY Zenon DEF Stream
<1> QED
  BY <1>1, Zenon DEF ChannelOK, StreamOK

\* Where the guard is, and what has been sent while one writer is past it.
LEMMA SentIs ==
  ASSUME FeedInv
  PROVE  /\ logged \in Nat /\ Sent \in {logged - 1, logged}
         /\ \A x \in Writer : Pending(x) => Sent = logged - 1
         /\ (\A x \in Writer : ~Pending(x)) => Sent = logged
  BY Zenon DEF FeedInv, FeedTypes, Sent

\* Sending: the event follows what was sent before, or a marker does.
LEMMA SendStep ==
  ASSUME FeedInv, ChannelOK, StreamOK, NEW x \in Writer, Send(x)
  PROVE  ChannelOK' /\ StreamOK'
<1>0. FeedTypes /\ Exclusive /\ InOrder
  BY Zenon DEF FeedInv
<1> DEFINE t == writer[x].ts
           m == IF sub.lagged THEN <<Lagged>> ELSE << >>
<1>1. Pending(x) /\ sub.on /\ t = logged /\ t \in Nat
  BY <1>0, Zenon DEF Send, Pending, StreamOK, InOrder, Guarded, FeedTypes
<1>2. Sent = t - 1
  BY <1>1, SentIs, Zenon
<1>3. \A y \in Writer : ~Pending(y)'
  BY <1>0, Zenon DEF Send, At, FeedTypes, Pending, Exclusive, Guarded
<1>4. Sent' = t
  BY <1>1, <1>3, Zenon DEF Sent, Send
<1>5. /\ sub.got \in Seq(Nat) /\ sub.queue \in Seq(Nat) /\ m \in Seq(Nat) /\ sub.got \o m \in Seq(Nat)
      /\ m \in {<< >>, << 0 >>} /\ Stream = sub.got \o m \o sub.queue /\ Stream \in Seq(Nat)
      /\ sub.since \in Nat
  <2>1. m \in Seq(Nat) /\ m \in {<< >>, << 0 >>}
    BY DEF Lagged
  <2> HIDE DEF m
  <2>2. sub.got \o m \in Seq(Nat) /\ (sub.got \o m) \o sub.queue \in Seq(Nat)
    BY <2>1, Joined, Zenon DEF ChannelOK
  <2>3. Stream = sub.got \o m \o sub.queue
    BY Zenon DEF m, Stream
  <2> QED
    BY <2>1, <2>2, <2>3, Zenon DEF ChannelOK
<1>6. EventMax \in Nat \ {0}
  BY EventAssumption, Zenon DEF EventAssumption
<1>7. \A y \in Writer : writer'[y].event => sub.on
  BY <1>1, Zenon
<1> HIDE DEF m, t
<1>8. ASSUME NEW s \in Seq(Nat), Consecutive(s), Stream' = Append(s, t),
             s # << >> => s[1] <= sub.since /\ s[Len(s)] \in {0, t - 1},
             s = << >> => Stream = << >>,
             sub'.on, sub'.since = sub.since, ChannelOK'
      PROVE  StreamOK'
  <2>1. Consecutive(Stream)'
    <3>1. Consecutive(Append(s, t))
      BY <1>1, <1>8, SentNext, Zenon
    <3> QED
      BY <1>8, <3>1, Zenon DEF Consecutive
  <2>2. Len(Append(s, t)) = Len(s) + 1 /\ Append(s, t)[Len(s) + 1] = t /\ Append(s, t) # << >>
        /\ Len(s) \in Nat
    BY <1>1, <1>8, AppendProperties
  <2>3. Append(s, t)[1] <= sub.since
    <3>1. CASE s = << >>
      <4>1. ~(sub.since <= Sent)
        BY <1>1, <1>8, <3>1, Zenon DEF StreamOK
      <4>2. Append(s, t)[1] = t
        BY <1>1, <3>1
      <4> QED
        BY <1>1, <1>2, <1>5, <4>1, <4>2
    <3>2. CASE s # << >>
      BY <1>1, <1>8, <3>2
    <3> QED
      BY <3>1, <3>2, Zenon
  <2> QED
    BY <1>4, <1>7, <1>8, <2>1, <2>2, <2>3, Zenon DEF StreamOK
<1>9. CASE Len(sub.queue) < EventMax
  <2>1. sub' = [sub EXCEPT !.queue = Append(@, t)]
    BY <1>9, Zenon DEF Send, SendEvent, t
  <2>2. /\ sub'.queue = Append(sub.queue, t) /\ sub'.got = sub.got /\ sub'.lagged = sub.lagged
        /\ sub'.on /\ sub'.since = sub.since
    BY <1>0, <1>1, <2>1, Zenon DEF FeedTypes
  <2>3. ChannelOK'
    BY <1>1, <1>6, <1>9, <2>2 DEF ChannelOK
  <2>4. Stream' = sub.got \o m \o Append(sub.queue, t)
    BY <2>2, Zenon DEF Stream, m
  <2>5. Stream' = Append(Stream, t)
    BY <1>1, <1>5, <2>4, SentAfter, ZenonT(40)
  <2>6. Stream # << >> => Stream[1] <= sub.since /\ Stream[Len(Stream)] \in {0, t - 1}
    BY <1>2, Zenon DEF StreamOK
  <2>7. Consecutive(Stream)
    BY Zenon DEF StreamOK
  <2> QED
    BY <1>5, <1>8, <2>2, <2>3, <2>5, <2>6, <2>7, Zenon
<1>10. CASE ~(Len(sub.queue) < EventMax)
  <2> DEFINE s == sub.got \o << 0 >> \o Tail(sub.queue)
  <2>1. sub' = [sub EXCEPT !.queue = Append(Tail(@), t), !.lagged = TRUE]
    BY <1>10, Zenon DEF Send, SendEvent, t
  <2>2. /\ sub'.queue = Append(Tail(sub.queue), t) /\ sub'.got = sub.got /\ sub'.lagged
        /\ sub'.lagged \in BOOLEAN /\ sub'.on /\ sub'.since = sub.since
    BY <1>0, <1>1, <2>1, Zenon DEF FeedTypes
  <2>3. sub.queue # << >>
    BY <1>5, <1>6, <1>10
  <2>4. Tail(sub.queue) \in Seq(Nat) /\ Len(Tail(sub.queue)) = Len(sub.queue) - 1
    BY <1>5, <2>3
  <2>5. ChannelOK'
    BY <1>1, <1>6, <1>10, <2>2, <2>4 DEF ChannelOK
  <2>6. Stream' = sub.got \o << 0 >> \o Append(Tail(sub.queue), t)
    BY <2>2, Zenon DEF Stream, Lagged
  <2>7. /\ s \in Seq(Nat) /\ s # << >> /\ Stream # << >>
        /\ Consecutive(s)
        /\ s[1] \in {0, Stream[1]} /\ s[Len(s)] \in {0, Stream[Len(Stream)]}
    <3>1. Consecutive(Stream)
      BY DEF StreamOK
    <3>2. Consecutive(sub.got \o m \o sub.queue)
      BY <1>5, <3>1, Zenon
    <3>3. Follows(sub.got \o << 0 >> \o Tail(sub.queue), sub.got \o m \o sub.queue)
      BY <1>5, <2>3, <3>2, Overwriting, Zenon
    <3>4. Follows(s, Stream)
      BY <1>5, <3>3, Zenon
    <3> QED
      BY <3>4, Zenon DEF Follows
  <2>8. Stream' = Append(s, t)
    <3>1. sub.got \o << 0 >> \in Seq(Nat)
      BY <1>5
    <3> QED
      BY <1>1, <2>4, <2>6, <3>1, SentAfter, ZenonT(40)
  <2>9. s[1] <= sub.since /\ s[Len(s)] \in {0, t - 1}
    <3>1. Stream[1] <= sub.since /\ Stream[Len(Stream)] = t - 1
      BY <1>2, <2>7, Zenon DEF StreamOK
    <3>2. s[1] = 0 \/ s[1] = Stream[1]
      BY <2>7, Zenon
    <3>3. s[Len(s)] \in {0, t - 1}
      BY <2>7, <3>1, Zenon
    <3> HIDE DEF s
    <3>4. sub.since \in Nat
      BY <1>5, Zenon
    <3> QED
      BY <3>1, <3>2, <3>3, <3>4
  <2> HIDE DEF s
  <2> QED
    BY <1>8, <2>2, <2>5, <2>7, <2>8, <2>9, Zenon
<1> QED
  BY <1>9, <1>10, Zenon

\* Every step keeps the stream.
LEMMA StreamStep ==
  ASSUME FeedInv, ChannelOK, StreamOK, [Next]_vars
  PROVE  ChannelOK' /\ StreamOK'
<1>0. FeedTypes /\ Exclusive /\ InOrder /\ FeedInv'
  BY FeedStep, Zenon DEF FeedInv
<1>1. ASSUME NEW x \in Writer, Admit(x) \/ Notify(x) \/ SetGauge(x)
      PROVE  ChannelOK' /\ StreamOK'
  <2>1. sub' = sub /\ logged' = logged
    BY <1>1, Zenon DEF Admit, Notify, SetGauge, NotifyWaiters, watchvars
  <2>2. \A y \in Writer : /\ Pending(y)' <=> Pending(y)
                          /\ writer'[y].event => writer[y].event
    BY <1>0, <1>1 DEF Admit, Notify, SetGauge, At, Resting, FeedTypes, Pending
  <2>3. Sent' = Sent
    BY <2>1, <2>2, Zenon DEF Sent
  <2> QED
    BY <2>1, <2>2, <2>3, StreamKept, Zenon DEF StreamOK
<1>2. ASSUME NEW x \in Writer, Log(x) PROVE ChannelOK' /\ StreamOK'
  <2>1. \A y \in Writer : ~Pending(y) /\ writer'[y].event = writer[y].event
    BY <1>0, <1>2, Zenon DEF Log, WriteGuardFree, Pending, FeedTypes
  <2>2. Pending(x)' /\ sub' = sub /\ logged' = commit_seq
    BY <1>0, <1>2, Zenon DEF Log, Pending, FeedTypes, watchvars
  <2>3. Sent = logged /\ Sent' = logged' - 1
    BY <2>1, <2>2, Zenon DEF Sent
  <2>4. Sent' = Sent
    BY <1>0, <2>2, <2>3, Zenon DEF InOrder, FeedTypes
  <2> QED
    BY <2>1, <2>2, <2>4, StreamKept, Zenon DEF StreamOK
<1>3. ASSUME NEW x \in Writer, Apply(x) PROVE ChannelOK' /\ StreamOK'
  <2>1. sub' = sub /\ logged' = logged
    BY <1>3, Zenon DEF Apply, watchvars
  <2>2. \A y \in Writer : /\ Pending(y)' <=> Pending(y)
                          /\ writer'[y].event = writer[y].event
    BY <1>0, <1>3, Zenon DEF Apply, At, FeedTypes, Pending
  <2>3. Sent' = Sent
    BY <2>1, <2>2, Zenon DEF Sent
  <2> QED
    BY <2>1, <2>2, <2>3, StreamKept, Zenon DEF StreamOK
<1>4. ASSUME NEW x \in Writer, Resolve(x) PROVE ChannelOK' /\ StreamOK'
  <2>1. sub' = sub /\ logged' = logged
    BY <1>4, Zenon DEF Resolve, AdvanceResolved
  <2>2. /\ writer'[x].pc = "resolved" /\ writer'[x].event = sub.on
        /\ \A y \in Writer \ {x} : writer'[y] = writer[y]
    BY <1>0, <1>4, Zenon DEF Resolve, FeedTypes
  <2>3. \A y \in Writer : writer'[y].event => sub.on
    BY <2>2, Zenon DEF StreamOK
  <2>4. CASE sub.on
    <3>1. \A y \in Writer : Pending(y)' <=> Pending(y)
      BY <1>4, <2>2, <2>4, Zenon DEF Pending, Resolve
    <3>2. Sent' = Sent
      BY <2>1, <3>1, Zenon DEF Sent
    <3> QED
      BY <2>1, <2>3, <3>2, StreamKept, Zenon
  <2>5. CASE ~sub.on
    <3>1. Stream = << >> /\ Stream' = Stream
      BY <2>1, <2>5, Zenon DEF StreamOK, Stream
    <3> QED
      BY <2>1, <2>3, <2>5, <3>1, Zenon DEF StreamOK, ChannelOK
  <2> QED
    BY <2>4, <2>5, Zenon
<1>5. CASE FlushDrain \/ FlushClear \/ GroupSync \/ UNCHANGED vars
  <2>1. sub' = sub /\ logged' = logged /\ writer' = writer
    BY <1>5, Zenon DEF FlushDrain, FlushClear, GroupSync, vars, feedvars, watchvars
  <2>2. Sent' = Sent
    BY <2>1, Zenon DEF Sent, Pending
  <2> QED
    BY <2>1, <2>2, StreamKept, Zenon DEF StreamOK
<1>6. CASE WatcherClient
  <2>1. logged' = logged /\ writer' = writer
    BY <1>6, Zenon DEF WatcherClient, feedvars
  <2>2. Sent' = Sent /\ Sent \in {logged - 1, logged}
    BY <2>1, SentIs, Zenon DEF Sent, Pending
  <2>3. ASSUME sub' = sub PROVE ChannelOK' /\ StreamOK'
    BY <2>1, <2>2, <2>3, StreamKept, Zenon DEF StreamOK
  <2>4. CASE Subscribe(commit_seq)
    <3>1. /\ ~sub.on /\ sub'.on /\ sub'.since = commit_seq
          /\ sub'.queue = sub.queue /\ sub'.got = sub.got /\ sub'.lagged = sub.lagged
      BY <1>0, <2>4, Zenon DEF Subscribe, FeedTypes
    <3>2. Stream = << >> /\ Stream' = Stream
      BY <3>1, Zenon DEF StreamOK, Stream
    <3>3. ~(sub'.since <= Sent')
      BY <1>0, <2>2, <3>1 DEF InOrder, FeedTypes
    <3>4. ChannelOK'
      BY <1>0, <3>1, Zenon DEF ChannelOK, FeedTypes
    <3> QED
      BY <2>1, <3>1, <3>2, <3>3, <3>4, Zenon DEF StreamOK
  <2>5. CASE Receive
    <3>1. sub'.on = sub.on /\ sub'.since = sub.since
      BY <1>0, <2>5, Zenon DEF Receive, FeedTypes
    <3>2. ChannelOK' /\ Stream' = Stream
      <4>1. CASE sub.lagged
        <5>1. /\ sub'.lagged = FALSE /\ sub'.got = Append(sub.got, 0) /\ sub'.queue = sub.queue
          BY <1>0, <2>5, <4>1, Zenon DEF Receive, FeedTypes, Lagged
        <5>2. ChannelOK'
          <6>1. Append(sub.got, 0) \in Seq(Nat)
            BY DEF ChannelOK
          <6> QED
            BY <3>1, <5>1, <6>1, Zenon DEF ChannelOK
        <5>3. Stream' = Append(sub.got, 0) \o << >> \o sub.queue
          BY <5>1, Zenon DEF Stream
        <5>4. Stream = sub.got \o << 0 >> \o sub.queue
          BY <4>1, Zenon DEF Stream, Lagged
        <5> QED
          BY <5>2, <5>3, <5>4, Receiving, Zenon DEF ChannelOK
      <4>2. CASE ~sub.lagged
        <5>1. /\ sub'.lagged = sub.lagged /\ sub'.got = Append(sub.got, Head(sub.queue))
              /\ sub'.queue = Tail(sub.queue) /\ sub.queue # << >>
          BY <1>0, <2>5, <4>2, ZenonT(40) DEF Receive, FeedTypes
        <5>2. ChannelOK'
          <6>1. /\ Head(sub.queue) \in Nat /\ Tail(sub.queue) \in Seq(Nat)
                /\ Len(Tail(sub.queue)) = Len(sub.queue) - 1
            BY <5>1, HeadTailProperties, Zenon DEF ChannelOK
          <6> QED
            BY <3>1, <5>1, <6>1, EventAssumption DEF ChannelOK, EventAssumption
        <5>3. Stream' = Append(sub.got, Head(sub.queue)) \o << >> \o Tail(sub.queue)
          BY <4>2, <5>1, Zenon DEF Stream
        <5>4. Stream = sub.got \o << >> \o sub.queue
          BY <4>2, Zenon DEF Stream
        <5>5. Append(sub.got, Head(sub.queue)) \o << >> \o Tail(sub.queue)
                = sub.got \o << >> \o sub.queue
          BY <5>1, Receiving, Zenon DEF ChannelOK
        <5> QED
          BY <5>2, <5>3, <5>4, <5>5, Zenon
      <4> QED
        BY <4>1, <4>2, Zenon
    <3> QED
      BY <2>1, <2>2, <3>1, <3>2, Zenon DEF StreamOK
  <2>6. CASE \E w \in Waiter : CheckResolved(w) \/ Park(w)
    BY <2>3, <2>6, Zenon DEF CheckResolved, Park
  <2>7. CASE \E w \in Waiter, ts \in WaitFor : CallWait(w, ts)
    BY <2>3, <2>7, Zenon DEF CallWait
  <2> QED
    BY <1>6, <2>4, <2>5, <2>6, <2>7, Zenon DEF WatcherClient
<1> QED
  BY <1>1, <1>2, <1>3, <1>4, <1>5, <1>6, SendStep, Zenon DEF Next
\* The log is never more than one commit ahead of the memtable, the disk never
\* ahead of the log, one writer at most is past the guard, and the event channel
\* keeps to its capacity.
THEOREM FeedAlwaysTyped == Spec => []FeedTypeOK
<1>1. FeedInv /\ Counts /\ ChannelOK => FeedTypeOK
  <2> SUFFICES ASSUME FeedInv, Counts, ChannelOK PROVE FeedTypeOK
    BY Zenon
  <2>1. FeedTypes /\ Exclusive /\ InOrder
    BY Zenon DEF FeedInv
  <2>2. /\ commit_seq \in 1..(MaxCommits + 1) /\ logged = commit_seq - 1
        /\ synced \in 0..logged /\ applied \in {logged, logged - 1}
        /\ memtable_bytes \in 0..MaxCommits /\ gauge \in 0..MaxCommits
    BY <2>1, FeedAssumption DEF FeedTypes, InOrder, Counts, FeedAssumption
  <2>3. Cardinality({x \in Writer : writer[x].pc \notin {"idle", "admitted"}}) <= 1
    <3> DEFINE past == {x \in Writer : writer[x].pc \notin {"idle", "admitted"}}
    <3>1. \A x, y \in past : x = y
      BY <2>1, Zenon DEF FeedTypes, Exclusive
    <3>2. past = {} \/ \E x : past = {x}
      BY <3>1, ZenonT(40)
    <3>3. \A x : Cardinality({x}) = 1
      BY FS_Singleton, Zenon
    <3>4. Cardinality({}) = 0
      BY FS_EmptySet, Zenon
    <3> HIDE DEF past
    <3>5. Cardinality(past) \in {0, 1}
      BY <3>2, <3>3, <3>4, Zenon
    <3>6. Cardinality(past) <= 1
      BY <3>5
    <3> QED
      BY <3>6, Zenon DEF past
  <2> QED
    BY <2>2, <2>3, Zenon DEF FeedTypeOK, ChannelOK
<1> QED
  BY <1>1, FeedInit, CountsInit, FeedStep, CountsStep, StreamStep, PTL DEF Spec

\* A subscriber gets every commit from its subscription on, in order and once, or
\* the marker of the channel where it overwrote some: for any number of writers
\* and any capacity, whichever step of a commit the subscription falls between.
THEOREM NeverASilentGap == Spec => []NoSilentGap
<1>1. FeedInv /\ ChannelOK /\ StreamOK => NoSilentGap
  <2> SUFFICES ASSUME FeedInv, ChannelOK, StreamOK PROVE NoSilentGap
    OBVIOUS
  <2>1. \A i \in 1..(Len(Stream) - 1) :
          Stream[i] # Lagged /\ Stream[i + 1] # Lagged => Stream[i + 1] = Stream[i] + 1
    BY Zenon DEF StreamOK, Consecutive, Lagged
  <2>2. ASSUME sub.on, WriteGuardFree, commit_seq > sub.since
        PROVE  /\ Stream # << >> /\ Stream[Len(Stream)] = commit_seq - 1
               /\ Stream[1] <= sub.since
    <3>1. \A x \in Writer : ~Pending(x)
      BY <2>2, Zenon DEF WriteGuardFree, Pending
    <3>2. Sent = commit_seq - 1 /\ commit_seq \in Nat
      BY <3>1, SentIs, Zenon DEF FeedInv, InOrder, FeedTypes
    <3>3. sub.since <= Sent
      BY <2>2, <3>2 DEF ChannelOK
    <3> QED
      BY <2>2, <3>2, <3>3, Zenon DEF StreamOK
  <2> QED
    BY <2>1, <2>2, Zenon DEF NoSilentGap
<1> QED
  BY <1>1, FeedInit, CountsInit, FeedStep, StreamStep, PTL DEF Spec
=============================================================================
