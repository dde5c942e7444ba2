--------------------------- MODULE LsmTreeProofs ----------------------------
(***************************************************************************)
(* The engine of LsmTree: memtable, files, version set and counters stay   *)
(* consistent, and no version that a snapshot may ask for is lost, for any *)
(* set of keys and tables and any number of commits, flushes, compactions  *)
(* and drops.                                                              *)
(***************************************************************************)
EXTENDS LsmTree, FiniteSetTheorems, TLAPS

-----------------------------------------------------------------------------
(* The invariant. *)

\* The history is what was committed.
HistOK ==
  /\ commit_seq \in 1..(MaxCommits + 1)
  /\ hist \in Seq([key : Key, val : {"put", "del"}])
  /\ Len(hist) = commit_seq - 1

\* A version of k that began at b ends at a later commit to k, or is open.
EndOK(k, b, e) ==
  e = OpenEnded \/ (e \in 1..Len(hist) /\ b < e /\ hist[e].key = k)

\* A version that was committed.
VersionOK(k, b, v, e) ==
  /\ k \in Key /\ b \in 1..Len(hist)
  /\ hist[b] = [key |-> k, val |-> v]
  /\ EndOK(k, b, e)

RowOK(r) == VersionOK(r.key, r.begin, r.val, r.end)

\* Nothing but a row.
IsRow(r) == r = [key |-> r.key, begin |-> r.begin, end |-> r.end, val |-> r.val]

IsVersion(x) == x = [val |-> x.val, end |-> x.end]

MemOK ==
  /\ DOMAIN mem = Key
  /\ \A k \in Key : \A b \in DOMAIN mem[k] :
       /\ IsVersion(mem[k][b])
       /\ VersionOK(k, b, mem[k][b].val, mem[k][b].end)

HandsOK ==
  /\ flusher = [pc |-> flusher.pc, rows |-> flusher.rows]
  /\ flusher.pc \in {"idle", "drained", "listed"}
  /\ \A r \in flusher.rows : RowOK(r)

\* Files are never written over: their ids are below the next one.
FilesOK ==
  /\ vset.next \in Nat
  /\ \A f \in DOMAIN ssts : f \in Nat /\ f < vset.next /\ \A r \in ssts[f] : RowOK(r)
  /\ indexed \subseteq DOMAIN ssts

Listed == {p[2] : p \in vset.levels}

ListedOK ==
  /\ vset = [levels |-> vset.levels, meta |-> vset.meta, next |-> vset.next,
             dropped |-> vset.dropped]
  /\ vset.levels \subseteq Nat \X Nat
  /\ Listed \subseteq DOMAIN ssts
  /\ DOMAIN vset.meta = Listed
  /\ \A f \in Listed : vset.meta[f] = RangeOf(ssts[f])
  /\ \A p, q \in vset.levels : q[2] = p[2] => q = p
  /\ vset.dropped = dropped_tables

\* What a compaction unlinks is listed no more.
JobOK ==
  /\ compactor = [pc |-> compactor.pc, watermark |-> compactor.watermark,
                  source |-> compactor.source, target |-> compactor.target,
                  inputs |-> compactor.inputs]
  /\ compactor.pc \in {"idle", "called", "retire"}
  /\ compactor.source \in Nat /\ compactor.target \in Nat
  /\ compactor.inputs \subseteq Nat
  /\ \A f \in compactor.inputs : f < vset.next /\ f \notin Listed

HotOK == IsFiniteSet(DOMAIN hot) /\ Cardinality(DOMAIN hot) <= HotMax

StoreInv == HistOK /\ MemOK /\ HandsOK /\ FilesOK /\ ListedOK /\ JobOK

\* The watermark of a compaction is not above the oldest snapshot.
PinInv ==
  /\ reader.ts \in Nat
  /\ reader.pc # "idle" => reader.ts < commit_seq
  /\ compactor.watermark \in Nat
  /\ compactor.pc # "idle" => compactor.watermark <= Watermark

\* Version t of k is in a file that the version set lists.
Stored(k, t) == \E f \in Listed : \E r \in ssts[f] : r.key = k /\ r.begin = t

InFlight(k, t) ==
  flusher.pc = "drained" /\ \E r \in flusher.rows : r.key = k /\ r.begin = t

\* No snapshot that is or will be taken asks for commit t of k.
Superseded(k, t) == \E e \in 1..Len(hist) : hist[e].key = k /\ t < e /\ e <= Watermark

Safe(k) == k \notin hurt /\ dropped_at[TableOf[k]] = 0

\* No version that a snapshot may ask for is lost.
KeptInv ==
  \A k \in Key : Safe(k) =>
    \A t \in 1..Len(hist) : hist[t].key = k =>
      t \in DOMAIN mem[k] \/ InFlight(k, t) \/ Stored(k, t) \/ Superseded(k, t)

\* A dropped table whose rows have been erased has none from before the drop
\* in the memtable.
DropInv ==
  /\ dropped_at \in [Table -> Nat]
  /\ dropped_tables \subseteq Droppable
  /\ dropping \in dropped_tables \cup {"none"}
  /\ \A t \in dropped_tables : dropped_at[t] # 0
  /\ \A t \in Table : dropped_at[t] <= commit_seq
  /\ \A k \in Key : TableOf[k] \in dropped_tables \ {dropping} =>
       \A b \in DOMAIN mem[k] : dropped_at[TableOf[k]] <= b

IsReader ==
  reader = [pc |-> reader.pc, op |-> reader.op, ts |-> reader.ts, keys |-> reader.keys,
            todo |-> reader.todo, acc |-> reader.acc, more |-> reader.more,
            leveled |-> reader.leveled, blind |-> reader.blind, hands |-> reader.hands,
            fit |-> reader.fit, gap |-> reader.gap, gone |-> reader.gone]

-----------------------------------------------------------------------------
(* Numbers. *)

\* A set of naturals that is not empty has a least element.
LEMMA LeastOf ==
  ASSUME NEW S \in SUBSET Nat, S # {}
  PROVE  \E x \in S : \A y \in S : x <= y
<1> DEFINE less == {p \in Nat \X Nat : p[1] < p[2]}
<1>1. S \subseteq Nat
  BY Zenon
<1>2. IsWellFoundedOn(less, Nat)
  BY NatLessThanWellFounded, Zenon DEF OpToRel
<1>3. PICK m \in S : \A y \in S : ~(<<y, m>> \in less)
  <2> HIDE DEF less
  <2> QED
    BY <1>1, <1>2, WFMin, Zenon
<1>4. \A y \in S : ~(y < m)
  BY <1>3, Zenon
<1> QED
  BY <1>4

\* A set of naturals up to n that is not empty has a greatest element.
LEMMA GreatestBelow ==
  ASSUME NEW S \in SUBSET Nat, S # {}, NEW n \in Nat, \A x \in S : x <= n
  PROVE  \E x \in S : \A y \in S : y <= x
<1> DEFINE T == {n - x : x \in S}
<1>1. T \subseteq Nat /\ T # {}
  <2>1. \A x \in S : n - x \in Nat
    OBVIOUS
  <2> QED
    BY <2>1, Zenon
<1>2. PICK m \in T : \A y \in T : m <= y
  <2> HIDE DEF T
  <2> QED
    BY <1>1, LeastOf, Zenon
<1>3. PICK x \in S : m = n - x
  BY Zenon DEF T
<1>4. ASSUME NEW y \in S PROVE y <= x
  <2>1. n - y \in T
    BY Zenon DEF T
  <2>2. m <= n - y
    BY <1>2, <2>1, Zenon
  <2> QED
    BY <1>3, <2>2
<1> QED
  BY <1>4, Zenon

\* What the provers need of the history's type.
LEMMA HistFacts ==
  ASSUME HistOK
  PROVE  /\ Len(hist) \in Nat /\ commit_seq = Len(hist) + 1
         /\ commit_seq < OpenEnded /\ OpenEnded \in Nat
         /\ \A t \in 1..Len(hist) : t \in Nat /\ 1 <= t /\ t <= Len(hist)
                                     /\ hist[t].key \in Key /\ hist[t].val \in {"put", "del"}
                                     /\ hist[t] = [key |-> hist[t].key, val |-> hist[t].val]
<1>1. Len(hist) \in Nat
  BY DEF HistOK
<1>2. commit_seq = Len(hist) + 1 /\ commit_seq < OpenEnded /\ OpenEnded \in Nat
  BY <1>1, LsmAssumption, OpenEndedAssumption DEF HistOK
<1>3. \A t \in 1..Len(hist) : hist[t] \in [key : Key, val : {"put", "del"}]
  <2> DEFINE W == [key : Key, val : {"put", "del"}]
  <2>1. hist \in Seq(W)
    BY Zenon DEF HistOK
  <2> HIDE DEF W
  <2>2. \A t \in 1..Len(hist) : hist[t] \in W
    BY <2>1
  <2> QED
    BY <2>2, Zenon DEF W
<1> QED
  BY <1>1, <1>2, <1>3

-----------------------------------------------------------------------------
(* Files. *)

\* What a merge writes are committed versions: a recomputed end is the begin of
\* a later version.
LEMMA DedupSound ==
  ASSUME HistOK, NEW S, \A r \in S : RowOK(r), NEW w,
         NEW r \in DedupSuperseded(S, w, OpenEnded)
  PROVE  RowOK(r)
<1> DEFINE Later(x) == {s.begin : s \in {y \in S : y.key = x.key /\ y.begin > x.begin}}
           Bound(x) == IF Later(x) = {} THEN OpenEnded
                       ELSE CHOOSE b \in Later(x) : \A c \in Later(x) : b <= c
<1>1. PICK x \in S : r = [key |-> x.key, begin |-> x.begin, end |-> Bound(x), val |-> x.val]
  BY Zenon DEF DedupSuperseded
<1>2. RowOK(x)
  BY Zenon
<1>3. ASSUME Later(x) # {} PROVE Bound(x) \in Later(x)
  <2>1. Later(x) \subseteq Nat
    <3>1. \A s \in S : s.begin \in Nat
      BY HistFacts, Zenon DEF RowOK, VersionOK
    <3> QED
      BY <3>1, Zenon
  <2>2. PICK b \in Later(x) : \A c \in Later(x) : b <= c
    <3> HIDE DEF Later
    <3> QED
      BY <1>3, <2>1, LeastOf, Zenon
  <2> HIDE DEF Later
  <2> QED
    BY <1>3, <2>2, Zenon
<1>4. EndOK(x.key, x.begin, Bound(x))
  <2>1. CASE Later(x) = {}
    BY <2>1, Zenon DEF EndOK
  <2>2. CASE Later(x) # {}
    <3>1. PICK s \in S : s.key = x.key /\ s.begin > x.begin /\ Bound(x) = s.begin
      BY <1>3, <2>2, Zenon
    <3>2. RowOK(s)
      BY Zenon
    <3> HIDE DEF Bound
    <3> QED
      BY <3>1, <3>2 DEF RowOK, VersionOK, EndOK
  <2> QED
    BY <2>1, <2>2, Zenon
<1> HIDE DEF Bound
<1> QED
  BY <1>1, <1>2, <1>4, Zenon DEF RowOK, VersionOK

\* A merge keeps a version unless a later one began at or before the watermark.
LEMMA DedupKeeps ==
  ASSUME HistOK, NEW S, \A r \in S : RowOK(r), NEW w \in Nat, NEW x \in S
  PROVE  \/ \E r \in DedupSuperseded(S, w, OpenEnded) : r.key = x.key /\ r.begin = x.begin
         \/ \E e \in 1..Len(hist) : hist[e].key = x.key /\ x.begin < e /\ e <= w
<1> DEFINE Later(y) == {s.begin : s \in {z \in S : z.key = y.key /\ z.begin > y.begin}}
           Bound(y) == IF Later(y) = {} THEN OpenEnded
                       ELSE CHOOSE b \in Later(y) : \A c \in Later(y) : b <= c
           out == [key |-> x.key, begin |-> x.begin, end |-> Bound(x), val |-> x.val]
<1>1. CASE Later(x) = {} \/ Bound(x) > w
  <2>1. out \in DedupSuperseded(S, w, OpenEnded)
    BY <1>1, Zenon DEF DedupSuperseded
  <2>2. out.key = x.key /\ out.begin = x.begin
    BY Zenon
  <2> QED
    BY <2>1, <2>2, Zenon
<1>2. CASE Later(x) # {} /\ ~(Bound(x) > w)
  <2>1. Later(x) \subseteq Nat
    <3>1. \A s \in S : s.begin \in Nat
      BY HistFacts, Zenon DEF RowOK, VersionOK
    <3> QED
      BY <3>1, Zenon
  <2>2. PICK b \in Later(x) : \A c \in Later(x) : b <= c
    <3> HIDE DEF Later
    <3> QED
      BY <1>2, <2>1, LeastOf, Zenon
  <2>3. Bound(x) \in Later(x)
    <3> HIDE DEF Later
    <3> QED
      BY <1>2, <2>2, Zenon
  <2>4. PICK s \in S : s.key = x.key /\ s.begin > x.begin /\ Bound(x) = s.begin
    BY <2>3, Zenon
  <2>5. RowOK(s) /\ RowOK(x)
    BY Zenon
  <2> HIDE DEF Bound, Later
  <2> QED
    BY <1>2, <2>4, <2>5, HistFacts DEF RowOK, VersionOK
<1> QED
  BY <1>1, <1>2, Zenon

\* What is committed stays committed while the history is.
LEMMA RowsKept ==
  ASSUME hist' = hist
  PROVE  \A r : RowOK(r) => RowOK(r)'
BY Zenon DEF RowOK, VersionOK, EndOK

\* Writing files under new ids and listing them in the place of others keeps
\* the files and the version set in order.
LEMMA Install ==
  ASSUME FilesOK, ListedOK, NEW outs, NEW level \in Nat, NEW n \in Nat, vset.next <= n,
         \A f \in DOMAIN outs : /\ f \in Nat /\ vset.next <= f /\ f < n
                                /\ \A r \in outs[f] : RowOK(r),
         NEW ins, ins \subseteq Listed,
         NEW merged, merged = {p \in vset.levels : p[2] \in ins},
         ssts' = WithFiles(ssts, outs),
         vset' = VsInstalled(vset, level, RangesOf(outs), n, merged),
         indexed' \subseteq indexed \cup DOMAIN outs,
         hist' = hist, dropped_tables' = dropped_tables
  PROVE  /\ FilesOK' /\ ListedOK'
         /\ Listed' = (Listed \ ins) \cup DOMAIN outs
         /\ vset'.next = n
         /\ DOMAIN ssts' = DOMAIN ssts \cup DOMAIN outs
         /\ \A f \in DOMAIN outs : ssts'[f] = outs[f]
         /\ \A f \in DOMAIN ssts : ssts'[f] = ssts[f]
<1>1. /\ DOMAIN RangesOf(outs) = DOMAIN outs
      /\ \A f \in DOMAIN outs : RangesOf(outs)[f] = RangeOf(outs[f])
  BY Zenon DEF RangesOf
<1>2. /\ vset' = [levels |-> vset'.levels, meta |-> vset'.meta, next |-> vset'.next,
                  dropped |-> vset'.dropped]
      /\ vset'.levels = (vset.levels \cup {<<level, f>> : f \in DOMAIN outs}) \ merged
      /\ vset'.meta = [f \in (DOMAIN vset.meta \cup DOMAIN outs) \ {p[2] : p \in merged} |->
                         IF f \in DOMAIN outs THEN RangesOf(outs)[f] ELSE vset.meta[f]]
      /\ vset'.next = Larger(vset.next, n) /\ vset'.dropped = vset.dropped
  <2>1. vset = [levels |-> vset.levels, meta |-> vset.meta, next |-> vset.next,
                dropped |-> vset.dropped]
    BY Zenon DEF ListedOK
  <2> DEFINE L == (vset.levels \cup {<<level, f>> : f \in DOMAIN outs}) \ merged
             M == [f \in (DOMAIN vset.meta \cup DOMAIN outs) \ {p[2] : p \in merged} |->
                     IF f \in DOMAIN outs THEN RangesOf(outs)[f] ELSE vset.meta[f]]
             N == Larger(vset.next, n)
  <2>2. vset' = [vset EXCEPT !.levels = L, !.meta = M, !.next = N]
    BY <1>1, Zenon DEF VsInstalled
  <2> HIDE DEF L, M, N
  <2>3. /\ vset' = [levels |-> vset'.levels, meta |-> vset'.meta, next |-> vset'.next,
                    dropped |-> vset'.dropped]
        /\ vset'.levels = L /\ vset'.meta = M /\ vset'.next = N
        /\ vset'.dropped = vset.dropped
    BY <2>1, <2>2, Zenon
  <2> QED
    BY <2>3, Zenon DEF L, M, N
<1>3. vset'.next = n
  BY <1>2 DEF Larger, FilesOK
<1>4. \A f \in DOMAIN ssts : f \notin DOMAIN outs
  BY DEF FilesOK
<1>5. /\ DOMAIN ssts' = DOMAIN ssts \cup DOMAIN outs
      /\ \A f \in DOMAIN outs : ssts'[f] = outs[f]
      /\ \A f \in DOMAIN ssts : ssts'[f] = ssts[f]
  BY <1>4, Zenon DEF WithFiles
<1>6. FilesOK'
  <2>1. \A r : RowOK(r) => RowOK(r)'
    BY RowsKept, Zenon
  <2>2. \A f \in DOMAIN outs : f \in Nat /\ f < n /\ \A r \in outs[f] : RowOK(r)'
    BY <2>1, Zenon
  <2>3. \A f \in DOMAIN ssts : f \in Nat /\ f < n /\ \A r \in ssts[f] : RowOK(r)'
    BY <2>1 DEF FilesOK
  <2>4. \A f \in DOMAIN ssts' : f \in Nat /\ f < vset'.next /\ \A r \in ssts'[f] : RowOK(r)'
    BY <1>3, <1>5, <2>2, <2>3, Zenon
  <2>5. indexed' \subseteq DOMAIN ssts'
    BY <1>5, Zenon DEF FilesOK
  <2> QED
    BY <1>3, <1>5, <2>4, <2>5, Zenon DEF FilesOK
<1>7. {p[2] : p \in merged} = ins
  BY Zenon DEF Listed
<1>8. \A f \in DOMAIN outs : f \notin Listed /\ f \notin ins
  BY <1>4, Zenon DEF ListedOK
<1>9. vset'.levels = {p \in vset.levels : p[2] \notin ins} \cup {<<level, f>> : f \in DOMAIN outs}
  BY <1>2, <1>8
<1>10. Listed' = (Listed \ ins) \cup DOMAIN outs
  <2>1. \A f \in DOMAIN outs : <<level, f>> \in vset'.levels /\ <<level, f>>[2] = f
    BY <1>9, Zenon
  <2>2. \A p \in vset'.levels : p[2] \in (Listed \ ins) \cup DOMAIN outs
    BY <1>9 DEF Listed
  <2>3. \A p \in vset.levels : p[2] \notin ins => p \in vset'.levels
    BY <1>9, Zenon
  <2>4. Listed' = {p[2] : p \in vset'.levels} /\ Listed = {p[2] : p \in vset.levels}
    BY Zenon DEF Listed
  <2>5. \A f \in Listed' : f \in (Listed \ ins) \cup DOMAIN outs
    BY <2>2, <2>4, ZenonT(40)
  <2>6. \A f \in DOMAIN outs : f \in Listed'
    BY <2>1, <2>4, Zenon
  <2>7. \A f \in Listed \ ins : f \in Listed'
    BY <2>3, <2>4, Zenon
  <2> QED
    BY <2>5, <2>6, <2>7, Zenon
<1>11. ListedOK'
  <2>1. vset'.levels \subseteq Nat \X Nat
    BY <1>9 DEF ListedOK
  <2>2. Listed' \subseteq DOMAIN ssts'
    BY <1>5, <1>10, Zenon DEF ListedOK
  <2>3. DOMAIN vset'.meta = Listed'
    BY <1>2, <1>7, <1>8, <1>10, Zenon DEF ListedOK
  <2>4. \A f \in Listed' : vset'.meta[f] = RangeOf(ssts'[f])
    <3>1. \A f \in DOMAIN outs : f \in Listed' /\ vset'.meta[f] = RangeOf(ssts'[f])
      BY <1>1, <1>2, <1>5, <1>7, <1>8, <1>10, ZenonT(40)
    <3>2. \A f \in Listed \ ins : f \in Listed' /\ vset'.meta[f] = RangeOf(ssts'[f])
      BY <1>2, <1>5, <1>7, <1>8, <1>10 DEF ListedOK
    <3> QED
      BY <1>10, <3>1, <3>2, Zenon
  <2>5. \A p, q \in vset'.levels : q[2] = p[2] => q = p
    <3>1. \A p \in vset.levels : p[2] \in Listed
      BY Zenon DEF Listed
    <3> QED
      BY <1>8, <1>9, <3>1 DEF ListedOK
  <2>6. vset'.dropped = dropped_tables'
    BY <1>2, Zenon DEF ListedOK
  <2> QED
    BY <1>2, <2>1, <2>2, <2>3, <2>4, <2>5, <2>6, Zenon DEF ListedOK
<1> QED
  BY <1>3, <1>5, <1>6, <1>10, <1>11, Zenon

-----------------------------------------------------------------------------
(* Writes. *)

\* What the provers need of a version in the memtable.
LEMMA MemFacts ==
  ASSUME HistOK, MemOK, NEW k \in Key, NEW b \in DOMAIN mem[k]
  PROVE  /\ IsVersion(mem[k][b])
         /\ VersionOK(k, b, mem[k][b].val, mem[k][b].end)
         /\ b \in 1..Len(hist) /\ b \in Nat /\ b < commit_seq
         /\ hist[b] = [key |-> k, val |-> mem[k][b].val]
<1>1. IsVersion(mem[k][b]) /\ VersionOK(k, b, mem[k][b].val, mem[k][b].end)
  BY Zenon DEF MemOK
<1>2. b \in 1..Len(hist) /\ hist[b] = [key |-> k, val |-> mem[k][b].val]
  BY <1>1, Zenon DEF VersionOK
<1>3. b \in Nat /\ b < commit_seq
  BY <1>2, HistFacts
<1> QED
  BY <1>1, <1>2, <1>3, Zenon

\* A commit extends the history, and what was committed before stays so.
LEMMA HistGrows ==
  ASSUME HistOK, NEW k \in Key, NEW v \in {"put", "del"}, Commit(k, v)
  PROVE  /\ HistOK'
         /\ Len(hist') = Len(hist) + 1
         /\ hist'[Len(hist) + 1] = [key |-> k, val |-> v]
         /\ \A t \in 1..Len(hist) : hist'[t] = hist[t]
         /\ \A r : RowOK(r) => RowOK(r)'
<1> DEFINE W == [key : Key, val : {"put", "del"}]
           w == [key |-> k, val |-> v]
<1>1. hist \in Seq(W) /\ Len(hist) \in Nat /\ commit_seq = Len(hist) + 1
  BY HistFacts, Zenon DEF HistOK
<1>2. w \in W /\ hist' = Append(hist, w)
  BY Zenon DEF Commit
<1>3. commit_seq' = commit_seq + 1 /\ commit_seq <= MaxCommits
  BY Zenon DEF Commit
<1> HIDE DEF w, W
<1>4. /\ hist' \in Seq(W) /\ Len(hist') = Len(hist) + 1
      /\ hist'[Len(hist) + 1] = w
      /\ \A t \in 1..Len(hist) : hist'[t] = hist[t]
  BY <1>1, <1>2
<1>5. HistOK'
  BY <1>1, <1>3, <1>4, LsmAssumption DEF HistOK, W
<1>6. \A r : RowOK(r) => RowOK(r)'
  <2>1. \A t \in 1..Len(hist) : t \in 1..Len(hist') /\ hist'[t] = hist[t]
    BY <1>1, <1>4
  <2> QED
    BY <2>1, Zenon DEF RowOK, VersionOK, EndOK
<1> QED
  BY <1>4, <1>5, <1>6, Zenon DEF w

\* Nothing that a version of the chain says changes, except that the newest one
\* now ends.
LEMMA StoreCommit ==
  ASSUME StoreInv, NEW k \in Key, NEW v \in {"put", "del"}, Commit(k, v)
  PROVE  /\ StoreInv'
         /\ DOMAIN mem'[k] = DOMAIN mem[k] \cup {commit_seq}
         /\ \A j \in Key \ {k} : mem'[j] = mem[j]
<1>1. HistOK /\ MemOK /\ HandsOK /\ FilesOK /\ ListedOK /\ JobOK
  BY Zenon DEF StoreInv
<1>2. /\ HistOK'
      /\ Len(hist') = Len(hist) + 1
      /\ hist'[Len(hist) + 1] = [key |-> k, val |-> v]
      /\ \A t \in 1..Len(hist) : hist'[t] = hist[t]
      /\ \A r : RowOK(r) => RowOK(r)'
  BY <1>1, HistGrows, Zenon
<1>3. Len(hist) \in Nat /\ commit_seq = Len(hist) + 1
  BY <1>1, HistFacts, Zenon
<1>4. /\ mem' = [mem EXCEPT ![k] = ChainInsert(mem[k], commit_seq, v)]
      /\ UNCHANGED <<vset, ssts, indexed, flusher, compactor, dropped_tables>>
  BY Zenon DEF Commit
<1> DEFINE d == ChainInsert(mem[k], commit_seq, v)
<1>5. DOMAIN mem = Key
  BY <1>1, Zenon DEF MemOK
<1>6. mem'[k] = d /\ (\A j \in Key \ {k} : mem'[j] = mem[j]) /\ DOMAIN mem' = Key
  BY <1>4, <1>5, Zenon
<1>7. \A t \in DOMAIN mem[k] : /\ t \in Nat /\ t < commit_seq
                               /\ IsVersion(mem[k][t])
  BY <1>1, MemFacts, Zenon
<1>8. /\ DOMAIN d = DOMAIN mem[k] \cup {commit_seq}
      /\ d[commit_seq] = [val |-> v, end |-> OpenEnded]
      /\ \A t \in DOMAIN mem[k] : /\ IsVersion(d[t])
                                  /\ d[t].val = mem[k][t].val
                                  /\ d[t].end \in {mem[k][t].end, commit_seq}
  <2> DEFINE c == mem[k]
             n == commit_seq
  <2>1. n \in Nat /\ d = ChainInsert(c, n, v)
    BY <1>3
  <2>2. \A t \in DOMAIN c : t \in Nat /\ t < n /\ IsVersion(c[t])
    BY <1>7, Zenon
  <2> HIDE DEF c, d, n
  <2>3. /\ DOMAIN d = DOMAIN c \cup {n}
        /\ d[n] = [val |-> v, end |-> OpenEnded]
        /\ \A t \in DOMAIN c : IsVersion(d[t]) /\ d[t].val = c[t].val /\ d[t].end \in {c[t].end, n}
    <3>1. n \notin DOMAIN c /\ n \in Nat
      BY <2>1, <2>2
    <3>2. Newer(c, n) = {}
      BY <2>1, <2>2 DEF Newer
    <3>3. EndAt(c, n) = OpenEnded
      BY <3>1, <3>2, Zenon DEF EndAt
    <3>4. DOMAIN d = DOMAIN c \cup {n}
      BY <2>1, Zenon DEF ChainInsert
    <3>5. d[n] = [val |-> v, end |-> OpenEnded]
      BY <2>1, <3>3, Zenon DEF ChainInsert
    <3>6. \A t \in DOMAIN c : d[t] \in {c[t], [c[t] EXCEPT !.end = n]}
      BY <2>1, <3>1, Zenon DEF ChainInsert
    <3>7. \A t \in DOMAIN c : [c[t] EXCEPT !.end = n] = [val |-> c[t].val, end |-> n]
      BY <2>2 DEF IsVersion
    <3> QED
      BY <2>2, <3>4, <3>5, <3>6, <3>7 DEF IsVersion
  <2> QED
    BY <2>3, Zenon DEF c, n
<1> HIDE DEF d
<1>9. MemOK'
  <2>1. \A t \in 1..Len(hist) : t \in 1..Len(hist') /\ hist'[t] = hist[t]
    BY <1>2, <1>3
  <2>2. commit_seq \in 1..Len(hist') /\ hist'[commit_seq] = [key |-> k, val |-> v]
    BY <1>2, <1>3
  <2>3. ASSUME NEW j \in Key \ {k}, NEW b \in DOMAIN mem[j]
        PROVE  /\ IsVersion(mem'[j][b])
               /\ VersionOK(j, b, mem[j][b].val, mem[j][b].end)'
    <3>1. /\ IsVersion(mem[j][b])
          /\ VersionOK(j, b, mem[j][b].val, mem[j][b].end)
      BY <1>1, MemFacts, Zenon
    <3>2. mem'[j] = mem[j]
      BY <1>6, Zenon
    <3> QED
      BY <2>1, <3>1, <3>2, Zenon DEF VersionOK, EndOK, IsVersion
  <2>4. ASSUME NEW b \in DOMAIN mem[k]
        PROVE  VersionOK(k, b, mem[k][b].val, mem[k][b].end)'
    <3>1. VersionOK(k, b, mem[k][b].val, mem[k][b].end) /\ b < commit_seq
      BY <1>1, MemFacts, Zenon
    <3>2. mem'[k][b].val = mem[k][b].val /\ mem'[k][b].end \in {mem[k][b].end, commit_seq}
      BY <1>6, <1>8, Zenon
    <3>3. CASE mem'[k][b].end = mem[k][b].end
      BY <2>1, <3>1, <3>2, <3>3, ZenonT(40) DEF VersionOK, EndOK
    <3>4. CASE mem'[k][b].end = commit_seq
      BY <2>1, <2>2, <3>1, <3>2, <3>4 DEF VersionOK, EndOK
    <3> QED
      BY <3>2, <3>3, <3>4, Zenon
  <2>5. ASSUME NEW b, b = commit_seq
        PROVE  VersionOK(k, b, mem[k][b].val, mem[k][b].end)'
    BY <1>6, <1>8, <2>2, <2>5 DEF VersionOK, EndOK
  <2>6. ASSUME NEW b \in DOMAIN mem'[k]
        PROVE  IsVersion(mem'[k][b])
    BY <1>6, <1>8, Zenon DEF IsVersion
  <2>7. \A b \in DOMAIN mem'[k] : b \in DOMAIN mem[k] \/ b = commit_seq
    BY <1>6, <1>8
  <2>8. \A j \in Key \ {k} : DOMAIN mem'[j] = DOMAIN mem[j]
    BY <1>6, Zenon
  <2> QED
    BY <1>6, <2>3, <2>4, <2>5, <2>6, <2>7, <2>8, ZenonT(40) DEF MemOK
<1>10. HandsOK' /\ FilesOK'
  BY <1>1, <1>2, <1>4, Zenon DEF HandsOK, FilesOK
<1>11. ListedOK' /\ JobOK'
  BY <1>1, <1>4, Zenon DEF ListedOK, JobOK, Listed
<1> QED
  BY <1>2, <1>6, <1>8, <1>9, <1>10, <1>11, Zenon DEF StoreInv

\* What holds of the store holds while nothing of it changes.
LEMMA StoreSame ==
  ASSUME StoreInv, UNCHANGED <<commit_seq, hist, mem, flusher, vset, ssts, indexed,
                               dropped_tables, compactor>>
  PROVE  StoreInv'
<1>1. HistOK' /\ MemOK'
  BY ZenonT(40) DEF StoreInv, HistOK, MemOK, VersionOK, EndOK
<1>2. HandsOK' /\ FilesOK'
  BY RowsKept, Zenon DEF StoreInv, HandsOK, FilesOK
<1>3. ListedOK' /\ JobOK'
  BY Zenon DEF StoreInv, ListedOK, JobOK, Listed
<1> QED
  BY <1>1, <1>2, <1>3, Zenon DEF StoreInv

\* A memtable that loses keys' chains stays in order.
LEMMA MemErased ==
  ASSUME MemOK, hist' = hist, DOMAIN mem' = Key,
         \A k \in Key : mem'[k] = mem[k] \/ DOMAIN mem'[k] = {}
  PROVE  MemOK'
<1>1. ASSUME NEW k \in Key, NEW b \in DOMAIN mem'[k]
      PROVE  /\ IsVersion(mem'[k][b])
             /\ VersionOK(k, b, mem[k][b].val, mem[k][b].end)'
  <2>1. mem'[k] = mem[k] /\ b \in DOMAIN mem[k]
    BY <1>1, Zenon
  <2>2. IsVersion(mem[k][b]) /\ VersionOK(k, b, mem[k][b].val, mem[k][b].end)
    BY <2>1, Zenon DEF MemOK
  <2> QED
    BY <2>1, <2>2, Zenon DEF VersionOK, EndOK
<1> QED
  BY <1>1, Zenon DEF MemOK

\* The rows a flush takes are the versions of the memtable.
LEMMA DrainedRows ==
  ASSUME StoreInv
  PROVE  /\ \A r \in MemRows : RowOK(r)
         /\ \A k \in Key : \A b \in DOMAIN mem[k] : \E r \in MemRows : r.key = k /\ r.begin = b
<1>1. HistOK /\ MemOK
  BY Zenon DEF StoreInv
<1>2. ASSUME NEW r \in MemRows PROVE RowOK(r)
  <2>0. PICK k \in Key : \E b \in DOMAIN mem[k] :
          r = [key |-> k, begin |-> b, end |-> mem[k][b].end, val |-> mem[k][b].val]
    BY Zenon DEF MemRows
  <2>1. PICK b \in DOMAIN mem[k] :
          r = [key |-> k, begin |-> b, end |-> mem[k][b].end, val |-> mem[k][b].val]
    BY <2>0, Zenon
  <2>2. VersionOK(k, b, mem[k][b].val, mem[k][b].end)
    BY <1>1, MemFacts, Zenon
  <2>3. r.key = k /\ r.begin = b /\ r.end = mem[k][b].end /\ r.val = mem[k][b].val
    BY <2>1, Zenon
  <2> QED
    BY <2>2, <2>3, Zenon DEF RowOK
<1>3. ASSUME NEW k \in Key, NEW b \in DOMAIN mem[k]
      PROVE  \E r \in MemRows : r.key = k /\ r.begin = b
  <2> DEFINE r == [key |-> k, begin |-> b, end |-> mem[k][b].end, val |-> mem[k][b].val]
  <2>1. r \in MemRows
    <3> DEFINE R(j) == {[key |-> j, begin |-> a, end |-> mem[j][a].end, val |-> mem[j][a].val] :
                          a \in DOMAIN mem[j]}
    <3>1. r \in R(k)
      BY Zenon
    <3>2. MemRows = UNION {R(j) : j \in Key}
      BY Zenon DEF MemRows
    <3> HIDE DEF R, r
    <3> QED
      BY <3>1, <3>2, Zenon
  <2>2. r.key = k /\ r.begin = b
    BY Zenon
  <2> QED
    BY <2>1, <2>2, Zenon
<1> QED
  BY <1>2, <1>3, Zenon

\* Draining the memtable, and clearing it when the file is listed.
LEMMA StoreDrain ==
  ASSUME StoreInv, FlushDrain \/ FlushClear
  PROVE  StoreInv'
<1>1. /\ UNCHANGED <<commit_seq, hist, vset, ssts, indexed, dropped_tables, compactor>>
      /\ mem' = [k \in Key |-> EmptyChain]
      /\ flusher' \in {[pc |-> "drained", rows |-> MemRows], [pc |-> "idle", rows |-> {}]}
  BY Zenon DEF FlushDrain, FlushClear, NoFlush, history
<1>2. HistOK' /\ ListedOK' /\ JobOK'
  BY <1>1, Zenon DEF StoreInv, HistOK, ListedOK, JobOK, Listed
<1>3. MemOK'
  <2>1. DOMAIN mem' = Key /\ \A k \in Key : DOMAIN mem'[k] = {}
    BY <1>1, Zenon DEF EmptyChain
  <2> QED
    BY <1>1, <2>1, MemErased, Zenon DEF StoreInv
<1>4. HandsOK'
  <2>1. \A r \in MemRows : RowOK(r)'
    BY <1>1, DrainedRows, RowsKept, Zenon
  <2> QED
    BY <1>1, <2>1 DEF HandsOK
<1>5. FilesOK'
  BY <1>1, RowsKept, Zenon DEF StoreInv, FilesOK
<1> QED
  BY <1>2, <1>3, <1>4, <1>5, Zenon DEF StoreInv

\* A flush lists the file it has written.
LEMMA StoreFlush ==
  ASSUME StoreInv, NEW ok \in BOOLEAN, FlushWrite(ok)
  PROVE  /\ StoreInv'
         /\ Listed' = Listed \cup {vset.next} /\ vset'.next = vset.next + 1
         /\ DOMAIN ssts' = DOMAIN ssts \cup {vset.next} /\ ssts'[vset.next] = flusher.rows
         /\ \A f \in DOMAIN ssts : ssts'[f] = ssts[f]
<1> DEFINE outs == [f \in {vset.next} |-> flusher.rows]
<1>1. /\ UNCHANGED <<commit_seq, hist, mem, dropped_tables, compactor>>
      /\ flusher' = [flusher EXCEPT !.pc = "listed"]
      /\ ssts' = WithFiles(ssts, outs)
      /\ indexed' \subseteq indexed \cup DOMAIN outs
      /\ vset' = VsInstalled(vset, 0, RangesOf(outs), vset.next + 1, {})
  BY Zenon DEF FlushWrite, history
<1>2. HistOK /\ MemOK /\ HandsOK /\ FilesOK /\ ListedOK /\ JobOK
  BY Zenon DEF StoreInv
<1>3. vset.next \in Nat /\ vset.next + 1 \in Nat /\ vset.next <= vset.next + 1
      /\ vset.next < vset.next + 1 /\ vset.next <= vset.next
  BY <1>2 DEF FilesOK
<1>4. DOMAIN outs = {vset.next} /\ outs[vset.next] = flusher.rows
  BY Zenon
<1>5. \A f \in DOMAIN outs : /\ f \in Nat /\ vset.next <= f /\ f < vset.next + 1
                             /\ \A r \in outs[f] : RowOK(r)
  BY <1>2, <1>3, <1>4, Zenon DEF HandsOK
<1>6. {} \subseteq Listed /\ {} = {p \in vset.levels : p[2] \in {}}
  BY Zenon
<1> HIDE DEF outs
<1>7. /\ FilesOK' /\ ListedOK'
      /\ Listed' = (Listed \ {}) \cup DOMAIN outs
      /\ vset'.next = vset.next + 1
      /\ DOMAIN ssts' = DOMAIN ssts \cup DOMAIN outs
      /\ \A f \in DOMAIN outs : ssts'[f] = outs[f]
      /\ \A f \in DOMAIN ssts : ssts'[f] = ssts[f]
  BY <1>1, <1>2, <1>3, <1>5, <1>6, Install, Zenon
<1>8. HistOK' /\ MemOK'
  BY <1>1, <1>2, ZenonT(40) DEF HistOK, MemOK, VersionOK, EndOK
<1>9. HandsOK'
  <2>1. flusher'.rows = flusher.rows /\ flusher'.pc = "listed"
        /\ flusher' = [pc |-> flusher'.pc, rows |-> flusher'.rows]
    BY <1>1, <1>2, Zenon DEF HandsOK
  <2>2. \A r \in flusher.rows : RowOK(r)'
    BY <1>1, <1>2, RowsKept, Zenon DEF HandsOK
  <2> QED
    BY <2>1, <2>2, Zenon DEF HandsOK
<1>10. JobOK'
  BY <1>1, <1>2, <1>3, <1>4, <1>7 DEF JobOK
<1> QED
  BY <1>4, <1>7, <1>8, <1>9, <1>10, Zenon DEF StoreInv

\* Calling a compaction, and finding nothing to do.
LEMMA StoreCall ==
  ASSUME StoreInv, CompactCall(0, 1) \/ CompactCall(1, 2) \/ CompactNothing
  PROVE  StoreInv'
<1>1. UNCHANGED <<commit_seq, hist, mem, flusher, vset, ssts, indexed, dropped_tables>>
  BY Zenon DEF CompactCall, CompactNothing, storage, history
<1>5. /\ compactor' = [pc |-> compactor'.pc, watermark |-> compactor'.watermark,
                       source |-> compactor'.source, target |-> compactor'.target, inputs |-> {}]
      /\ compactor'.pc \in {"idle", "called"} /\ compactor'.inputs = {}
      /\ compactor'.source \in Nat /\ compactor'.target \in Nat
  <2>1. ASSUME NEW a \in Nat, NEW b \in Nat, CompactCall(a, b)
        PROVE  compactor' = [pc |-> "called", watermark |-> Watermark, source |-> a, target |-> b,
                             inputs |-> {}]
    BY <2>1, Zenon DEF CompactCall, NoJob
  <2>2. CASE CompactNothing
    BY <2>2, Zenon DEF CompactNothing, NoJob
  <2>3. CASE CompactCall(0, 1)
    BY <2>1, <2>3
  <2>4. CASE CompactCall(1, 2)
    BY <2>1, <2>4
  <2> QED
    BY <2>2, <2>3, <2>4, Zenon
<1>2. HistOK' /\ MemOK'
  BY <1>1, ZenonT(40) DEF StoreInv, HistOK, MemOK, VersionOK, EndOK
<1>3. HandsOK' /\ FilesOK'
  BY <1>1, RowsKept, Zenon DEF StoreInv, HandsOK, FilesOK
<1>4. ListedOK' /\ JobOK'
  BY <1>1, <1>5, Zenon DEF StoreInv, ListedOK, JobOK, Listed
<1> QED
  BY <1>2, <1>3, <1>4, Zenon DEF StoreInv

\* Marking a table as dropped, or no longer; erasing its rows.
LEMMA StoreDrop ==
  ASSUME StoreInv, NEW t, DropMark(t) \/ Undrop(t) \/ DropErase
  PROVE  /\ StoreInv' /\ Listed' = Listed /\ vset'.next = vset.next
         /\ UNCHANGED <<commit_seq, hist, ssts, indexed, flusher, compactor>>
<1>1. UNCHANGED <<commit_seq, hist, ssts, indexed, flusher, compactor>>
  BY Zenon DEF DropMark, Undrop, DropErase, history
<1>2. /\ MemOK' /\ HistOK'
  <2>1. CASE DropErase
    <3>1. DOMAIN mem' = Key /\ \A k \in Key : mem'[k] = mem[k] \/ DOMAIN mem'[k] = {}
      BY <2>1, Zenon DEF DropErase, Erased, EmptyChain
    <3> QED
      BY <1>1, <3>1, MemErased, Zenon DEF StoreInv, HistOK
  <2>2. CASE DropMark(t) \/ Undrop(t)
    <3>1. mem' = mem
      BY <2>2, Zenon DEF DropMark, Undrop
    <3> QED
      BY <1>1, <3>1, Zenon DEF StoreInv, HistOK, MemOK, VersionOK, EndOK
  <2> QED
    BY <2>1, <2>2, Zenon
<1>3. /\ vset' = [levels |-> vset.levels, meta |-> vset.meta, next |-> vset.next,
                  dropped |-> dropped_tables']
      /\ vset'.levels = vset.levels
  <2>1. vset = [levels |-> vset.levels, meta |-> vset.meta, next |-> vset.next,
                dropped |-> vset.dropped] /\ vset.dropped = dropped_tables
    BY Zenon DEF StoreInv, ListedOK
  <2>2. CASE DropErase
    BY <2>1, <2>2, Zenon DEF DropErase
  <2>3. CASE DropMark(t)
    <3>1. vset' = [vset EXCEPT !.dropped = @ \cup {t}] /\ dropped_tables' = dropped_tables \cup {t}
      BY <2>3, Zenon DEF DropMark, VsApply, DroppedPrefix
    <3> QED
      BY <2>1, <3>1, Zenon
  <2>4. CASE Undrop(t)
    <3>1. vset' = [vset EXCEPT !.dropped = @ \ {t}] /\ dropped_tables' = dropped_tables \ {t}
      BY <2>4, Zenon DEF Undrop, VsApply, UndroppedPrefix
    <3> QED
      BY <2>1, <3>1, Zenon
  <2> QED
    BY <2>2, <2>3, <2>4, Zenon
<1>4. Listed' = Listed
  BY <1>3, Zenon DEF Listed
<1>5. ListedOK' /\ JobOK'
  BY <1>1, <1>3, <1>4, Zenon DEF StoreInv, ListedOK, JobOK
<1>6. HandsOK' /\ FilesOK'
  BY <1>1, <1>3, RowsKept, Zenon DEF StoreInv, HandsOK, FilesOK
<1> QED
  BY <1>1, <1>2, <1>3, <1>4, <1>5, <1>6, Zenon DEF StoreInv

\* The files a compaction takes are those of two levels, and each is deleted at
\* the level it is listed at.
LEMMA CompactedFiles ==
  ASSUME ListedOK
  PROVE  /\ CompactionInputs \subseteq Listed
         /\ MergedFiles(CompactionInputs) = {p \in vset.levels : p[2] \in CompactionInputs}
<1> DEFINE S == VsFiles(vset, compactor.source)
           T == VsFiles(vset, compactor.target)
<1>1. /\ CompactionInputs = S \cup T
      /\ \A f \in S : <<compactor.source, f>> \in vset.levels
      /\ \A f \in T : <<compactor.target, f>> \in vset.levels
  <2>1. \A p \in vset.levels : p = <<p[1], p[2]>>
    BY DEF ListedOK
  <2> QED
    BY <2>1, Zenon DEF CompactionInputs, VsFiles
<1>2. S \cup T \subseteq Listed
  BY Zenon DEF VsFiles, Listed
<1> DEFINE at(f) == <<IF f \in S THEN compactor.source ELSE compactor.target, f>>
<1>3. MergedFiles(CompactionInputs) = {at(f) : f \in S \cup T}
  BY <1>1, Zenon DEF MergedFiles
<1>4. \A f \in S \cup T : at(f) \in vset.levels /\ at(f)[2] = f
  BY <1>1, Zenon
<1> HIDE DEF S, T, at
<1>5. \A p \in vset.levels : p[2] \in S \cup T => p = at(p[2])
  BY <1>4, Zenon DEF ListedOK
<1> DEFINE M == {at(f) : f \in S \cup T}
           P == {p \in vset.levels : p[2] \in S \cup T}
<1>6. M \subseteq P
  BY <1>4, Zenon
<1>7. P \subseteq M
  BY <1>5, Zenon
<1> QED
  BY <1>1, <1>2, <1>3, <1>6, <1>7, Zenon

\* What a merge makes of the counts.
Counted(ins, outs) ==
  /\ sst_row_count' = sst_row_count + RowDelta(ins, outs, Key)
  /\ table_rows' = [t \in Table |-> table_rows[t] + RowDelta(ins, outs, KeysOf(t))]

\* A merge writes nothing but rows.
LEMMA ChunkRows ==
  ASSUME NEW chunk, NEW r \in ChunkFile(chunk)
  PROVE  IsRow(r)
<1>1. \E k, b, e, v : r = [key |-> k, begin |-> b, end |-> e, val |-> v]
  BY Zenon DEF ChunkFile, DedupSuperseded
<1> QED
  BY <1>1, Zenon DEF IsRow

\* What a merge does: the inputs are merged in up to two chunks, and the merged
\* files are listed in the place of the inputs.
LEMMA StoreMerge ==
  ASSUME StoreInv, NEW cut, NEW ok \in BOOLEAN, CompactMerge(cut, ok)
  PROVE  /\ StoreInv'
         /\ UNCHANGED <<commit_seq, hist, mem, flusher, dropped_tables>>
         /\ compactor'.pc = "retire" /\ compactor'.watermark = compactor.watermark
         /\ vset'.next \in Nat /\ vset.next <= vset'.next
         /\ \A f \in DOMAIN ssts : ssts'[f] = ssts[f]
         /\ \A f \in DOMAIN ssts' : f < vset.next => f \in DOMAIN ssts
         /\ Listed \ CompactionInputs \subseteq Listed'
         /\ \A f \in CompactionInputs :
              \E g \in Listed', chunk \in SUBSET CompactionInputs :
                f \in chunk /\ ssts'[g] = ChunkFile(chunk)
         /\ \E outs :
              /\ ssts' = WithFiles(ssts, outs)
              /\ Listed' = (Listed \ CompactionInputs) \cup DOMAIN outs
              /\ \A f \in DOMAIN outs :
                   /\ f \in Nat /\ f \notin DOMAIN ssts /\ f < vset'.next
                   /\ \A r \in outs[f] : RowOK(r) /\ IsRow(r)
              /\ Counted(OnlyFiles(ssts, CompactionInputs), outs)
<1> DEFINE ins == CompactionInputs
           low == {f \in ins : f <= cut}
           top == IF ins = low THEN vset.next ELSE vset.next + 1
           ids == vset.next .. top
           outs == [f \in ids |-> ChunkFile(IF f = vset.next THEN low ELSE ins \ low)]
<1>1. /\ UNCHANGED <<commit_seq, hist, mem, flusher, dropped_tables>>
      /\ compactor.pc = "called"
      /\ compactor' = [compactor EXCEPT !.pc = "retire", !.inputs = ins]
      /\ ssts' = WithFiles(ssts, outs)
      /\ indexed' \subseteq indexed \cup ids
      /\ vset' = VsInstalled(vset, compactor.target, RangesOf(outs), Largest(ids) + 1,
                             MergedFiles(ins))
  BY Zenon DEF CompactMerge, history
<1>c. Counted(OnlyFiles(ssts, ins), outs)
  BY Zenon DEF CompactMerge, Counted
<1>2. HistOK /\ MemOK /\ HandsOK /\ FilesOK /\ ListedOK /\ JobOK
  BY Zenon DEF StoreInv
<1>3. /\ vset.next \in Nat /\ top \in Nat /\ vset.next <= top
      /\ \A f \in ids : f \in Nat /\ vset.next <= f /\ f < top + 1
      /\ vset.next \in ids /\ (ins # low => vset.next + 1 \in ids /\ vset.next + 1 # vset.next)
  BY <1>2 DEF FilesOK
<1>4. Largest(ids) = top
  <2>1. top \in ids /\ \A f \in ids : f <= top
    BY <1>3
  <2>2. Largest(ids) \in ids /\ \A f \in ids : f <= Largest(ids)
    <3> HIDE DEF ids, top
    <3> QED
      BY <2>1, Zenon DEF Largest
  <2>3. \A f, g \in ids : f <= g /\ g <= f => f = g
    BY <1>3
  <2> HIDE DEF ids, top
  <2> QED
    BY <2>1, <2>2, <2>3, Zenon
<1>5. ins \subseteq Listed /\ MergedFiles(ins) = {p \in vset.levels : p[2] \in ins}
  BY <1>2, CompactedFiles, Zenon
<1>6. \A chunk \in SUBSET ins : \A r \in ChunkFile(chunk) : RowOK(r)
  <2> SUFFICES ASSUME NEW chunk \in SUBSET ins, NEW r \in ChunkFile(chunk)
               PROVE  RowOK(r)
    BY Zenon
  <2> DEFINE S == UNION {ssts[f] : f \in chunk}
  <2>1. \A x \in S : RowOK(x)
    <3>1. \A f \in chunk : f \in DOMAIN ssts
      BY <1>2, <1>5, Zenon DEF ListedOK
    <3> QED
      BY <1>2, <3>1, Zenon DEF FilesOK
  <2>2. r \in DedupSuperseded(S, compactor.watermark, OpenEnded)
    BY Zenon DEF ChunkFile
  <2> HIDE DEF S
  <2> QED
    BY <1>2, <2>1, <2>2, DedupSound, Zenon
<1>7. /\ DOMAIN outs = ids
      /\ \A f \in ids : \E chunk \in SUBSET ins : outs[f] = ChunkFile(chunk)
      /\ outs[vset.next] = ChunkFile(low)
      /\ ins # low => outs[vset.next + 1] = ChunkFile(ins \ low)
  <2> HIDE DEF ids, ins
  <2>1. low \in SUBSET ins /\ ins \ low \in SUBSET ins
    BY Zenon
  <2> HIDE DEF low
  <2> QED
    BY <1>3, <2>1, Zenon
<1> HIDE DEF outs, ids, low, ins
<1>8. \A f \in DOMAIN outs : /\ f \in Nat /\ vset.next <= f /\ f < top + 1
                             /\ \A r \in outs[f] : RowOK(r)
  BY <1>3, <1>6, <1>7, Zenon
<1>9. top + 1 \in Nat /\ vset.next <= top + 1 /\ compactor.target \in Nat
  BY <1>2, <1>3 DEF JobOK
<1>10. /\ FilesOK' /\ ListedOK'
       /\ Listed' = (Listed \ ins) \cup DOMAIN outs
       /\ vset'.next = top + 1
       /\ DOMAIN ssts' = DOMAIN ssts \cup DOMAIN outs
       /\ \A f \in DOMAIN outs : ssts'[f] = outs[f]
       /\ \A f \in DOMAIN ssts : ssts'[f] = ssts[f]
  <2> DEFINE n == top + 1
             M == MergedFiles(ins)
  <2> HIDE DEF top
  <2>1. /\ ssts' = WithFiles(ssts, outs)
        /\ vset' = VsInstalled(vset, compactor.target, RangesOf(outs), n, M)
        /\ indexed' \subseteq indexed \cup DOMAIN outs
        /\ hist' = hist /\ dropped_tables' = dropped_tables
    BY <1>1, <1>4, <1>7, Zenon
  <2>2. n \in Nat /\ vset.next <= n /\ M = {p \in vset.levels : p[2] \in ins}
    BY <1>5, <1>9, Zenon
  <2>3. \A f \in DOMAIN outs : /\ f \in Nat /\ vset.next <= f /\ f < n
                               /\ \A r \in outs[f] : RowOK(r)
    BY <1>8, Zenon
  <2> HIDE DEF n, M
  <2>4. /\ FilesOK' /\ ListedOK'
        /\ Listed' = (Listed \ ins) \cup DOMAIN outs
        /\ vset'.next = n
        /\ DOMAIN ssts' = DOMAIN ssts \cup DOMAIN outs
        /\ \A f \in DOMAIN outs : ssts'[f] = outs[f]
        /\ \A f \in DOMAIN ssts : ssts'[f] = ssts[f]
    BY <1>2, <1>5, <1>9, <2>1, <2>2, <2>3, Install, ZenonT(40)
  <2> QED
    BY <2>4, Zenon DEF n
<1>11. HistOK' /\ MemOK' /\ HandsOK'
  BY <1>1, <1>2, RowsKept, Zenon DEF HistOK, MemOK, VersionOK, EndOK, HandsOK
<1>12. JobOK' /\ compactor'.pc = "retire" /\ compactor'.watermark = compactor.watermark
  <2>1. /\ compactor' = [pc |-> "retire", watermark |-> compactor.watermark,
                         source |-> compactor.source, target |-> compactor.target, inputs |-> ins]
        /\ compactor.source \in Nat
    BY <1>1, <1>2, Zenon DEF JobOK
  <2>2. \A f \in ins : f \in Nat /\ f < vset.next /\ f \notin ids
    BY <1>2, <1>3, <1>5 DEF FilesOK, ListedOK
  <2>3. \A f \in ins : f \in Nat /\ f < vset'.next /\ f \notin Listed'
    BY <1>3, <1>7, <1>9, <1>10, <2>2
  <2> HIDE DEF top
  <2> QED
    BY <1>9, <2>1, <2>3, Zenon DEF JobOK
<1>13. ASSUME NEW f \in ins
       PROVE  \E g \in Listed', chunk \in SUBSET ins : f \in chunk /\ ssts'[g] = ChunkFile(chunk)
  <2>1. CASE f \in low
    BY <1>3, <1>7, <1>10, <2>1, ZenonT(40) DEF low
  <2>2. CASE f \notin low
    BY <1>3, <1>7, <1>10, <2>2
  <2> QED
    BY <2>1, <2>2, Zenon
<1>14. \A f \in DOMAIN ssts' : f < vset.next => f \in DOMAIN ssts
  BY <1>3, <1>8, <1>10
<1>15. /\ ssts' = WithFiles(ssts, outs) /\ Listed' = (Listed \ ins) \cup DOMAIN outs
       /\ \A f \in DOMAIN outs : /\ f \in Nat /\ f \notin DOMAIN ssts /\ f < vset'.next
                                 /\ \A r \in outs[f] : RowOK(r) /\ IsRow(r)
       /\ Counted(OnlyFiles(ssts, ins), outs)
  <2> HIDE DEF top
  <2>1. \A f \in DOMAIN outs : \A r \in outs[f] : IsRow(r)
    BY <1>7, ChunkRows, Zenon
  <2>2. \A f \in DOMAIN outs : f \notin DOMAIN ssts
    BY <1>2, <1>8 DEF FilesOK
  <2> QED
    BY <1>1, <1>c, <1>8, <1>10, <2>1, <2>2, Zenon
<1>16. vset'.next \in Nat /\ vset.next <= vset'.next
  BY <1>9, <1>10, Zenon
<1>17. StoreInv'
  BY <1>10, <1>11, <1>12, Zenon DEF StoreInv
<1> HIDE DEF top
<1> QED
  BY <1>1, <1>10, <1>12, <1>13, <1>14, <1>15, <1>16, <1>17, Zenon DEF ins

\* Unlinking a merged file: the version set does not list it.
LEMMA StoreRetire ==
  ASSUME StoreInv, CompactRetire
  PROVE  /\ StoreInv'
         /\ UNCHANGED <<commit_seq, hist, mem, flusher, vset, dropped_tables>>
         /\ Listed \subseteq DOMAIN ssts'
         /\ DOMAIN ssts' \subseteq DOMAIN ssts
         /\ \A f \in DOMAIN ssts' : ssts'[f] = ssts[f]
         /\ compactor'.pc \in {"idle", "retire"}
         /\ compactor'.watermark \in {0, compactor.watermark}
<1>1. UNCHANGED <<commit_seq, hist, mem, flusher, vset, dropped_tables>>
  BY Zenon DEF CompactRetire, history
<1>2. HistOK /\ MemOK /\ HandsOK /\ FilesOK /\ ListedOK /\ JobOK
  BY Zenon DEF StoreInv
<1>3. PICK f \in compactor.inputs :
        /\ ssts' = [g \in DOMAIN ssts \ {f} |-> ssts[g]]
        /\ indexed' = indexed \ {f}
        /\ compactor' = IF compactor.inputs = {f} THEN NoJob
                        ELSE [compactor EXCEPT !.inputs = @ \ {f}]
  BY Zenon DEF CompactRetire
<1>4. compactor.pc = "retire" /\ f \notin Listed /\ Listed' = Listed
  BY <1>1, <1>2, Zenon DEF CompactRetire, JobOK, Listed
<1>5. /\ DOMAIN ssts' = DOMAIN ssts \ {f}
      /\ \A g \in DOMAIN ssts' : ssts'[g] = ssts[g]
  BY <1>3, Zenon
<1>6. Listed \subseteq DOMAIN ssts'
  BY <1>2, <1>4, <1>5, Zenon DEF ListedOK
<1>7. HistOK' /\ MemOK' /\ HandsOK'
  BY <1>1, <1>2, RowsKept, Zenon DEF HistOK, MemOK, VersionOK, EndOK, HandsOK
<1>8. FilesOK'
  BY <1>1, <1>2, <1>3, <1>5, RowsKept, Zenon DEF FilesOK
<1>9. ListedOK'
  BY <1>1, <1>2, <1>4, <1>5, <1>6, Zenon DEF ListedOK
<1>10. /\ JobOK' /\ compactor'.pc \in {"idle", "retire"}
       /\ compactor'.watermark \in {0, compactor.watermark}
  <2>1. CASE compactor' = NoJob
    BY <2>1, Zenon DEF JobOK, NoJob
  <2>2. CASE compactor' = [compactor EXCEPT !.inputs = @ \ {f}]
    <3>1. compactor' = [pc |-> "retire", watermark |-> compactor.watermark,
                        source |-> compactor.source, target |-> compactor.target,
                        inputs |-> compactor.inputs \ {f}]
      BY <1>2, <1>4, <2>2, Zenon DEF JobOK
    <3> QED
      BY <1>1, <1>2, <1>4, <3>1, Zenon DEF JobOK
  <2> QED
    BY <1>3, <2>1, <2>2, Zenon
<1> QED
  BY <1>1, <1>5, <1>6, <1>7, <1>8, <1>9, <1>10, Zenon DEF StoreInv

\* The steps of a read.
Reading ==
  \/ Begin \/ End
  \/ \E r \in {x \in Reads : x[1] = "get"} : GetMem(r[2])
  \/ \E r \in {x \in Reads : x[1] # "get"} : ScanMem(r[1], r[2])
  \/ GetHot \/ GetLoad \/ GetFile \/ ScanLoad \/ ScanFile
  \/ ReadMerge \/ ReadReturn

\* They leave the engine alone.
LEMMA ReadingLeaves ==
  ASSUME Reading
  PROVE  /\ UNCHANGED <<commit_seq, hist, mem, flusher, vset, ssts, indexed, dropped_tables>>
         /\ UNCHANGED <<compactor, dropping, sst_row_count, table_rows, hurt, dropped_at>>
         /\ UNCHANGED counts
<1>1. UNCHANGED engine
  BY Zenon DEF Reading, Begin, End, GetMem, ScanMem, GetHot, GetLoad, GetFile, ScanLoad, ScanFile,
               ReadMerge, ReadReturn
<1> QED
  BY <1>1, Zenon DEF engine, storage, history

\* The store stays in order.
LEMMA StoreStep ==
  ASSUME StoreInv, [Next]_vars
  PROVE  StoreInv'
<1>1. CASE UNCHANGED vars
  BY <1>1, StoreSame, Zenon DEF vars, storage, history
<1>2. CASE Reading
  BY <1>2, ReadingLeaves, StoreSame, Zenon
<1>3. ASSUME NEW w \in Writes, Commit(w[1], w[2]) PROVE StoreInv'
  <2>1. w[1] \in Key /\ w[2] \in {"put", "del"}
    BY LsmAssumption, Zenon
  <2> QED
    BY <1>3, <2>1, StoreCommit, Zenon
<1>4. CASE FlushDrain \/ FlushClear
  BY <1>4, StoreDrain, Zenon
<1>5. ASSUME NEW ok \in BOOLEAN, FlushWrite(ok) PROVE StoreInv'
  BY <1>5, StoreFlush, Zenon
<1>6. CASE CompactCall(0, 1) \/ CompactCall(1, 2) \/ CompactNothing
  BY <1>6, StoreCall, Zenon
<1>7. ASSUME NEW cut, NEW ok \in BOOLEAN, CompactMerge(cut, ok) PROVE StoreInv'
  BY <1>7, StoreMerge, Zenon
<1>8. CASE CompactRetire
  BY <1>8, StoreRetire, Zenon
<1>9. ASSUME NEW t, DropMark(t) \/ Undrop(t) \/ DropErase PROVE StoreInv'
  BY <1>9, StoreDrop, Zenon
<1> QED
  BY <1>1, <1>2, <1>3, <1>4, <1>5, <1>6, <1>7, <1>8, <1>9, ZenonT(40) DEF Next, Reading

-----------------------------------------------------------------------------
(* What the steps of a read make of its state. *)

\* A read that is not running has nothing.
Fresh(r) ==
  /\ r.op = "none" /\ r.keys = {} /\ r.todo = {} /\ r.acc = {} /\ r.more = {} /\ r.gone = {}
  /\ r.pc \in {"idle", "begun"}

\* Beginning, ending and returning leave a read that has nothing.
LEMMA ReaderFresh ==
  ASSUME Begin \/ End \/ ReadReturn
  PROVE  /\ IsReader' /\ Fresh(reader') /\ hot' = hot
         /\ Begin => reader.pc = "idle" /\ reader'.pc = "begun" /\ reader'.ts = commit_seq - 1
         /\ End => reader.pc = "begun" /\ reader'.pc = "idle" /\ reader'.ts = 0
         /\ ReadReturn => /\ reader.pc \in {"done", "failed"} /\ reader'.pc = "begun"
                          /\ reader'.ts = reader.ts
<1> DEFINE at(p, t) == [pc |-> p, op |-> "none", ts |-> t, keys |-> {}, todo |-> {}, acc |-> {},
                        more |-> {}, leveled |-> FALSE, blind |-> FALSE, hands |-> {},
                        fit |-> TRUE, gap |-> FALSE, gone |-> {}]
<1>1. ASSUME Begin PROVE reader' = at("begun", commit_seq - 1) /\ reader.pc = "idle" /\ hot' = hot
  BY <1>1, Zenon DEF Begin, NoRead
<1>2. ASSUME End PROVE reader' = at("idle", 0) /\ reader.pc = "begun" /\ hot' = hot
  BY <1>2, Zenon DEF End, NoRead
<1>3. ASSUME ReadReturn
      PROVE  reader' = at("begun", reader.ts) /\ reader.pc \in {"done", "failed"} /\ hot' = hot
  BY <1>3, Zenon DEF ReadReturn, NoRead
<1>4. ASSUME NEW p \in {"idle", "begun"}, NEW t, reader' = at(p, t)
      PROVE  IsReader' /\ Fresh(reader') /\ reader'.pc = p /\ reader'.ts = t
  BY <1>4, Zenon DEF IsReader, Fresh
<1> HIDE DEF at
<1> QED
  BY <1>1, <1>2, <1>3, <1>4, Zenon

\* A point read.
LEMMA ReaderGets ==
  ASSUME IsReader, GetHot \/ GetLoad \/ GetFile
  PROVE  /\ IsReader' /\ reader'.op = reader.op /\ reader'.ts = reader.ts
         /\ reader'.keys = reader.keys
         /\ reader'.more = reader.more /\ reader'.blind = reader.blind
         /\ reader'.gone = reader.gone /\ reader'.hands = reader.hands
         /\ reader.pc \in {"hot", "load", "files"}
         /\ reader'.pc \in {"merge", "load", "files", "failed"}
         /\ \A c \in reader'.todo : c \in reader.todo \/ c.file \in DOMAIN vset.meta
<1>1. CASE GetHot
  <2>1. reader.pc = "hot"
    BY <1>1, Zenon DEF GetHot
  <2>4. PICK k \in reader.keys, p \in {"merge", "load"} :
          \E a : reader' = [reader EXCEPT !.pc = p, !.acc = a, !.fit = k \notin DOMAIN hot]
    BY <1>1, Zenon DEF GetHot
  <2>2. PICK a : reader' = [reader EXCEPT !.pc = p, !.acc = a, !.fit = k \notin DOMAIN hot]
    BY <2>4, Zenon
  <2> DEFINE fit == k \notin DOMAIN hot
  <2>3. reader' = [reader EXCEPT !.pc = p, !.acc = a, !.fit = fit]
    BY <2>2, Zenon
  <2> HIDE DEF fit
  <2> QED
    BY <2>1, <2>3, Zenon DEF IsReader
<1>2. CASE GetLoad
  <2>1. reader.pc = "load"
    BY <1>2, Zenon DEF GetLoad
  <2> DEFINE fit(k) ==
        /\ reader.fit
        /\ \A f \in VsCandidates(vset, k) : CountIn(ssts[f], {k}) <= 1
        /\ Cardinality({f \in VsCandidates(vset, k) : VsLevelFor(vset, f) > 0}) <= 1
      todo(k) == {[file |-> f, level |-> VsLevelFor(vset, f), min |-> vset.meta[f].min] :
                    f \in VsCandidates(vset, k)}
  <2>2. PICK k \in reader.keys :
          reader' = [reader EXCEPT !.pc = "files", !.todo = todo(k), !.fit = fit(k)]
    BY <1>2, Zenon DEF GetLoad
  <2>3. \A c \in todo(k) : \E f \in VsCandidates(vset, k) : c.file = f
    OBVIOUS
  <2>4. \A c \in todo(k) : c.file \in DOMAIN vset.meta
    BY <2>3, Zenon DEF VsCandidates
  <2> HIDE DEF fit, todo
  <2>5. reader'.todo = todo(k)
    BY <2>2, Zenon DEF IsReader
  <2> QED
    BY <2>1, <2>2, <2>4, <2>5, ZenonT(40) DEF IsReader
<1>3. CASE GetFile
  <2>1. reader.pc = "files"
    BY <1>3, Zenon DEF GetFile
  <2> DEFINE leveled(k, c) == reader.leveled \/ (Hit(k, c.file) # {} /\ c.level > 0)
  <2>2. PICK k \in reader.keys, c \in reader.todo :
          \/ reader' = Passed(c)
          \/ reader' = [Passed(c) EXCEPT !.pc = "failed"]
          \/ reader' = [Passed(c) EXCEPT !.acc = MergeNewest(reader.acc, NewerHit(k, c.file)),
                                         !.leveled = leveled(k, c)]
    BY <1>3, Zenon DEF GetFile
  <2> HIDE DEF leveled
  <2>3. Passed(c) = [reader EXCEPT !.todo = reader.todo \ {c}]
    BY Zenon DEF Passed
  <2>4. CASE reader' = Passed(c)
    BY <2>1, <2>3, <2>4, ZenonT(40) DEF IsReader
  <2>5. CASE reader' = [Passed(c) EXCEPT !.pc = "failed"]
    <3>1. reader' = [reader EXCEPT !.todo = reader.todo \ {c}, !.pc = "failed"]
      BY <2>3, <2>5, Zenon
    <3> QED
      BY <2>1, <3>1, Zenon DEF IsReader
  <2>6. CASE reader' = [Passed(c) EXCEPT !.acc = MergeNewest(reader.acc, NewerHit(k, c.file)),
                                         !.leveled = leveled(k, c)]
    <3> DEFINE a == MergeNewest(reader.acc, NewerHit(k, c.file))
               b == leveled(k, c)
    <3>1. reader' = [reader EXCEPT !.todo = reader.todo \ {c}, !.acc = a, !.leveled = b]
      BY <2>3, <2>6, Zenon
    <3> HIDE DEF a, b
    <3> QED
      BY <2>1, <3>1, Zenon DEF IsReader
  <2> QED
    BY <2>2, <2>4, <2>5, <2>6, ZenonT(40)
<1> QED
  BY <1>1, <1>2, <1>3, Zenon

\* A read starts with the memtable.
LEMMA ReaderAsksGet ==
  ASSUME IsReader, NEW k, GetMem(k)
  PROVE  /\ IsReader' /\ reader'.op = "get" /\ reader'.ts = reader.ts /\ reader'.keys = {k}
         /\ reader'.more = reader.more /\ reader'.todo = reader.todo
         /\ reader'.gone = dropped_tables \ {dropping}
         /\ reader.pc = "begun" /\ reader'.pc \in {"merge", "hot"} /\ hot' = hot
         /\ IF TableOf[k] \in dropped_tables THEN reader'.acc = {} /\ reader'.pc = "merge"
            ELSE reader'.acc = MemSeen({k})
<1> DEFINE seen == IF TableOf[k] \in dropped_tables THEN {} ELSE MemSeen({k})
           p == IF TableOf[k] \in dropped_tables \/ seen # {} THEN "merge" ELSE "hot"
           g == dropped_tables \ {dropping}
<1>1. reader.pc = "begun" /\ hot' = hot
  BY Zenon DEF GetMem
<1>2. reader' = [[reader EXCEPT !.op = "get", !.keys = {k}, !.gone = g, !.hands = InHands]
                   EXCEPT !.pc = p, !.acc = seen]
  BY Zenon DEF GetMem, Asking
<1>3. p \in {"merge", "hot"} /\ (TableOf[k] \in dropped_tables => p = "merge")
  BY Zenon
<1>4. /\ IsReader' /\ reader'.op = "get" /\ reader'.ts = reader.ts /\ reader'.keys = {k}
      /\ reader'.more = reader.more /\ reader'.todo = reader.todo
      /\ reader'.gone = g /\ reader'.pc = p /\ reader'.acc = seen
  <2> HIDE DEF p, seen, g
  <2> QED
    BY <1>2, Zenon DEF IsReader
<1> QED
  BY <1>1, <1>3, <1>4, Zenon

\* What a scan starts with: the rows of the memtable, its keys and no file yet.
LEMMA ReaderAsksScan ==
  ASSUME IsReader, NEW op, NEW ks, ScanMem(op, ks)
  PROVE  /\ IsReader' /\ reader'.op = op /\ reader'.ts = reader.ts /\ reader'.keys = ks
         /\ reader'.more = reader.more /\ reader'.todo = reader.todo
         /\ reader'.gone = dropped_tables \ {dropping} /\ reader'.hands = InHands
         /\ reader.pc = "begun" /\ reader'.pc \in {"merge", "load"} /\ hot' = hot
         /\ op # "delete" => reader'.pc = "load"
         /\ reader'.acc = MemSeen(ks)
         /\ reader'.blind <=> op = "table" /\ \E k \in ks : TableOf[k] \in dropped_tables
<1> DEFINE p == IF op = "delete" /\ MemSeen(ks) # {} THEN "merge" ELSE "load"
           g == dropped_tables \ {dropping}
           b == op = "table" /\ \E k \in ks : TableOf[k] \in dropped_tables
           a == MemSeen(ks)
<1>1. reader.pc = "begun" /\ hot' = hot
  BY Zenon DEF ScanMem
<1>2. reader' = [[reader EXCEPT !.op = op, !.keys = ks, !.gone = g, !.hands = InHands]
                   EXCEPT !.pc = p, !.acc = a, !.blind = b]
  BY Zenon DEF ScanMem, Asking
<1>3. p \in {"merge", "load"} /\ (op # "delete" => p = "load")
  BY Zenon
<1>4. /\ IsReader' /\ reader'.op = op /\ reader'.ts = reader.ts /\ reader'.keys = ks
      /\ reader'.more = reader.more /\ reader'.todo = reader.todo
      /\ reader'.gone = g /\ reader'.hands = InHands
      /\ reader'.pc = p /\ reader'.acc = a /\ reader'.blind = b
  <2> HIDE DEF p, g, b, a
  <2> QED
    BY <1>2, Zenon DEF IsReader
<1> QED
  BY <1>1, <1>3, <1>4, Zenon

\* A scan lists the files of the version set.
LEMMA ReaderLists ==
  ASSUME IsReader, ScanLoad
  PROVE  /\ IsReader' /\ reader'.op = reader.op /\ reader'.ts = reader.ts
         /\ reader'.keys = reader.keys /\ reader'.acc = reader.acc /\ reader'.more = reader.more
         /\ reader'.blind = reader.blind /\ reader'.gone = reader.gone
         /\ reader'.hands = reader.hands /\ hot' = hot
         /\ reader.op # "get" /\ reader.pc = "load" /\ reader'.pc = "files"
         /\ reader'.todo =
              {[file |-> p[2], level |-> p[1]] :
                 p \in {q \in vset.levels :
                         reader.op = "table" => ~reader.blind /\ q[1] \in ReachedLevels}}
         /\ reader'.gap <=> \E p \in vset.levels : \E l \in 1..p[1] : VsFiles(vset, l) = {}
<1> DEFINE t == {[file |-> p[2], level |-> p[1]] :
                   p \in {q \in vset.levels :
                           reader.op = "table" => ~reader.blind /\ q[1] \in ReachedLevels}}
           f == reader.op # "delete" \/
                  Cardinality({p \in vset.levels : CountIn(ssts[p[2]], reader.keys) > 0}) <= 1
           g == \E p \in vset.levels : \E l \in 1..p[1] : VsFiles(vset, l) = {}
<1>1. reader.pc = "load" /\ reader.op # "get" /\ hot' = hot
  BY Zenon DEF ScanLoad
<1>2. reader' = [reader EXCEPT !.pc = "files", !.todo = t, !.fit = f, !.gap = g]
  BY Zenon DEF ScanLoad
<1>3. /\ IsReader' /\ reader'.op = reader.op /\ reader'.ts = reader.ts
      /\ reader'.keys = reader.keys /\ reader'.acc = reader.acc /\ reader'.more = reader.more
      /\ reader'.blind = reader.blind /\ reader'.gone = reader.gone
      /\ reader'.hands = reader.hands /\ reader'.pc = "files"
      /\ reader'.todo = t /\ reader'.gap = g
  <2> HIDE DEF t, f, g
  <2> QED
    BY <1>2, Zenon DEF IsReader
<1> QED
  BY <1>1, <1>3, Zenon

\* A result is made of what was found.
LEMMA ReaderMerges ==
  ASSUME IsReader, ReadMerge
  PROVE  /\ IsReader' /\ reader'.op = reader.op /\ reader'.ts = reader.ts
         /\ reader'.keys = reader.keys /\ reader'.todo = reader.todo /\ reader'.more = reader.more
         /\ reader'.blind = reader.blind /\ reader'.gone = reader.gone
         /\ reader'.hands = reader.hands /\ reader'.gap = reader.gap /\ hot' = hot
         /\ reader.pc = "merge" \/ (reader.pc = "files" /\ reader.todo = {})
         /\ reader'.pc = "done"
         /\ reader'.acc = {r \in reader.acc : reader.op = "all" \/ r.val = "put"}
<1> DEFINE a == {r \in reader.acc : reader.op = "all" \/ r.val = "put"}
<1>1. /\ reader.pc = "merge" \/ (reader.pc = "files" /\ reader.todo = {}) 
      /\ hot' = hot /\ reader' = [reader EXCEPT !.pc = "done", !.acc = a]
  BY Zenon DEF ReadMerge
<1>2. /\ IsReader' /\ reader'.op = reader.op /\ reader'.ts = reader.ts
      /\ reader'.keys = reader.keys /\ reader'.todo = reader.todo /\ reader'.more = reader.more
      /\ reader'.blind = reader.blind /\ reader'.gone = reader.gone
      /\ reader'.hands = reader.hands /\ reader'.gap = reader.gap
      /\ reader'.pc = "done" /\ reader'.acc = a
  <2> HIDE DEF a
  <2> QED
    BY <1>1, Zenon DEF IsReader
<1> QED
  BY <1>1, <1>2, Zenon

\* What a scan leaves of its state when it passes a file.
SameScan ==
  /\ IsReader' /\ reader'.op = reader.op /\ reader'.ts = reader.ts /\ reader'.keys = reader.keys
  /\ reader'.blind = reader.blind /\ reader'.gone = reader.gone
  /\ reader'.hands = reader.hands /\ reader'.gap = reader.gap

\* The rows of a file whose table is not dropped.
ShownRows(f) == {r \in FileRows(f) : TableOf[r.key] \notin dropped_tables}

\* What a scan makes of its rows while it loads, reads and merges files.
LEMMA ReaderScans ==
  ASSUME IsReader, ScanFile
  PROVE  /\ SameScan /\ reader.pc = "files" /\ reader.op # "get" /\ hot' = hot
         /\ \E c \in reader.todo :
              /\ reader'.todo \subseteq reader.todo
              /\ reader.op # "delete" => reader'.todo = reader.todo \ {c}
              /\ \/ /\ Pruned(c.file) /\ reader'.pc = "files"
                    /\ reader'.acc = reader.acc /\ reader'.more = reader.more
                 \/ /\ c.file \notin DOMAIN ssts /\ reader'.pc = "failed"
                    /\ reader'.acc = reader.acc /\ reader'.more = reader.more
                 \/ /\ c.file \in DOMAIN ssts /\ reader'.pc = "files" /\ reader.op = "table"
                    /\ reader'.acc = reader.acc
                    /\ reader'.more = reader.more \cup FileRows(c.file)
                 \/ /\ c.file \in DOMAIN ssts /\ reader'.pc = "files" /\ reader.op = "delete"
                    /\ reader'.acc = MergeNewest(reader.acc, FileRows(c.file))
                    /\ reader'.more = reader.more
                 \/ /\ c.file \in DOMAIN ssts /\ reader'.pc = "files"
                    /\ reader'.acc = MergeNewest(reader.acc, ShownRows(c.file))
                    /\ reader'.more = reader.more
<1>1. reader.pc = "files" /\ reader.op # "get" /\ hot' = hot
  BY Zenon DEF ScanFile
<1> DEFINE rest(c) == reader.todo \ {c}
           more(c) == reader.more \cup FileRows(c.file)
           all(c) == MergeNewest(reader.acc, FileRows(c.file))
           shown(c) == MergeNewest(reader.acc, ShownRows(c.file))
           left(c) == IF FileRows(c.file) = {} THEN reader.todo \ {c} ELSE {}
<1>2. PICK c \in reader.todo :
        \/ Pruned(c.file) /\ reader' = Passed(c)
        \/ c.file \notin DOMAIN ssts /\ reader' = [Passed(c) EXCEPT !.pc = "failed"]
        \/ /\ c.file \in DOMAIN ssts /\ reader.op = "table"
           /\ reader' = [Passed(c) EXCEPT !.more = more(c)]
        \/ /\ c.file \in DOMAIN ssts /\ reader.op = "delete"
           /\ reader' = [Passed(c) EXCEPT !.acc = all(c), !.todo = left(c)]
        \/ /\ c.file \in DOMAIN ssts
           /\ reader.op # "delete" /\ reader' = [Passed(c) EXCEPT !.acc = shown(c)]
  BY Zenon DEF ScanFile, ShownRows
<1>3. Passed(c) = [reader EXCEPT !.todo = rest(c)]
  BY Zenon DEF Passed
<1>4. left(c) \subseteq reader.todo /\ rest(c) \subseteq reader.todo
  BY Zenon
<1> HIDE DEF rest, more, all, shown, left
<1> USE DEF SameScan, IsReader
<1>5. CASE Pruned(c.file) /\ reader' = Passed(c)
  <2>1. SameScan /\ reader'.pc = reader.pc /\ reader'.acc = reader.acc
        /\ reader'.more = reader.more /\ reader'.todo = rest(c)
    BY <1>3, <1>5, Zenon
  <2> QED
    BY <1>1, <1>4, <1>5, <2>1, Zenon DEF rest
<1>6. CASE c.file \notin DOMAIN ssts /\ reader' = [Passed(c) EXCEPT !.pc = "failed"]
  <2>1. SameScan /\ reader'.pc = "failed" /\ reader'.acc = reader.acc
        /\ reader'.more = reader.more /\ reader'.todo = rest(c)
    BY <1>3, <1>6, Zenon
  <2> QED
    BY <1>1, <1>4, <1>6, <2>1, Zenon DEF rest
<1>7. CASE /\ c.file \in DOMAIN ssts /\ reader.op = "table"
           /\ reader' = [Passed(c) EXCEPT !.more = more(c)]
  <2>1. SameScan /\ reader'.pc = reader.pc /\ reader'.acc = reader.acc
        /\ reader'.more = more(c) /\ reader'.todo = rest(c)
    BY <1>3, <1>7, Zenon
  <2> QED
    BY <1>1, <1>4, <1>7, <2>1, ZenonT(40) DEF rest, more
<1>8. CASE /\ c.file \in DOMAIN ssts /\ reader.op = "delete"
           /\ reader' = [Passed(c) EXCEPT !.acc = all(c), !.todo = left(c)]
  <2>1. SameScan /\ reader'.pc = reader.pc /\ reader'.acc = all(c)
        /\ reader'.more = reader.more /\ reader'.todo = left(c)
    BY <1>3, <1>8, Zenon
  <2> QED
    BY <1>1, <1>4, <1>8, <2>1, ZenonT(40) DEF all
<1>9. CASE /\ c.file \in DOMAIN ssts
           /\ reader.op # "delete" /\ reader' = [Passed(c) EXCEPT !.acc = shown(c)]
  <2>1. SameScan /\ reader'.pc = reader.pc /\ reader'.acc = shown(c)
        /\ reader'.more = reader.more /\ reader'.todo = rest(c)
    BY <1>3, <1>9, Zenon
  <2> QED
    BY <1>1, <1>4, <1>9, <2>1, ZenonT(40) DEF rest, shown
<1> QED
  BY <1>2, <1>5, <1>6, <1>7, <1>8, <1>9, Zenon

\* A drop, and its undoing, only take tables away from those the read asks of.
LEMMA ReaderForgets ==
  ASSUME IsReader, NEW t, DropMark(t) \/ Undrop(t)
  PROVE  /\ IsReader' /\ reader'.gone = reader.gone \ {t} /\ reader'.pc = reader.pc
         /\ reader'.op = reader.op /\ reader'.ts = reader.ts /\ reader'.keys = reader.keys
         /\ reader'.blind = reader.blind /\ reader'.hands = reader.hands
         /\ reader'.gap = reader.gap /\ reader'.todo = reader.todo
         /\ reader'.acc = reader.acc /\ reader'.more = reader.more
<1> DEFINE g == reader.gone \ {t}
<1>1. reader' = [reader EXCEPT !.gone = g]
  BY Zenon DEF DropMark, Undrop
<1> HIDE DEF g
<1>2. /\ IsReader' /\ reader'.gone = g /\ reader'.pc = reader.pc
      /\ reader'.op = reader.op /\ reader'.ts = reader.ts /\ reader'.keys = reader.keys
      /\ reader'.blind = reader.blind /\ reader'.hands = reader.hands
      /\ reader'.gap = reader.gap /\ reader'.todo = reader.todo
      /\ reader'.acc = reader.acc /\ reader'.more = reader.more
  BY <1>1, Zenon DEF IsReader
<1> QED
  BY <1>2, Zenon DEF g

-----------------------------------------------------------------------------
(* The snapshot and the watermark. *)

\* A read keeps its snapshot from its begin to its end.
LEMMA ReadPins ==
  ASSUME IsReader, Reading
  PROVE  /\ IsReader'
         /\ \/ reader.pc # "idle" /\ reader'.pc # "idle" /\ reader'.ts = reader.ts
            \/ reader.pc = "idle" /\ reader'.pc = "begun" /\ reader'.ts = commit_seq - 1
            \/ reader.pc = "begun" /\ reader'.pc = "idle" /\ reader'.ts = 0
<1>1. CASE Begin \/ End \/ ReadReturn
  BY <1>1, ReaderFresh, Zenon
<1>2. CASE GetHot \/ GetLoad \/ GetFile
  BY <1>2, ReaderGets, Zenon
<1>3. ASSUME NEW k, GetMem(k)
      PROVE  IsReader' /\ reader.pc # "idle" /\ reader'.pc # "idle" /\ reader'.ts = reader.ts
  BY <1>3, ReaderAsksGet, Zenon
<1>4. ASSUME NEW op, NEW ks, ScanMem(op, ks)
      PROVE  IsReader' /\ reader.pc # "idle" /\ reader'.pc # "idle" /\ reader'.ts = reader.ts
  BY <1>4, ReaderAsksScan, Zenon
<1>5. CASE ScanLoad
  BY <1>5, ReaderLists, Zenon
<1>6. CASE ScanFile
  BY <1>6, ReaderScans, Zenon DEF SameScan
<1>7. CASE ReadMerge
  BY <1>7, ReaderMerges, Zenon
<1> QED
  BY <1>1, <1>2, <1>3, <1>4, <1>5, <1>6, <1>7, Zenon DEF Reading

\* The steps that are not of the read leave it as it is, but for the tables it
\* asks of.
LEMMA EngineLeavesRead ==
  ASSUME IsReader, [Next]_vars, ~Reading
  PROVE  /\ IsReader' /\ hot' = hot
         /\ reader'.pc = reader.pc /\ reader'.op = reader.op /\ reader'.ts = reader.ts
         /\ reader'.keys = reader.keys /\ reader'.blind = reader.blind
         /\ reader'.hands = reader.hands /\ reader'.gap = reader.gap
         /\ reader'.todo = reader.todo /\ reader'.acc = reader.acc /\ reader'.more = reader.more
         /\ reader'.gone \subseteq reader.gone
<1>1. ASSUME NEW t \in Droppable, DropMark(t) \/ Undrop(t)
      PROVE  hot' = hot
  BY <1>1, Zenon DEF DropMark, Undrop
<1>2. ASSUME NEW t \in Droppable, DropMark(t) \/ Undrop(t)
      PROVE  /\ IsReader' /\ hot' = hot
             /\ reader'.pc = reader.pc /\ reader'.op = reader.op /\ reader'.ts = reader.ts
             /\ reader'.keys = reader.keys /\ reader'.blind = reader.blind
             /\ reader'.hands = reader.hands /\ reader'.gap = reader.gap
             /\ reader'.todo = reader.todo /\ reader'.acc = reader.acc /\ reader'.more = reader.more
             /\ reader'.gone \subseteq reader.gone
  BY <1>1, <1>2, ReaderForgets, Zenon
<1>3. ASSUME ~ \E t \in Droppable : DropMark(t) \/ Undrop(t)
      PROVE  reader' = reader /\ hot' = hot
  <2>1. CASE UNCHANGED vars
    BY <2>1, Zenon DEF vars
  <2>2. CASE Next
    BY <1>3, <2>2, Zenon DEF Next, Reading, Commit, FlushDrain, FlushClear, FlushWrite, CompactCall,
         CompactNothing, CompactRetire, CompactMerge, DropErase
  <2> QED
    BY <2>1, <2>2, Zenon
<1> QED
  BY <1>2, <1>3, Zenon DEF IsReader

\* The clock, and what a compaction was called with.
LEMMA EngineClock ==
  ASSUME StoreInv, [Next]_vars
  PROVE  \/ UNCHANGED <<commit_seq, compactor>>
         \/ commit_seq' = commit_seq + 1 /\ compactor' = compactor /\ reader' = reader
         \/ /\ commit_seq' = commit_seq /\ reader' = reader
            /\ \/ compactor'.watermark \in {0, Watermark}
               \/ compactor.pc # "idle" /\ compactor'.watermark = compactor.watermark
<1>1. CASE UNCHANGED vars
  BY <1>1, Zenon DEF vars
<1>2. CASE Reading
  BY <1>2, ReadingLeaves, Zenon
<1>3. ASSUME NEW w \in Writes, Commit(w[1], w[2])
      PROVE  commit_seq' = commit_seq + 1 /\ compactor' = compactor /\ reader' = reader
  BY <1>3, Zenon DEF Commit
<1>4. ASSUME NEW t, NEW ok, \/ FlushDrain \/ FlushClear \/ FlushWrite(ok)
                            \/ DropMark(t) \/ Undrop(t) \/ DropErase
      PROVE  UNCHANGED <<commit_seq, compactor>>
  BY <1>4, Zenon DEF FlushDrain, FlushClear, FlushWrite, DropMark, Undrop, DropErase
<1>5. ASSUME NEW a, NEW b, CompactCall(a, b)
      PROVE  commit_seq' = commit_seq /\ reader' = reader /\ compactor'.watermark = Watermark
  BY <1>5, Zenon DEF CompactCall, NoJob
<1>6. CASE CompactNothing
  BY <1>6, Zenon DEF CompactNothing, NoJob
<1>7. CASE CompactRetire
  <2>1. compactor'.watermark \in {0, compactor.watermark}
    BY <1>7, StoreRetire, Zenon
  <2>2. commit_seq' = commit_seq /\ reader' = reader /\ compactor.pc = "retire"
    BY <1>7, Zenon DEF CompactRetire
  <2> QED
    BY <2>1, <2>2, Zenon
<1>8. ASSUME NEW cut, NEW ok \in BOOLEAN, CompactMerge(cut, ok)
      PROVE  /\ commit_seq' = commit_seq /\ reader' = reader /\ compactor.pc # "idle"
             /\ compactor'.watermark = compactor.watermark
  <2>1. compactor'.watermark = compactor.watermark
    BY <1>8, StoreMerge, Zenon
  <2>2. commit_seq' = commit_seq /\ reader' = reader /\ compactor.pc = "called"
    BY <1>8, Zenon DEF CompactMerge
  <2> QED
    BY <2>1, <2>2, Zenon
<1> QED
  BY <1>1, <1>2, <1>3, <1>4, <1>5, <1>6, <1>7, <1>8, Zenon DEF Next, Reading

\* The oldest snapshot only moves on, and stays above the watermark that a
\* running compaction was called with.
LEMMA PinStep ==
  ASSUME StoreInv, PinInv, IsReader, [Next]_vars
  PROVE  PinInv' /\ Watermark \in Nat /\ Watermark' \in Nat /\ Watermark <= Watermark'
<1>1. commit_seq \in Nat \ {0}
  BY DEF StoreInv, HistOK
<1>2. Watermark \in Nat /\ Watermark < commit_seq
  BY <1>1 DEF Watermark, PinInv
<1>3. \/ commit_seq' = commit_seq + 1 /\ reader' = reader
      \/ /\ commit_seq' = commit_seq
         /\ \/ reader.pc # "idle" /\ reader'.pc # "idle" /\ reader'.ts = reader.ts
            \/ reader.pc = "idle" /\ reader'.pc = "begun" /\ reader'.ts = commit_seq - 1
            \/ reader.pc = "begun" /\ reader'.pc = "idle" /\ reader'.ts = 0
            \/ reader'.pc = reader.pc /\ reader'.ts = reader.ts
  <2>1. CASE Reading
    BY <2>1, ReadPins, ReadingLeaves, Zenon
  <2>2. CASE ~Reading
    BY <2>2, EngineClock, EngineLeavesRead, Zenon
  <2> QED
    BY <2>1, <2>2, Zenon
<1>4. /\ reader'.ts \in Nat /\ (reader'.pc # "idle" => reader'.ts < commit_seq')
      /\ Watermark' \in Nat /\ Watermark <= Watermark'
  BY <1>1, <1>3 DEF PinInv, Watermark
<1>5. compactor'.watermark \in Nat /\ (compactor'.pc # "idle" => compactor'.watermark <= Watermark')
  <2>1. CASE compactor' = compactor
    BY <1>2, <1>4, <2>1 DEF PinInv
  <2>2. CASE compactor'.watermark \in {0, Watermark}
    BY <1>2, <1>4, <2>2
  <2>3. CASE compactor.pc # "idle" /\ compactor'.watermark = compactor.watermark
    BY <1>2, <1>4, <2>3 DEF PinInv
  <2> QED
    BY <2>1, <2>2, <2>3, EngineClock, Zenon
<1> QED
  BY <1>2, <1>4, <1>5, Zenon DEF PinInv

-----------------------------------------------------------------------------
(* No version that a snapshot may ask for is lost. *)

\* The history only grows, by commits.
LEMMA HistStep ==
  ASSUME StoreInv, [Next]_vars
  PROVE  /\ \A t \in 1..Len(hist) : t \in 1..Len(hist') /\ hist'[t] = hist[t]
         /\ \/ hist' = hist
            \/ \E k \in Key, v \in {"put", "del"} :
                 /\ Commit(k, v) /\ Len(hist') = Len(hist) + 1
                 /\ hist'[Len(hist) + 1] = [key |-> k, val |-> v]
<1>1. CASE hist' = hist
  BY <1>1, Zenon
<1>2. ASSUME NEW k \in Key, NEW v \in {"put", "del"}, Commit(k, v)
      PROVE  /\ \A t \in 1..Len(hist) : t \in 1..Len(hist') /\ hist'[t] = hist[t]
             /\ Len(hist') = Len(hist) + 1
             /\ hist'[Len(hist) + 1] = [key |-> k, val |-> v]
  <2>1. /\ Len(hist') = Len(hist) + 1
        /\ hist'[Len(hist) + 1] = [key |-> k, val |-> v]
        /\ \A t \in 1..Len(hist) : hist'[t] = hist[t]
    BY <1>2, HistGrows, Zenon DEF StoreInv
  <2>2. Len(hist) \in Nat
    BY HistFacts, Zenon DEF StoreInv
  <2>3. \A t \in 1..Len(hist) : t \in 1..(Len(hist) + 1)
    BY <2>2
  <2> QED
    BY <2>1, <2>3, Zenon
<1>3. \/ hist' = hist
      \/ \E k \in Key, v \in {"put", "del"} : Commit(k, v)
  <2>1. \A w \in Writes : w[1] \in Key /\ w[2] \in {"put", "del"}
    BY LsmAssumption, Zenon
  <2>2. CASE UNCHANGED vars
    BY <2>2, Zenon DEF vars, history
  <2>3. CASE Reading
    BY <2>3, ReadingLeaves, Zenon
  <2>4. CASE Next /\ ~Reading
    BY <2>1, <2>4, Zenon DEF Next, Reading, FlushDrain, FlushClear, FlushWrite, CompactCall,
         CompactNothing, CompactRetire, CompactMerge, DropMark, Undrop, DropErase, history
  <2> QED
    BY <2>2, <2>3, <2>4, Zenon
<1> QED
  BY <1>1, <1>2, <1>3, Zenon

\* What is disturbed stays so.
LEMMA SafeBack ==
  ASSUME DropInv, HistOK, [Next]_vars, NEW k \in Key
  PROVE  /\ Safe(k)' => Safe(k)
         /\ dropped_at[TableOf[k]] # 0 => dropped_at'[TableOf[k]] # 0
<1>1. hurt \subseteq hurt'
  <2>1. CASE UNCHANGED vars
    BY <2>1, Zenon DEF vars, history
  <2>2. CASE Reading
    BY <2>2, ReadingLeaves, Zenon
  <2>3. CASE Next /\ ~Reading
    BY <2>3, Zenon DEF Next, Reading, Commit, FlushDrain, FlushClear, FlushWrite, CompactCall,
         CompactNothing, CompactRetire, CompactMerge, DropMark, Undrop, DropErase, history
  <2> QED
    BY <2>1, <2>2, <2>3, Zenon
<1>2. \/ dropped_at' = dropped_at
      \/ \E t \in Droppable : dropped_at' = [dropped_at EXCEPT ![t] = commit_seq]
  <2>1. CASE UNCHANGED vars
    BY <2>1, Zenon DEF vars, history
  <2>2. CASE Reading
    BY <2>2, ReadingLeaves, Zenon
  <2>3. CASE Next /\ ~Reading
    BY <2>3, Zenon DEF Next, Reading, Commit, FlushDrain, FlushClear, FlushWrite, CompactCall,
         CompactNothing, CompactRetire, CompactMerge, DropMark, Undrop, DropErase, history
  <2> QED
    BY <2>1, <2>2, <2>3, Zenon
<1>3. commit_seq # 0 /\ TableOf[k] \in Table /\ dropped_at \in [Table -> Nat]
  <2>1. commit_seq # 0 /\ dropped_at \in [Table -> Nat]
    BY DEF HistOK, DropInv
  <2> QED
    BY <2>1, Zenon DEF Table
<1> QED
  BY <1>1, <1>2, <1>3, Zenon DEF Safe

\* A version that is superseded stays so.
LEMMA SupersededStays ==
  ASSUME StoreInv, PinInv, IsReader, [Next]_vars, NEW k, NEW t, Superseded(k, t)
  PROVE  Superseded(k, t)'
<1>1. PICK e \in 1..Len(hist) : hist[e].key = k /\ t < e /\ e <= Watermark
  BY Zenon DEF Superseded
<1>2. e \in 1..Len(hist') /\ hist'[e] = hist[e]
  BY HistStep, Zenon
<1>3. Watermark \in Nat /\ Watermark' \in Nat /\ Watermark <= Watermark'
  BY PinStep, Zenon
<1>4. Len(hist) \in Nat
  BY HistFacts, Zenon DEF StoreInv
<1>5. e <= Watermark'
  BY <1>1, <1>3, <1>4
<1> QED
  BY <1>1, <1>2, <1>5, Zenon DEF Superseded

\* Files are never written over, and only a merge takes one out of the version
\* set.
LEMMA FilesStep ==
  ASSUME StoreInv, [Next]_vars
  PROVE  /\ vset.next \in Nat /\ vset'.next \in Nat /\ vset.next <= vset'.next
         /\ \A f \in DOMAIN ssts' : f < vset.next => f \in DOMAIN ssts /\ ssts'[f] = ssts[f]
         /\ \/ \A f \in Listed : f \in Listed' /\ ssts'[f] = ssts[f]
            \/ \E cut \in CompactionInputs, ok \in BOOLEAN : CompactMerge(cut, ok)
<1> DEFINE Grows == /\ vset.next \in Nat /\ vset'.next \in Nat /\ vset.next <= vset'.next
                    /\ \A f \in DOMAIN ssts' : f < vset.next => f \in DOMAIN ssts /\ ssts'[f] = ssts[f]
           Lists == \A f \in Listed : f \in Listed' /\ ssts'[f] = ssts[f]
<1>1. /\ vset.next \in Nat /\ Listed \subseteq DOMAIN ssts /\ (\A f \in DOMAIN ssts : f < vset.next)
      /\ vset.next <= vset.next /\ ~(vset.next < vset.next)
  BY DEF StoreInv, FilesOK, ListedOK
<1>2. ASSUME UNCHANGED <<vset, ssts>> PROVE Grows /\ Lists
  <2>1. Listed' = Listed /\ vset'.next = vset.next
    BY <1>2, Zenon DEF Listed
  <2> QED
    BY <1>1, <1>2, <2>1, Zenon
<1>3. ASSUME NEW ok \in BOOLEAN, FlushWrite(ok) PROVE Grows /\ Lists
  <2>1. /\ Listed' = Listed \cup {vset.next} /\ vset'.next = vset.next + 1
        /\ DOMAIN ssts' = DOMAIN ssts \cup {vset.next}
        /\ \A f \in DOMAIN ssts : ssts'[f] = ssts[f]
    BY <1>3, StoreFlush, Zenon
  <2>2. vset.next + 1 \in Nat /\ vset.next <= vset.next + 1
    BY <1>1
  <2> QED
    BY <1>1, <2>1, <2>2, Zenon
<1>4. ASSUME NEW cut, NEW ok \in BOOLEAN, CompactMerge(cut, ok) PROVE Grows
  BY <1>1, <1>4, StoreMerge, Zenon
<1>5. ASSUME CompactRetire PROVE Grows /\ Lists
  <2>1. /\ vset' = vset /\ Listed \subseteq DOMAIN ssts' /\ DOMAIN ssts' \subseteq DOMAIN ssts
        /\ \A f \in DOMAIN ssts' : ssts'[f] = ssts[f]
    BY <1>5, StoreRetire, Zenon
  <2>2. Listed' = Listed
    BY <2>1, Zenon DEF Listed
  <2> QED
    BY <1>1, <2>1, <2>2, Zenon
<1>6. ASSUME NEW t, DropMark(t) \/ Undrop(t) \/ DropErase PROVE Grows /\ Lists
  <2>1. Listed' = Listed /\ vset'.next = vset.next /\ ssts' = ssts
    BY <1>6, StoreDrop, Zenon
  <2> QED
    BY <1>1, <2>1, Zenon
<1>7. ASSUME UNCHANGED vars \/ Reading PROVE Grows /\ Lists
  <2>1. UNCHANGED <<vset, ssts>>
    BY <1>7, ReadingLeaves, Zenon DEF vars, storage
  <2> QED
    BY <1>2, <2>1, Zenon
<1>8. ASSUME \/ \E w \in Writes : Commit(w[1], w[2])
             \/ FlushDrain \/ FlushClear \/ CompactCall(0, 1) \/ CompactCall(1, 2) \/ CompactNothing
      PROVE  Grows /\ Lists
  <2>1. UNCHANGED <<vset, ssts>>
    BY <1>8, Zenon DEF Commit, FlushDrain, FlushClear, CompactCall, CompactNothing, storage
  <2> QED
    BY <1>2, <2>1, Zenon
<1> HIDE DEF Grows, Lists
<1>9. Grows /\ (Lists \/ \E cut \in CompactionInputs, ok \in BOOLEAN : CompactMerge(cut, ok))
  BY <1>3, <1>4, <1>5, <1>6, <1>7, <1>8, Zenon DEF Next, Reading
<1> QED
  BY <1>9, Zenon DEF Grows, Lists

\* A version in a listed file stays in one, until it is superseded.
LEMMA StoredStays ==
  ASSUME StoreInv, PinInv, IsReader, [Next]_vars, NEW k, NEW t, Stored(k, t)
  PROVE  Stored(k, t)' \/ Superseded(k, t)'
<1>1. PICK f \in Listed : \E r \in ssts[f] : r.key = k /\ r.begin = t
  BY Zenon DEF Stored
<1>2. PICK x \in ssts[f] : x.key = k /\ x.begin = t
  BY <1>1, Zenon
<1>3. CASE f \in Listed' /\ ssts'[f] = ssts[f]
  BY <1>2, <1>3, Zenon DEF Stored
<1>4. ASSUME NEW cut, NEW ok \in BOOLEAN, CompactMerge(cut, ok), f \in CompactionInputs
      PROVE  Stored(k, t)' \/ Superseded(k, t)'
  <2>1. PICK g \in Listed', chunk \in SUBSET CompactionInputs :
          f \in chunk /\ ssts'[g] = ChunkFile(chunk)
    BY <1>4, StoreMerge, Zenon
  <2> DEFINE S == UNION {ssts[h] : h \in chunk}
  <2>2. x \in S /\ ssts'[g] = DedupSuperseded(S, compactor.watermark, OpenEnded)
    BY <1>2, <2>1, Zenon DEF ChunkFile
  <2>3. \A r \in S : RowOK(r)
    <3>1. \A h \in chunk : h \in DOMAIN ssts
      BY CompactedFiles, Zenon DEF StoreInv, ListedOK
    <3> QED
      BY <3>1, Zenon DEF StoreInv, FilesOK
  <2>4. compactor.watermark \in Nat /\ compactor.watermark <= Watermark
    <3>1. compactor.pc = "called"
      BY <1>4, Zenon DEF CompactMerge
    <3> QED
      BY <3>1, Zenon DEF PinInv
  <2> HIDE DEF S
  <2>5. \/ \E r \in ssts'[g] : r.key = k /\ r.begin = t
        \/ \E e \in 1..Len(hist) : hist[e].key = k /\ t < e /\ e <= compactor.watermark
    <3>1. HistOK /\ compactor.watermark \in Nat /\ x \in S
      BY <2>2, <2>4, Zenon DEF StoreInv
    <3>2. \/ \E r \in DedupSuperseded(S, compactor.watermark, OpenEnded) :
                r.key = x.key /\ r.begin = x.begin
          \/ \E e \in 1..Len(hist) :
                hist[e].key = x.key /\ x.begin < e /\ e <= compactor.watermark
      BY <2>3, <3>1, DedupKeeps, Zenon
    <3> QED
      BY <1>2, <2>2, <3>2, Zenon
  <2>6. CASE \E r \in ssts'[g] : r.key = k /\ r.begin = t
    BY <2>6, Zenon DEF Stored
  <2>7. CASE \E e \in 1..Len(hist) : hist[e].key = k /\ t < e /\ e <= compactor.watermark
    <3>1. PICK e \in 1..Len(hist) : hist[e].key = k /\ t < e /\ e <= compactor.watermark
      BY <2>7, Zenon
    <3>2. Len(hist) \in Nat /\ Watermark \in Nat
      BY HistFacts, PinStep, Zenon DEF StoreInv
    <3>3. e <= Watermark
      BY <2>4, <3>1, <3>2
    <3>4. Superseded(k, t)
      BY <3>1, <3>3, Zenon DEF Superseded
    <3> QED
      BY <3>4, SupersededStays, Zenon
  <2> QED
    BY <2>5, <2>6, <2>7, Zenon
<1>5. ASSUME NEW cut, NEW ok \in BOOLEAN, CompactMerge(cut, ok), f \notin CompactionInputs
      PROVE  f \in Listed' /\ ssts'[f] = ssts[f]
  <2>1. f \in DOMAIN ssts
    BY Zenon DEF StoreInv, ListedOK
  <2> QED
    BY <1>5, <2>1, StoreMerge, Zenon
<1> QED
  BY <1>3, <1>4, <1>5, FilesStep, Zenon

\* A version leaves the memtable for the flusher's hands, and these for a file.
LEMMA MemStays ==
  ASSUME StoreInv, DropInv, [Next]_vars, NEW k \in Key, NEW t, Safe(k)',
         t \in DOMAIN mem[k] \/ InFlight(k, t)
  PROVE  t \in DOMAIN mem'[k] \/ InFlight(k, t)' \/ Stored(k, t)'
<1>1. CASE UNCHANGED <<mem, flusher>>
  BY <1>1, Zenon DEF InFlight
<1>2. ASSUME NEW j \in Key, NEW v \in {"put", "del"}, Commit(j, v)
      PROVE  t \in DOMAIN mem'[k] \/ InFlight(k, t)'
  <2>1. flusher' = flusher
    BY <1>2, Zenon DEF Commit
  <2>2. DOMAIN mem'[j] = DOMAIN mem[j] \cup {commit_seq} /\ \A i \in Key \ {j} : mem'[i] = mem[i]
    BY <1>2, StoreCommit, Zenon
  <2>3. DOMAIN mem[k] \subseteq DOMAIN mem'[k]
    BY <2>2, Zenon
  <2> QED
    BY <2>1, <2>3, Zenon DEF InFlight
<1>3. CASE FlushDrain
  <2>1. flusher.pc = "idle" /\ flusher' = [pc |-> "drained", rows |-> MemRows]
    BY <1>3, Zenon DEF FlushDrain
  <2>2. t \in DOMAIN mem[k]
    BY <2>1, Zenon DEF InFlight
  <2>3. \E r \in MemRows : r.key = k /\ r.begin = t
    BY <2>2, DrainedRows, Zenon
  <2>4. flusher'.pc = "drained" /\ flusher'.rows = MemRows
    BY <2>1, Zenon
  <2> QED
    BY <2>3, <2>4, Zenon DEF InFlight
<1>4. CASE FlushClear
  <2>1. flusher.pc = "listed" /\ hurt' = hurt \cup {j \in Key : DOMAIN mem[j] # {}}
    BY <1>4, Zenon DEF FlushClear
  <2>2. t \in DOMAIN mem[k]
    BY <2>1, Zenon DEF InFlight
  <2>3. k \in hurt'
    BY <2>1, <2>2, Zenon
  <2> QED
    BY <2>3, Zenon DEF Safe
<1>5. ASSUME NEW ok \in BOOLEAN, FlushWrite(ok)
      PROVE  t \in DOMAIN mem'[k] \/ Stored(k, t)'
  <2>1. mem' = mem
    BY <1>5, Zenon DEF FlushWrite
  <2>2. vset.next \in Listed' /\ ssts'[vset.next] = flusher.rows
    <3>1. Listed' = Listed \cup {vset.next} /\ ssts'[vset.next] = flusher.rows
      BY <1>5, StoreFlush, Zenon
    <3> QED
      BY <3>1, Zenon
  <2> QED
    BY <2>1, <2>2, Zenon DEF InFlight, Stored
<1>6. CASE DropErase
  <2>1. /\ flusher' = flusher /\ dropped_at' = dropped_at /\ dropping # "none"
        /\ mem' = Erased(dropping)
    BY <1>6, Zenon DEF DropErase, history
  <2>2. TableOf[k] # dropping
    BY <2>1, Zenon DEF DropInv, Safe
  <2>3. mem'[k] = mem[k]
    BY <2>1, <2>2, Zenon DEF Erased
  <2> QED
    BY <2>1, <2>3, Zenon DEF InFlight
<1>7. \/ UNCHANGED <<mem, flusher>>
      \/ \E j \in Key, v \in {"put", "del"} : Commit(j, v)
      \/ FlushDrain \/ FlushClear \/ DropErase \/ \E ok \in BOOLEAN : FlushWrite(ok)
  <2>1. \A w \in Writes : w[1] \in Key /\ w[2] \in {"put", "del"}
    BY LsmAssumption, Zenon
  <2>2. CASE UNCHANGED vars
    BY <2>2, Zenon DEF vars, storage
  <2>3. CASE Reading
    BY <2>3, ReadingLeaves, Zenon
  <2>4. CASE Next /\ ~Reading
    BY <2>1, <2>4, Zenon DEF Next, Reading, CompactCall, CompactNothing, CompactRetire,
         CompactMerge, DropMark, Undrop, storage
  <2> QED
    BY <2>2, <2>3, <2>4, Zenon
<1> QED
  BY <1>1, <1>2, <1>3, <1>4, <1>5, <1>6, <1>7, Zenon

\* No step loses a version that a snapshot may ask for of an undisturbed key.
LEMMA KeptStep ==
  ASSUME StoreInv, PinInv, DropInv, IsReader, KeptInv, [Next]_vars
  PROVE  KeptInv'
<1> SUFFICES ASSUME NEW k \in Key, Safe(k)', NEW t \in 1..Len(hist'), hist'[t].key = k
             PROVE  t \in DOMAIN mem'[k] \/ InFlight(k, t)' \/ Stored(k, t)' \/ Superseded(k, t)'
  BY Zenon DEF KeptInv
<1>1. Safe(k)
  BY SafeBack, Zenon DEF StoreInv
<1>2. CASE t \in 1..Len(hist)
  <2>1. hist[t].key = k
    BY <1>2, HistStep, Zenon
  <2>2. t \in DOMAIN mem[k] \/ InFlight(k, t) \/ Stored(k, t) \/ Superseded(k, t)
    BY <1>1, <1>2, <2>1, Zenon DEF KeptInv
  <2>3. CASE t \in DOMAIN mem[k] \/ InFlight(k, t)
    BY <2>3, MemStays, Zenon
  <2>4. CASE Stored(k, t)
    BY <2>4, StoredStays, Zenon
  <2>5. CASE Superseded(k, t)
    BY <2>5, SupersededStays, Zenon
  <2> QED
    BY <2>2, <2>3, <2>4, <2>5, Zenon
<1>3. CASE t \notin 1..Len(hist)
  <2>1. PICK j \in Key, v \in {"put", "del"} :
          /\ Commit(j, v) /\ Len(hist') = Len(hist) + 1
          /\ hist'[Len(hist) + 1] = [key |-> j, val |-> v]
    BY <1>3, HistStep, Zenon
  <2>2. Len(hist) \in Nat /\ commit_seq = Len(hist) + 1
    BY HistFacts, Zenon DEF StoreInv
  <2>3. t = commit_seq
    BY <1>3, <2>1, <2>2
  <2>4. j = k
    BY <2>1, <2>2, <2>3
  <2>5. DOMAIN mem'[j] = DOMAIN mem[j] \cup {commit_seq}
    BY <2>1, StoreCommit, Zenon
  <2> QED
    BY <2>3, <2>4, <2>5, Zenon
<1> QED
  BY <1>2, <1>3, Zenon

-----------------------------------------------------------------------------
(* Drops. *)

\* What the memtable keeps of a dropped and erased table began after the drop.
LEMMA DropStep ==
  ASSUME StoreInv, DropInv, [Next]_vars
  PROVE  DropInv'
<1>1. commit_seq \in Nat /\ commit_seq # 0 /\ commit_seq' \in Nat /\ commit_seq <= commit_seq'
  <2>1. commit_seq \in Nat /\ commit_seq # 0
    BY DEF StoreInv, HistOK
  <2>2. commit_seq' = commit_seq \/ commit_seq' = commit_seq + 1
    BY EngineClock, Zenon
  <2> QED
    BY <2>1, <2>2
<1>2. dropped_at \in [Table -> Nat] /\ \A t \in Table : dropped_at[t] \in Nat
  BY Zenon DEF DropInv
<1>3. ASSUME UNCHANGED <<dropped_at, dropped_tables, dropping>>,
             \A k \in Key : \A b \in DOMAIN mem'[k] : b \in DOMAIN mem[k] \/ b = commit_seq
      PROVE  DropInv'
  <2>1. \A t \in Table : dropped_at[t] <= commit_seq'
    BY <1>1, <1>2 DEF DropInv
  <2>2. ASSUME NEW k \in Key, TableOf[k] \in dropped_tables \ {dropping},
               NEW b \in DOMAIN mem'[k]
        PROVE  dropped_at[TableOf[k]] <= b
    <3>1. TableOf[k] \in Table
      BY Zenon DEF Table
    <3>2. CASE b = commit_seq
      BY <3>1, <3>2, Zenon DEF DropInv
    <3>3. CASE b \in DOMAIN mem[k]
      BY <2>2, <3>3, Zenon DEF DropInv
    <3> QED
      BY <1>3, <3>2, <3>3, Zenon
  <2> QED
    BY <1>3, <2>1, <2>2, Zenon DEF DropInv
<1>4. ASSUME NEW t \in Droppable, DropMark(t) PROVE DropInv'
  <2>1. /\ dropping = "none" /\ dropping' = t /\ dropped_tables' = dropped_tables \cup {t}
        /\ dropped_at' = [dropped_at EXCEPT ![t] = commit_seq]
        /\ mem' = mem /\ commit_seq' = commit_seq
    BY <1>4, Zenon DEF DropMark
  <2>2. t \in Table
    BY LsmAssumption, Zenon DEF Table
  <2>3. /\ dropped_at' \in [Table -> Nat] /\ dropped_at'[t] = commit_seq
        /\ \A u \in Table \ {t} : dropped_at'[u] = dropped_at[u]
    BY <1>1, <1>2, <2>1, <2>2, Zenon
  <2>4. \A u \in Table : dropped_at'[u] <= commit_seq
    BY <1>1, <2>3 DEF DropInv
  <2>5. \A u \in dropped_tables : u \in Table
    BY LsmAssumption, Zenon DEF DropInv, Table
  <2>6. \A u \in dropped_tables' : dropped_at'[u] # 0
    BY <1>1, <2>1, <2>3, <2>5, Zenon DEF DropInv
  <2>7. "none" \notin dropped_tables
    BY LsmAssumption, Zenon DEF DropInv
  <2>8. ASSUME NEW k \in Key, TableOf[k] \in dropped_tables' \ {dropping'}
        PROVE  \A b \in DOMAIN mem'[k] : dropped_at'[TableOf[k]] <= b
    <3>1. TableOf[k] \in dropped_tables \ {dropping} /\ TableOf[k] # t
      BY <2>1, <2>7, <2>8, Zenon
    <3> QED
      BY <2>1, <2>3, <2>5, <3>1, Zenon DEF DropInv
  <2> QED
    BY <2>1, <2>3, <2>4, <2>6, <2>8, Zenon DEF DropInv
<1>5. ASSUME NEW t \in Droppable, Undrop(t) PROVE DropInv'
  <2>1. /\ dropping = "none" /\ dropped_tables' = dropped_tables \ {t}
        /\ UNCHANGED <<mem, commit_seq, dropping, dropped_at>>
    BY <1>5, Zenon DEF Undrop, history
  <2> QED
    BY <2>1, Zenon DEF DropInv
<1>6. CASE DropErase
  <2>1. /\ dropping' = "none" /\ mem' = Erased(dropping)
        /\ UNCHANGED <<commit_seq, dropped_tables, dropped_at>>
    BY <1>6, Zenon DEF DropErase, history
  <2>2. ASSUME NEW k \in Key, TableOf[k] \in dropped_tables
        PROVE  \A b \in DOMAIN mem'[k] : dropped_at[TableOf[k]] <= b
    <3>1. CASE TableOf[k] = dropping
      <4>1. DOMAIN mem'[k] = {}
        BY <2>1, <3>1, Zenon DEF Erased, EmptyChain
      <4> QED
        BY <4>1, Zenon
    <3>2. CASE TableOf[k] # dropping
      <4>1. mem'[k] = mem[k]
        BY <2>1, <3>2, Zenon DEF Erased
      <4> QED
        BY <2>2, <3>2, <4>1, Zenon DEF DropInv
    <3> QED
      BY <3>1, <3>2, Zenon
  <2> QED
    BY <2>1, <2>2, Zenon DEF DropInv
<1>7. \/ \E t \in Droppable : DropMark(t) \/ Undrop(t)
      \/ DropErase
      \/ /\ UNCHANGED <<dropped_at, dropped_tables, dropping>>
         /\ \/ mem' = mem
            \/ \E j \in Key, v \in {"put", "del"} : Commit(j, v)
            \/ mem' = [k \in Key |-> EmptyChain]
  <2>1. \A w \in Writes : w[1] \in Key /\ w[2] \in {"put", "del"}
    BY LsmAssumption, Zenon
  <2>2. CASE UNCHANGED vars
    BY <2>2, Zenon DEF vars, storage, history
  <2>3. CASE Reading
    BY <2>3, ReadingLeaves, Zenon
  <2>4. CASE Next /\ ~Reading
    BY <2>1, <2>4, ZenonT(40) DEF Next, Reading, Commit, FlushDrain, FlushClear, FlushWrite,
         CompactCall, CompactNothing, CompactRetire, CompactMerge, storage, history
  <2> QED
    BY <2>2, <2>3, <2>4, Zenon
<1>8. ASSUME UNCHANGED <<dropped_at, dropped_tables, dropping>>, mem' = mem
      PROVE  DropInv'
  BY <1>3, <1>8, Zenon
<1>9. ASSUME UNCHANGED <<dropped_at, dropped_tables, dropping>>,
             NEW j \in Key, NEW v \in {"put", "del"}, Commit(j, v)
      PROVE  DropInv'
  <2>1. DOMAIN mem'[j] = DOMAIN mem[j] \cup {commit_seq} /\ \A i \in Key \ {j} : mem'[i] = mem[i]
    BY <1>9, StoreCommit, Zenon
  <2>2. \A k \in Key : \A b \in DOMAIN mem'[k] : b \in DOMAIN mem[k] \/ b = commit_seq
    BY <2>1, Zenon
  <2> QED
    BY <1>3, <1>9, <2>2, Zenon
<1>10. ASSUME UNCHANGED <<dropped_at, dropped_tables, dropping>>,
              mem' = [k \in Key |-> EmptyChain]
       PROVE  DropInv'
  <2>1. \A k \in Key : DOMAIN mem'[k] = {}
    BY <1>10, Zenon DEF EmptyChain
  <2> QED
    BY <1>3, <1>10, <2>1, Zenon
<1> QED
  BY <1>4, <1>5, <1>6, <1>7, <1>8, <1>9, <1>10, Zenon

-----------------------------------------------------------------------------
(* The hot-key cache. *)

\* An insertion leaves the cache within its limit.
LEMMA HotFits ==
  ASSUME HotOK, NEW k, NEW f
  PROVE  /\ IsFiniteSet(DOMAIN HotInsert(k, f))
         /\ Cardinality(DOMAIN HotInsert(k, f)) <= HotMax
<1> DEFINE D == DOMAIN hot
           kept == IF Cardinality(D) >= HotMax /\ k \notin D THEN {} ELSE D
<1>1. DOMAIN HotInsert(k, f) = kept \cup {k}
  BY Zenon DEF HotInsert
<1>2. IsFiniteSet(D) /\ Cardinality(D) <= HotMax
  BY Zenon DEF HotOK
<1>3. HotMax \in Nat /\ 1 <= HotMax
  BY LsmAssumption
<1> HIDE DEF D
<1>4. CASE Cardinality(D) >= HotMax /\ k \notin D
  <2>1. kept \cup {k} = {k}
    BY <1>4, Zenon
  <2>2. IsFiniteSet({k}) /\ Cardinality({k}) = 1
    BY FS_Singleton, Zenon
  <2> QED
    BY <1>1, <1>3, <2>1, <2>2, Zenon
<1>5. CASE k \in D
  <2>1. kept \cup {k} = D
    BY <1>5, Zenon
  <2> QED
    BY <1>1, <1>2, <2>1, Zenon
<1>6. CASE ~(Cardinality(D) >= HotMax) /\ k \notin D
  <2>1. kept \cup {k} = D \cup {k}
    BY <1>6, Zenon
  <2>2. IsFiniteSet(D \cup {k}) /\ Cardinality(D \cup {k}) = Cardinality(D) + 1
    BY <1>2, <1>6, FS_AddElement, Zenon
  <2>3. Cardinality(D) \in Nat
    BY <1>2, FS_CardinalityType, Zenon
  <2>4. Cardinality(D) + 1 <= HotMax
    BY <1>3, <1>6, <2>3
  <2> QED
    BY <1>1, <2>1, <2>2, <2>4, Zenon
<1> QED
  BY <1>4, <1>5, <1>6, Zenon

\* Only a point read changes the cache.
LEMMA HotStep ==
  ASSUME IsReader, HotOK, [Next]_vars
  PROVE  HotOK'
<1>1. hot' = hot \/ \E k, f : hot' = HotInsert(k, f)
  <2>1. CASE ~Reading
    BY <2>1, EngineLeavesRead, Zenon
  <2>2. CASE GetFile
    BY <2>2, Zenon DEF GetFile
  <2>3. CASE Reading /\ ~GetFile
    BY <2>3, Zenon DEF Reading, Begin, End, GetMem, ScanMem, GetHot, GetLoad, ScanLoad,
         ScanFile, ReadMerge, ReadReturn
  <2> QED
    BY <2>1, <2>2, <2>3, Zenon
<1>2. CASE hot' = hot
  BY <1>2, Zenon DEF HotOK
<1>3. ASSUME NEW k, NEW f, hot' = HotInsert(k, f) PROVE HotOK'
  BY <1>3, HotFits, Zenon DEF HotOK
<1> QED
  BY <1>1, <1>2, <1>3, Zenon

-----------------------------------------------------------------------------
(* Row counts. *)

RowsInv ==
  /\ \A r \in flusher.rows : IsRow(r)
  /\ \A f \in DOMAIN ssts : \A r \in ssts[f] : IsRow(r)

\* The rows of some keys in files, each with its file.
Pairs(files, keys) ==
  UNION {{f} \X {r \in files[f] : r.key \in keys} : f \in DOMAIN files}

\* What it is to be such a pair.
LEMMA PairsIn ==
  ASSUME NEW files, NEW keys, NEW p
  PROVE  p \in Pairs(files, keys) <=>
           /\ p = <<p[1], p[2]>> /\ p[1] \in DOMAIN files
           /\ p[2] \in files[p[1]] /\ p[2].key \in keys
<1> DEFINE X(f) == {r \in files[f] : r.key \in keys}
<1>1. p \in Pairs(files, keys) <=> \E f \in DOMAIN files : p \in {f} \X X(f)
  BY Zenon DEF Pairs
<1>2. \A f : p \in {f} \X X(f) <=> p = <<p[1], p[2]>> /\ p[1] = f /\ p[2] \in X(f)
  <2> HIDE DEF X
  <2> QED
    OBVIOUS
<1>3. \A f : p[2] \in X(f) <=> p[2] \in files[f] /\ p[2].key \in keys
  BY Zenon
<1> HIDE DEF X
<1> QED
  BY <1>1, <1>2, <1>3, Zenon

\* There are finitely many versions of what was committed.
LEMMA FiniteRows ==
  ASSUME HistOK, NEW S, \A r \in S : RowOK(r) /\ IsRow(r)
  PROVE  IsFiniteSet(S)
<1> DEFINE T == (1..Len(hist)) \X (0..OpenEnded)
           g == [r \in S |-> <<r.begin, r.end>>]
<1>1. Len(hist) \in Nat /\ OpenEnded \in Nat /\ Len(hist) < OpenEnded
  <2>1. Len(hist) \in Nat /\ OpenEnded \in Nat /\ commit_seq = Len(hist) + 1
        /\ commit_seq < OpenEnded
    BY HistFacts, Zenon
  <2> QED
    BY <2>1
<1>2. IsFiniteSet(T)
  <2>1. IsFiniteSet(1..Len(hist))
    <3>1. 1 \in Int /\ Len(hist) \in Int
      BY <1>1
    <3> QED
      BY <3>1, FS_Interval, Zenon
  <2>2. IsFiniteSet(0..OpenEnded)
    <3>1. 0 \in Int /\ OpenEnded \in Int
      BY <1>1
    <3> QED
      BY <3>1, FS_Interval, Zenon
  <2> QED
    BY <2>1, <2>2, FS_Product, Zenon
<1>3. ASSUME NEW r \in S PROVE <<r.begin, r.end>> \in T
  <2>1. r.begin \in 1..Len(hist) /\ EndOK(r.key, r.begin, r.end)
    BY Zenon DEF RowOK, VersionOK
  <2>2. r.end \in 0..OpenEnded
    <3>1. r.end = OpenEnded \/ r.end \in 1..Len(hist)
      BY <2>1, Zenon DEF EndOK
    <3> QED
      BY <1>1, <3>1
  <2> QED
    BY <2>1, <2>2, Zenon
<1>4. ASSUME NEW r \in S, NEW s \in S, r.begin = s.begin, r.end = s.end PROVE r = s
  <2>1. /\ hist[r.begin] = [key |-> r.key, val |-> r.val]
        /\ hist[s.begin] = [key |-> s.key, val |-> s.val]
    BY Zenon DEF RowOK, VersionOK
  <2>2. hist[r.begin].key = r.key /\ hist[r.begin].val = r.val
    BY <2>1
  <2>3. hist[s.begin].key = s.key /\ hist[s.begin].val = s.val
    BY <2>1
  <2>4. r.key = s.key /\ r.val = s.val
    BY <1>4, <2>2, <2>3, Zenon
  <2> QED
    BY <1>4, <2>4, Zenon DEF IsRow
<1>5. g \in Injection(S, T)
  <2>1. g \in [S -> T]
    <3> HIDE DEF T
    <3> QED
      BY <1>3, Zenon
  <2>2. ASSUME NEW r \in S, NEW s \in S, g[r] = g[s] PROVE r = s
    <3>1. <<r.begin, r.end>> = <<s.begin, s.end>>
      BY <2>2, Zenon
    <3>2. r.begin = s.begin /\ r.end = s.end
      BY <3>1, Zenon
    <3> QED
      BY <1>4, <3>2, Zenon
  <2> HIDE DEF g, T
  <2>3. \A r, s \in DOMAIN g : g[r] = g[s] => r = s
    BY <2>1, <2>2, Zenon
  <2> QED
    BY <2>1, <2>3, Zenon DEF Injection, IsInjective
<1> HIDE DEF g, T
<1> QED
  BY <1>2, <1>5, FS_Injection, Zenon

\* Finitely many files have finitely many such pairs.
LEMMA FinitePairs ==
  ASSUME HistOK, NEW files, NEW n \in Nat, NEW keys,
         \A f \in DOMAIN files : f \in Nat /\ f <= n /\ \A r \in files[f] : RowOK(r) /\ IsRow(r)
  PROVE  IsFiniteSet(Pairs(files, keys)) /\ Cardinality(Pairs(files, keys)) \in Nat
<1> DEFINE R == UNION {files[f] : f \in DOMAIN files}
<1>1. \A r \in R : RowOK(r) /\ IsRow(r)
  BY Zenon
<1>2. \A f \in DOMAIN files : \A r \in files[f] : r \in R
  BY Zenon
<1> HIDE DEF R
<1>3. IsFiniteSet(R)
  BY <1>1, FiniteRows, Zenon
<1>4. IsFiniteSet(DOMAIN files)
  <2> DEFINE D == DOMAIN files
  <2>1. D \in SUBSET Nat /\ \A f \in D : f <= n
    BY Zenon
  <2> HIDE DEF D
  <2>2. IsFiniteSet(D)
    BY <2>1, FS_BoundedSetOfNaturals, Zenon
  <2> QED
    BY <2>2, Zenon DEF D
<1>5. IsFiniteSet((DOMAIN files) \X R)
  BY <1>3, <1>4, FS_Product, Zenon
<1>6. Pairs(files, keys) \subseteq (DOMAIN files) \X R
  <2> SUFFICES ASSUME NEW p \in Pairs(files, keys) PROVE p \in (DOMAIN files) \X R
    BY Zenon
  <2>1. p = <<p[1], p[2]>> /\ p[1] \in DOMAIN files /\ p[2] \in R
    BY <1>2, PairsIn, Zenon
  <2> QED
    BY <2>1, Zenon
<1>7. IsFiniteSet(Pairs(files, keys))
  BY <1>5, <1>6, FS_Subset, Zenon
<1> QED
  BY <1>7, FS_CardinalityType, Zenon

\* Listing files and dropping others from the list moves the count of rows by
\* the difference of what they hold.
LEMMA CountInstalled ==
  ASSUME HistOK, NEW n \in Nat, NEW D, NEW ins, ins \subseteq D, NEW outs, NEW keys,
         D \subseteq DOMAIN ssts, \A f \in DOMAIN outs : f \notin DOMAIN ssts,
         \A f \in DOMAIN ssts : f \in Nat /\ f <= n /\ \A r \in ssts[f] : RowOK(r) /\ IsRow(r),
         \A f \in DOMAIN outs : f \in Nat /\ f <= n /\ \A r \in outs[f] : RowOK(r) /\ IsRow(r),
         ssts' = WithFiles(ssts, outs)
  PROVE  RowTotal(OnlyFiles(ssts', (D \ ins) \cup DOMAIN outs), keys)
           = RowTotal(OnlyFiles(ssts, D), keys) + RowDelta(OnlyFiles(ssts, ins), outs, keys)
<1> DEFINE E == (D \ ins) \cup DOMAIN outs
           all == OnlyFiles(ssts, D)
           old == OnlyFiles(ssts, ins)
           now == OnlyFiles(ssts', E)
           A == Pairs(all, keys)
           B == Pairs(old, keys)
           C == Pairs(outs, keys)
           N == Pairs(now, keys)
<1>1. /\ DOMAIN all = D /\ \A f \in D : all[f] = ssts[f]
      /\ DOMAIN old = ins /\ \A f \in ins : old[f] = ssts[f]
      /\ DOMAIN now = E /\ \A f \in E : now[f] = ssts'[f]
  BY Zenon DEF OnlyFiles
<1>2. /\ \A f \in DOMAIN outs : ssts'[f] = outs[f]
      /\ \A f \in DOMAIN ssts : ssts'[f] = ssts[f]
  BY Zenon DEF WithFiles
<1>p. ASSUME NEW p
      PROVE  /\ p \in A <=> /\ p = <<p[1], p[2]>> /\ p[1] \in DOMAIN all
                            /\ p[2] \in all[p[1]] /\ p[2].key \in keys
             /\ p \in B <=> /\ p = <<p[1], p[2]>> /\ p[1] \in DOMAIN old
                            /\ p[2] \in old[p[1]] /\ p[2].key \in keys
             /\ p \in C <=> /\ p = <<p[1], p[2]>> /\ p[1] \in DOMAIN outs
                            /\ p[2] \in outs[p[1]] /\ p[2].key \in keys
             /\ p \in N <=> /\ p = <<p[1], p[2]>> /\ p[1] \in DOMAIN now
                            /\ p[2] \in now[p[1]] /\ p[2].key \in keys
  <2> HIDE DEF all, old, now
  <2>1. \A files : p \in Pairs(files, keys)
          <=> /\ p = <<p[1], p[2]>> /\ p[1] \in DOMAIN files
              /\ p[2] \in files[p[1]] /\ p[2].key \in keys
    BY PairsIn, Zenon
  <2> QED
    BY <2>1, Zenon
<1>a. /\ A = Pairs(all, keys) /\ B = Pairs(old, keys) /\ C = Pairs(outs, keys)
      /\ N = Pairs(now, keys)
  BY Zenon
<1> HIDE DEF A, B, C, N, all, old, now
<1>3. N = (A \ B) \cup C
  <2>1. ASSUME NEW p PROVE p \in N <=> (p \in A /\ p \notin B) \/ p \in C
    <3>1. p[1] \in E <=> (p[1] \in D /\ p[1] \notin ins) \/ p[1] \in DOMAIN outs
      BY Zenon
    <3> HIDE DEF E
    <3>2. /\ p[1] \in D => /\ p[1] \notin DOMAIN outs
                           /\ all[p[1]] = ssts[p[1]] /\ ssts'[p[1]] = ssts[p[1]]
          /\ p[1] \in ins => p[1] \in D /\ old[p[1]] = ssts[p[1]]
          /\ p[1] \in DOMAIN outs => ssts'[p[1]] = outs[p[1]]
          /\ p[1] \in E => now[p[1]] = ssts'[p[1]]
      BY <1>1, <1>2, Zenon
    <3>3. CASE p[1] \in DOMAIN outs
      BY <1>1, <1>p, <3>1, <3>2, <3>3, Zenon
    <3>4. CASE p[1] \notin DOMAIN outs
      BY <1>1, <1>p, <3>1, <3>2, <3>4, ZenonT(40)
    <3> QED
      BY <3>3, <3>4, Zenon
  <2> QED
    BY <2>1, Zenon
<1>4. B \subseteq A /\ A \cap C = {}
  <2>1. ASSUME NEW p \in B PROVE p \in A
    <3>1. /\ p = <<p[1], p[2]>> /\ p[1] \in ins
          /\ p[2] \in old[p[1]] /\ p[2].key \in keys
      BY <1>1, <1>p, <2>1, ZenonT(40)
    <3>2. p[1] \in DOMAIN all /\ all[p[1]] = old[p[1]]
      <4> HIDE DEF E
      <4>1. p[1] \in ins
        BY <3>1, Zenon
      <4>2. p[1] \in D
        BY <4>1, Zenon
      <4>3. DOMAIN all = D /\ all[p[1]] = ssts[p[1]]
        BY <1>1, <4>2, Zenon
      <4>4. old[p[1]] = ssts[p[1]]
        BY <1>1, <4>1, Zenon
      <4> QED
        BY <4>2, <4>3, <4>4, Zenon
    <3> QED
      BY <1>p, <3>1, <3>2, ZenonT(40)
  <2>2. ASSUME NEW p \in A, p \in C PROVE FALSE
    <3>1. p[1] \in D /\ p[1] \in DOMAIN outs
      BY <1>1, <1>p, <2>2, Zenon
    <3> QED
      BY <3>1, Zenon
  <2> QED
    BY <2>1, <2>2, Zenon
<1>5. /\ IsFiniteSet(A) /\ Cardinality(A) \in Nat /\ IsFiniteSet(B) /\ Cardinality(B) \in Nat
      /\ IsFiniteSet(C) /\ Cardinality(C) \in Nat
  <2>1. IsFiniteSet(A) /\ Cardinality(A) \in Nat
    <3>1. \A f \in DOMAIN all : f \in Nat /\ f <= n /\ \A r \in all[f] : RowOK(r) /\ IsRow(r)
      BY <1>1, Zenon
    <3> QED
      BY <1>a, <3>1, FinitePairs, Zenon
  <2>2. IsFiniteSet(B) /\ Cardinality(B) \in Nat
    <3>1. \A f \in DOMAIN old : f \in Nat /\ f <= n /\ \A r \in old[f] : RowOK(r) /\ IsRow(r)
      BY <1>1, Zenon
    <3> QED
      BY <1>a, <3>1, FinitePairs, Zenon
  <2>3. IsFiniteSet(C) /\ Cardinality(C) \in Nat
    BY <1>a, FinitePairs, Zenon
  <2> QED
    BY <2>1, <2>2, <2>3, Zenon
<1>6. RowTotal(all, keys) = Cardinality(A) /\ RowTotal(now, keys) = Cardinality(N)
      /\ RowDelta(old, outs, keys) = Cardinality(C) - Cardinality(B)
  BY <1>a, Zenon DEF RowTotal, RowDelta, Pairs
<1>7. IsFiniteSet(A \ B) /\ Cardinality(A \ B) = Cardinality(A) - Cardinality(B)
  <2>1. A \cap B = B
    BY <1>4, Zenon
  <2> QED
    BY <1>5, <2>1, FS_Difference, Zenon
<1>8. Cardinality((A \ B) \cup C) = Cardinality(A \ B) + Cardinality(C)
  <2>1. (A \ B) \cap C = {}
    BY <1>4, Zenon
  <2>2. Cardinality((A \ B) \cup C)
          = Cardinality(A \ B) + Cardinality(C) - Cardinality((A \ B) \cap C)
    BY <1>5, <1>7, FS_Union, Zenon
  <2>3. Cardinality((A \ B) \cap C) = 0
    BY <2>1, FS_EmptySet, Zenon
  <2>4. Cardinality(A \ B) \in Nat
    BY <1>7, FS_CardinalityType, Zenon
  <2> QED
    BY <1>5, <2>2, <2>3, <2>4
<1>9. RowTotal(now, keys) = RowTotal(all, keys) + RowDelta(old, outs, keys)
  BY <1>3, <1>5, <1>6, <1>7, <1>8
<1> QED
  BY <1>9, Zenon DEF all, old, now, E


CountInv == RowsInv /\ CountsExact

EngineInv == StoreInv /\ CountInv /\ HotOK /\ PinInv /\ KeptInv /\ DropInv /\ IsReader

\* The rows of one file, in a count of their own.
LEMMA CountOne ==
  ASSUME HistOK, NEW f, NEW S, \A r \in S : RowOK(r) /\ IsRow(r), NEW keys
  PROVE  RowTotal([g \in {f} |-> S], keys) = CountIn(S, keys) /\ CountIn(S, keys) \in Nat
<1> DEFINE X == {r \in S : r.key \in keys}
           one == [g \in {f} |-> S]
<1>1. IsFiniteSet(X)
  <2>1. \A r \in X : RowOK(r) /\ IsRow(r)
    BY Zenon
  <2> HIDE DEF X
  <2> QED
    BY <2>1, FiniteRows, Zenon
<1>2. Pairs(one, keys) = {f} \X X
  <2>1. DOMAIN one = {f} /\ one[f] = S
    BY Zenon
  <2> HIDE DEF one
  <2> QED
    BY <2>1, Zenon DEF Pairs
<1>3. IsFiniteSet({f}) /\ Cardinality({f}) = 1
  BY FS_Singleton, Zenon
<1> HIDE DEF X
<1>4. Cardinality({f} \X X) = 1 * Cardinality(X)
  BY <1>1, <1>3, FS_Product, Zenon
<1>5. Cardinality(X) \in Nat
  BY <1>1, FS_CardinalityType, Zenon
<1>6. Cardinality({f} \X X) = Cardinality(X)
  BY <1>4, <1>5
<1>7. RowTotal(one, keys) = Cardinality(Pairs(one, keys)) /\ CountIn(S, keys) = Cardinality(X)
  BY Zenon DEF RowTotal, CountIn, Pairs, X
<1> HIDE DEF one
<1>8. RowTotal(one, keys) = CountIn(S, keys) /\ CountIn(S, keys) \in Nat
  BY <1>2, <1>5, <1>6, <1>7, Zenon
<1> QED
  BY <1>8, Zenon DEF one

\* Only rows are drained, flushed and merged.
LEMMA RowsStep ==
  ASSUME StoreInv, RowsInv, [Next]_vars
  PROVE  RowsInv'
<1>1. ASSUME flusher' = flusher, ssts' = ssts PROVE RowsInv'
  BY <1>1, Zenon DEF RowsInv
<1>2. CASE UNCHANGED vars
  BY <1>1, <1>2, Zenon DEF vars, storage
<1>3. CASE Reading
  BY <1>1, <1>3, ReadingLeaves, Zenon
<1>4. ASSUME NEW w \in Writes, Commit(w[1], w[2]) PROVE RowsInv'
  BY <1>1, <1>4, Zenon DEF Commit
<1>5. CASE FlushDrain
  <2>1. ssts' = ssts /\ flusher'.rows = MemRows
    BY <1>5, Zenon DEF FlushDrain
  <2>2. \A r \in MemRows : IsRow(r)
    <3> SUFFICES ASSUME NEW r \in MemRows PROVE IsRow(r)
      BY Zenon
    <3>1. PICK k \in Key : \E b \in DOMAIN mem[k] :
            r = [key |-> k, begin |-> b, end |-> mem[k][b].end, val |-> mem[k][b].val]
      BY Zenon DEF MemRows
    <3> QED
      BY <3>1, Zenon DEF IsRow
  <2> QED
    BY <2>1, <2>2, Zenon DEF RowsInv
<1>6. CASE FlushClear
  <2>1. ssts' = ssts /\ flusher'.rows = {}
    BY <1>6, Zenon DEF FlushClear, NoFlush
  <2> QED
    BY <2>1, Zenon DEF RowsInv
<1>7. ASSUME NEW ok \in BOOLEAN, FlushWrite(ok) PROVE RowsInv'
  <2>1. flusher'.rows = flusher.rows
    BY <1>7, Zenon DEF FlushWrite, StoreInv, HandsOK
  <2>2. /\ DOMAIN ssts' = DOMAIN ssts \cup {vset.next} /\ ssts'[vset.next] = flusher.rows
        /\ \A f \in DOMAIN ssts : ssts'[f] = ssts[f]
    BY <1>7, StoreFlush, Zenon
  <2> QED
    BY <2>1, <2>2, Zenon DEF RowsInv
<1>8. ASSUME NEW a, NEW b, CompactCall(a, b) \/ CompactNothing PROVE RowsInv'
  BY <1>1, <1>8, Zenon DEF CompactCall, CompactNothing, storage
<1>9. ASSUME NEW cut, NEW ok \in BOOLEAN, CompactMerge(cut, ok) PROVE RowsInv'
  <2>1. PICK outs : /\ ssts' = WithFiles(ssts, outs)
                    /\ \A f \in DOMAIN outs : \A r \in outs[f] : IsRow(r)
    BY <1>9, StoreMerge, Zenon
  <2>2. flusher' = flusher
    BY <1>9, StoreMerge, Zenon
  <2>3. /\ DOMAIN ssts' = DOMAIN ssts \cup DOMAIN outs
        /\ \A f \in DOMAIN outs : ssts'[f] = outs[f]
        /\ \A f \in DOMAIN ssts \ DOMAIN outs : ssts'[f] = ssts[f]
    BY <2>1, Zenon DEF WithFiles
  <2> QED
    BY <2>1, <2>2, <2>3, Zenon DEF RowsInv
<1>10. CASE CompactRetire
  <2>1. /\ flusher' = flusher /\ DOMAIN ssts' \subseteq DOMAIN ssts
        /\ \A f \in DOMAIN ssts' : ssts'[f] = ssts[f]
    BY <1>10, StoreRetire, Zenon
  <2> QED
    BY <2>1, Zenon DEF RowsInv
<1>11. ASSUME NEW t, DropMark(t) \/ Undrop(t) \/ DropErase PROVE RowsInv'
  BY <1>1, <1>11, Zenon DEF DropMark, Undrop, DropErase
<1> QED
  BY <1>2, <1>3, <1>4, <1>5, <1>6, <1>7, <1>8, <1>9, <1>10, <1>11, ZenonT(40) DEF Next, Reading

\* A flush adds the rows of the file it lists.
LEMMA CountFlush ==
  ASSUME StoreInv, CountInv, NEW ok \in BOOLEAN, FlushWrite(ok)
  PROVE  CountsExact'
<1> DEFINE outs == [f \in {vset.next} |-> flusher.rows]
           D == Listed
           none == OnlyFiles(ssts, {})
<1>1. /\ ssts' = WithFiles(ssts, outs)
      /\ sst_row_count' = sst_row_count + Cardinality(flusher.rows)
      /\ table_rows' = [t \in Table |-> table_rows[t] + CountIn(flusher.rows, KeysOf(t))]
  BY Zenon DEF FlushWrite
<1>2. /\ HistOK /\ FilesOK /\ ListedOK /\ HandsOK /\ RowsInv
      /\ Listed' = Listed \cup {vset.next}
  BY StoreFlush, Zenon DEF StoreInv, CountInv
<1>3. /\ vset.next \in Nat /\ vset.next \notin DOMAIN ssts
      /\ \A f \in DOMAIN ssts : f \in Nat /\ f <= vset.next
  BY <1>2 DEF FilesOK
<1>4. DOMAIN outs = {vset.next} /\ outs[vset.next] = flusher.rows
  BY Zenon
<1>5. \A r \in flusher.rows : RowOK(r) /\ IsRow(r) /\ r.key \in Key
  BY <1>2, Zenon DEF HandsOK, RowsInv, RowOK, VersionOK
<1>6. ASSUME NEW keys
      PROVE  /\ RowTotal(OnlyFiles(ssts', Listed'), keys)
                  = RowTotal(OnlyFiles(ssts, Listed), keys) + CountIn(flusher.rows, keys)
  <2>1. RowTotal(outs, keys) = CountIn(flusher.rows, keys) /\ CountIn(flusher.rows, keys) \in Nat
    BY <1>2, <1>5, CountOne, Zenon
  <2>2. RowTotal(none, keys) = 0
    <3>1. DOMAIN none = {}
      BY Zenon DEF OnlyFiles
    <3> HIDE DEF none
    <3>2. UNION {{f} \X {r \in none[f] : r.key \in keys} : f \in DOMAIN none} = {}
      BY <3>1, Zenon
    <3> QED
      BY <3>2, FS_EmptySet, Zenon DEF RowTotal
  <2> HIDE DEF outs
  <2>3. (D \ {}) \cup DOMAIN outs = Listed'
    BY <1>2, <1>4, Zenon
  <2>4. RowTotal(OnlyFiles(ssts', (D \ {}) \cup DOMAIN outs), keys)
          = RowTotal(OnlyFiles(ssts, D), keys) + RowDelta(OnlyFiles(ssts, {}), outs, keys)
    <3>1. D \subseteq DOMAIN ssts /\ {} \subseteq D /\ \A f \in DOMAIN outs : f \notin DOMAIN ssts
      BY <1>2, <1>3, <1>4, Zenon DEF ListedOK
    <3>2. \A f \in DOMAIN ssts : /\ f \in Nat /\ f <= vset.next
                                 /\ \A r \in ssts[f] : RowOK(r) /\ IsRow(r)
      BY <1>2, <1>3, Zenon DEF FilesOK, RowsInv
    <3>3. \A f \in DOMAIN outs : /\ f \in Nat /\ f <= vset.next
                                 /\ \A r \in outs[f] : RowOK(r) /\ IsRow(r)
      <4>1. vset.next <= vset.next
        BY <1>3
      <4> QED
        BY <1>3, <1>4, <1>5, <4>1, Zenon
    <3> HIDE DEF D
    <3> QED
      BY <1>1, <1>2, <1>3, <3>1, <3>2, <3>3, CountInstalled
  <2>5. RowDelta(none, outs, keys) = CountIn(flusher.rows, keys)
    <3> HIDE DEF none
    <3>1. RowDelta(none, outs, keys) = RowTotal(outs, keys) - RowTotal(none, keys)
      BY Zenon DEF RowDelta
    <3> QED
      BY <2>1, <2>2, <3>1
  <2> QED
    BY <2>3, <2>4, <2>5, Zenon
<1>7. Cardinality(flusher.rows) = CountIn(flusher.rows, Key)
  <2>1. {r \in flusher.rows : r.key \in Key} = flusher.rows
    BY <1>5, Zenon
  <2> QED
    BY <2>1, Zenon DEF CountIn
<1>8. /\ sst_row_count = RowTotal(OnlyFiles(ssts, Listed), Key)
      /\ \A t \in Table : table_rows[t] = RowTotal(OnlyFiles(ssts, Listed), KeysOf(t))
  BY Zenon DEF CountInv, CountsExact, Listed
<1>9. /\ sst_row_count' = RowTotal(OnlyFiles(ssts', Listed'), Key)
      /\ \A t \in Table : table_rows'[t] = RowTotal(OnlyFiles(ssts', Listed'), KeysOf(t))
  BY <1>1, <1>6, <1>7, <1>8, Zenon
<1> QED
  BY <1>9, Zenon DEF CountsExact, Listed

\* A merge adds the rows of its outputs and takes those of its inputs.
LEMMA CountMerge ==
  ASSUME StoreInv, CountInv, NEW cut, NEW ok \in BOOLEAN, CompactMerge(cut, ok)
  PROVE  CountsExact'
<1> DEFINE D == Listed
           ins == CompactionInputs
<1>1. PICK outs :
        /\ ssts' = WithFiles(ssts, outs) /\ Listed' = (D \ ins) \cup DOMAIN outs
        /\ \A f \in DOMAIN outs : /\ f \in Nat /\ f \notin DOMAIN ssts /\ f < vset'.next
                                  /\ \A r \in outs[f] : RowOK(r) /\ IsRow(r)
        /\ Counted(OnlyFiles(ssts, ins), outs)
  BY StoreMerge, Zenon
<1>2. HistOK /\ FilesOK /\ ListedOK /\ RowsInv /\ D \subseteq DOMAIN ssts
  BY Zenon DEF StoreInv, CountInv, ListedOK
<1>3. vset'.next \in Nat /\ vset.next <= vset'.next
  BY StoreMerge, Zenon
<1>4. ins \subseteq D
  BY <1>2, CompactedFiles, Zenon
<1>5. \A f \in DOMAIN outs : f <= vset'.next
  BY <1>1, <1>3
<1>6. \A f \in DOMAIN ssts : f \in Nat /\ f <= vset'.next
  BY <1>2, <1>3 DEF FilesOK
<1>7. \A f \in DOMAIN ssts : \A r \in ssts[f] : RowOK(r) /\ IsRow(r)
  BY <1>2, Zenon DEF FilesOK, RowsInv
<1> HIDE DEF D, ins
<1>8. ASSUME NEW keys
      PROVE  RowTotal(OnlyFiles(ssts', Listed'), keys)
               = RowTotal(OnlyFiles(ssts, D), keys) + RowDelta(OnlyFiles(ssts, ins), outs, keys)
  <2>1. RowTotal(OnlyFiles(ssts', (D \ ins) \cup DOMAIN outs), keys)
          = RowTotal(OnlyFiles(ssts, D), keys) + RowDelta(OnlyFiles(ssts, ins), outs, keys)
    BY <1>1, <1>2, <1>3, <1>4, <1>5, <1>6, <1>7, CountInstalled
  <2> QED
    BY <1>1, <2>1, Zenon
<1>9. /\ sst_row_count = RowTotal(OnlyFiles(ssts, D), Key)
      /\ \A t \in Table : table_rows[t] = RowTotal(OnlyFiles(ssts, D), KeysOf(t))
  BY Zenon DEF CountInv, CountsExact, Listed, D
<1>10. /\ sst_row_count' = RowTotal(OnlyFiles(ssts', Listed'), Key)
       /\ \A t \in Table : table_rows'[t] = RowTotal(OnlyFiles(ssts', Listed'), KeysOf(t))
  BY <1>1, <1>8, <1>9, Zenon DEF Counted
<1> QED
  BY <1>10, Zenon DEF CountsExact, Listed

\* No other step counts, or changes a listed file.
LEMMA CountStep ==
  ASSUME StoreInv, CountInv, [Next]_vars
  PROVE  CountInv'
<1> SUFFICES CountsExact'
  BY RowsStep, Zenon DEF CountInv
<1>1. ASSUME Listed' = Listed, \A f \in Listed : ssts'[f] = ssts[f],
             sst_row_count' = sst_row_count, table_rows' = table_rows
      PROVE  CountsExact'
  <2>1. OnlyFiles(ssts', Listed') = OnlyFiles(ssts, Listed)
    BY <1>1, Zenon DEF OnlyFiles
  <2> QED
    BY <1>1, <2>1, Zenon DEF CountInv, CountsExact, Listed
<1>2. ASSUME vset' = vset, ssts' = ssts, sst_row_count' = sst_row_count, table_rows' = table_rows
      PROVE  CountsExact'
  BY <1>1, <1>2, Zenon DEF Listed
<1>3. CASE UNCHANGED vars
  BY <1>2, <1>3, Zenon DEF vars, storage
<1>4. CASE Reading
  BY <1>2, <1>4, ReadingLeaves, Zenon
<1>5. ASSUME NEW w \in Writes, Commit(w[1], w[2]) PROVE CountsExact'
  BY <1>2, <1>5, Zenon DEF Commit
<1>6. CASE FlushDrain \/ FlushClear
  BY <1>2, <1>6, Zenon DEF FlushDrain, FlushClear
<1>7. ASSUME NEW a, NEW b, CompactCall(a, b) \/ CompactNothing PROVE CountsExact'
  BY <1>2, <1>7, Zenon DEF CompactCall, CompactNothing, storage
<1>8. CASE CompactRetire
  <2>1. vset' = vset /\ Listed \subseteq DOMAIN ssts' /\ \A f \in DOMAIN ssts' : ssts'[f] = ssts[f]
    BY <1>8, StoreRetire, Zenon
  <2>2. sst_row_count' = sst_row_count /\ table_rows' = table_rows
    BY <1>8, Zenon DEF CompactRetire
  <2> QED
    BY <1>1, <2>1, <2>2, Zenon DEF Listed
<1>9. ASSUME NEW t, DropMark(t) \/ Undrop(t) \/ DropErase PROVE CountsExact'
  <2>1. Listed' = Listed /\ ssts' = ssts
    BY <1>9, StoreDrop, Zenon
  <2>2. sst_row_count' = sst_row_count /\ table_rows' = table_rows
    BY <1>9, Zenon DEF DropMark, Undrop, DropErase
  <2> QED
    BY <1>1, <2>1, <2>2, Zenon
<1> QED
  BY <1>3, <1>4, <1>5, <1>6, <1>7, <1>8, <1>9, CountFlush, CountMerge, ZenonT(40) DEF Next, Reading

-----------------------------------------------------------------------------
(* The invariant holds. *)

\* A read stays a record of the fields it has.
LEMMA ReaderStep ==
  ASSUME IsReader, [Next]_vars
  PROVE  IsReader'
BY ReadPins, EngineLeavesRead, Zenon

\* The store starts empty and in order.
LEMMA InitStore ==
  ASSUME Init
  PROVE  StoreInv /\ KeptInv
<1>1. /\ commit_seq = 1 /\ hist = << >> /\ mem = [k \in Key |-> EmptyChain] /\ ssts = << >>
      /\ indexed = {} /\ dropped_tables = {} /\ flusher = NoFlush /\ compactor = NoJob
      /\ vset = VsDefault
  BY Zenon DEF Init
<1>2. HistOK /\ Len(hist) = 0
  BY <1>1, LsmAssumption DEF HistOK
<1>3. MemOK
  BY <1>1, Zenon DEF MemOK, EmptyChain
<1>4. HandsOK
  BY <1>1, Zenon DEF HandsOK, NoFlush
<1>5. /\ vset.next = 0 /\ vset.levels = {} /\ vset.dropped = {} /\ DOMAIN vset.meta = {}
      /\ vset = [levels |-> vset.levels, meta |-> vset.meta, next |-> vset.next,
                 dropped |-> vset.dropped]
  BY <1>1 DEF VsDefault
<1>6. DOMAIN ssts = {}
  BY <1>1
<1>7. FilesOK
  BY <1>1, <1>5, <1>6 DEF FilesOK
<1>8. Listed = {}
  BY <1>5, Zenon DEF Listed
<1>9. ListedOK
  BY <1>1, <1>5, <1>6, <1>8, Zenon DEF ListedOK
<1>10. JobOK
  BY <1>1, <1>8, Zenon DEF JobOK, NoJob
<1>11. 1..Len(hist) = {}
  BY <1>2
<1>12. KeptInv
  BY <1>11, Zenon DEF KeptInv
<1> QED
  BY <1>2, <1>3, <1>4, <1>7, <1>9, <1>10, <1>12, Zenon DEF StoreInv

\* Nothing is cached, pinned, dropped or counted at first.
LEMMA InitEngine ==
  ASSUME Init
  PROVE  HotOK /\ PinInv /\ DropInv /\ IsReader /\ CountInv
<1>1. reader = NoRead /\ hot = << >> /\ compactor = NoJob
  BY Zenon DEF Init
<1>2. IsReader /\ reader.pc = "idle" /\ reader.ts = 0
  BY <1>1, Zenon DEF IsReader, NoRead
<1>3. HotOK
  <2>1. DOMAIN hot = {}
    BY <1>1
  <2>2. IsFiniteSet({}) /\ Cardinality({}) = 0
    BY FS_EmptySet, Zenon
  <2>3. 0 <= HotMax
    BY LsmAssumption
  <2> QED
    BY <2>1, <2>2, <2>3, Zenon DEF HotOK
<1>4. PinInv
  <2>1. compactor.pc = "idle" /\ compactor.watermark = 0
    BY <1>1, Zenon DEF NoJob
  <2> QED
    BY <1>2, <2>1 DEF PinInv
<1>5. DropInv
  <2>1. /\ dropped_at = [t \in Table |-> 0] /\ dropped_tables = {} /\ dropping = "none"
        /\ commit_seq = 1
    BY Zenon DEF Init
  <2>2. dropped_at \in [Table -> Nat] /\ \A t \in Table : dropped_at[t] <= commit_seq
    BY <2>1
  <2> QED
    BY <2>1, <2>2, Zenon DEF DropInv
<1>6. CountInv
  <2>1. /\ flusher.rows = {} /\ DOMAIN ssts = {} /\ Listed = {} /\ sst_row_count = 0
        /\ table_rows = [t \in Table |-> 0]
    BY DEF Init, NoFlush, Listed, VsDefault
  <2>2. ASSUME NEW keys PROVE RowTotal(OnlyFiles(ssts, Listed), keys) = 0
    <3>1. UNION {{f} \X {r \in OnlyFiles(ssts, Listed)[f] : r.key \in keys} :
                   f \in DOMAIN OnlyFiles(ssts, Listed)} = {}
      BY <2>1, Zenon DEF OnlyFiles
    <3> QED
      BY <3>1, FS_EmptySet, Zenon DEF RowTotal
  <2> QED
    BY <2>1, <2>2, Zenon DEF CountInv, RowsInv, CountsExact, Listed
<1> QED
  BY <1>2, <1>3, <1>4, <1>5, <1>6, Zenon

\* The invariant of the engine holds in every state: memtable, drained rows and
\* files hold what was committed, the version set and the counters describe the
\* files, a merge keeps to the oldest snapshot, and no version that a snapshot
\* may ask for is lost unless a flush cleared it or its table was dropped.
THEOREM EngineInvariant == Spec => []EngineInv
<1>1. Init => EngineInv
  BY InitStore, InitEngine, Zenon DEF EngineInv
<1>2. EngineInv /\ [Next]_vars => EngineInv'
  <2> SUFFICES ASSUME EngineInv, [Next]_vars PROVE EngineInv'
    BY Zenon
  <2>1. StoreInv /\ CountInv /\ HotOK /\ PinInv /\ KeptInv /\ DropInv /\ IsReader
    BY Zenon DEF EngineInv
  <2>2. StoreInv' /\ CountInv' /\ HotOK' /\ IsReader'
    BY <2>1, StoreStep, CountStep, HotStep, ReaderStep, Zenon
  <2>3. PinInv' /\ KeptInv' /\ DropInv'
    BY <2>1, PinStep, KeptStep, DropStep, Zenon
  <2> QED
    BY <2>2, <2>3, Zenon DEF EngineInv
<1> QED
  BY <1>1, <1>2, PTL DEF Spec

\* A version of a key that no flush has cleared and whose table was not dropped
\* is in the memtable, in the hands of a flush or in a listed file as long as a
\* snapshot that is taken, or will be, can ask for it: merges drop only what
\* ends at or before the watermark, and the watermark they were called with
\* stays at or below the oldest snapshot.
THEOREM SnapshotsKept == Spec => []KeptInv
<1>1. EngineInv => KeptInv
  BY Zenon DEF EngineInv
<1> QED
  BY <1>1, EngineInvariant, PTL

\* The version set lists only files that are on the disk, each at one level and
\* with the range of its keys; the memtable and the files hold only what was
\* committed; the hot-key cache stays within HOT_KEY_CACHE_MAX.
THEOREM LsmWellFormed == Spec => []LsmTypeOK
<1>1. EngineInv => LsmTypeOK
  <2> SUFFICES ASSUME EngineInv PROVE LsmTypeOK
    BY Zenon
  <2>1. StoreInv /\ HotOK
    BY Zenon DEF EngineInv
  <2>2. HistOK /\ MemOK /\ FilesOK /\ ListedOK
    BY <2>1, Zenon DEF StoreInv
  <2>3. commit_seq \in 1..(MaxCommits + 1) /\ Len(hist) = commit_seq - 1
    BY <2>2, Zenon DEF HistOK
  <2>4. \A k \in Key : \A b \in DOMAIN mem[k] :
          b < commit_seq /\ hist[b] = [key |-> k, val |-> mem[k][b].val]
    BY <2>2, MemFacts, Zenon
  <2>5. ASSUME NEW f \in DOMAIN ssts, NEW r \in ssts[f]
        PROVE  r.begin < commit_seq /\ hist[r.begin] = [key |-> r.key, val |-> r.val]
    <3>1. r.begin \in 1..Len(hist) /\ hist[r.begin] = [key |-> r.key, val |-> r.val]
      BY <2>2, Zenon DEF FilesOK, RowOK, VersionOK
    <3>2. commit_seq = Len(hist) + 1 /\ Len(hist) \in Nat
      BY <2>2, HistFacts, Zenon
    <3>3. r.begin < commit_seq
      BY <3>1, <3>2
    <3> QED
      BY <3>1, <3>3, Zenon
  <2>6. ASSUME NEW p \in vset.levels
        PROVE  /\ p[2] \in DOMAIN ssts /\ p[2] < vset.next
               /\ p[2] \in DOMAIN vset.meta
               /\ vset.meta[p[2]] = RangeOf(ssts[p[2]])
               /\ \A q \in vset.levels : q[2] = p[2] => q = p
    <3>1. p[2] \in Listed
      BY Zenon DEF Listed
    <3> QED
      BY <2>2, <3>1, Zenon DEF ListedOK, FilesOK
  <2>7. indexed \subseteq DOMAIN ssts /\ Cardinality(DOMAIN hot) <= HotMax
        /\ vset.dropped = dropped_tables
    BY <2>1, <2>2, Zenon DEF HotOK, FilesOK, ListedOK
  <2> QED
    BY <2>3, <2>4, <2>5, <2>6, <2>7, Zenon DEF LsmTypeOK
<1> QED
  BY <1>1, EngineInvariant, PTL

\* sst_row_count and the row count of every table, which flushes and merges
\* adjust by what they add and take, are the numbers of rows in the files the
\* version set lists.
THEOREM CountsAlwaysExact == Spec => []CountsExact
<1>1. EngineInv => CountsExact
  BY Zenon DEF EngineInv, CountInv
<1> QED
  BY <1>1, EngineInvariant, PTL
=============================================================================
