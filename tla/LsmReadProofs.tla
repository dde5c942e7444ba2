--------------------------- MODULE LsmReadProofs ----------------------------
(***************************************************************************)
(* The reads of LsmTree: what a scan that goes file by file returns while  *)
(* flush, compaction and table drop change the tree under it, and what a   *)
(* read shows of a dropped table.                                          *)
(***************************************************************************)
EXTENDS LsmTreeProofs

-----------------------------------------------------------------------------
(* The invariant. *)

\* The keys written so far are bounded, so that a file has a largest key.
BoundInv == \E n \in Nat : \A t \in 1..Len(hist) : hist[t].key <= n

Scans == {"range", "all", "table"}

\* A result row is a commit that the snapshot has.
SeenOK(r) ==
  /\ r = [key |-> r.key, begin |-> r.begin, val |-> r.val]
  /\ r.key \in reader.keys
  /\ r.begin \in 1..Len(hist) /\ r.begin <= reader.ts
  /\ hist[r.begin] = [key |-> r.key, val |-> r.val]

\* What a scan has found so far is sound and has one row per key.
SoundInv ==
  reader.op \in Scans =>
    /\ reader.keys \subseteq Key
    /\ \A r \in reader.acc : SeenOK(r)
    /\ \A r, s \in reader.acc : r.key = s.key => r = s
    /\ reader.more # {} => reader.op = "table" /\ ~reader.blind
    /\ reader.pc = "files" /\ reader.op = "table" /\ reader.blind => reader.todo = {}

RowFor(t) == [key |-> hist[t].key, begin |-> t, val |-> hist[t].val]

\* Commit t is still to be met in a file the scan has listed, unless the file
\* has been unlinked.
Ahead(t) ==
  \E c \in reader.todo :
    c.file \in DOMAIN ssts => \E r \in ssts[c.file] : r.key = hist[t].key /\ r.begin = t

FileIdsInv == \A c \in reader.todo : c.file \in Nat /\ c.file < vset.next

\* A scan has met commit t, or will.
Found(t) ==
  /\ reader.pc = "load" => RowFor(t) \in reader.acc \/ Stored(hist[t].key, t)
  /\ reader.pc = "files" /\ (reader.op = "table" => ~reader.gap) =>
       RowFor(t) \in Shown \/ Ahead(t)
  /\ reader.pc = "done" /\ (reader.op = "table" => ~reader.gap)
       /\ (reader.op = "all" \/ hist[t].val = "put") => RowFor(t) \in Shown

\* A scan has met the newest version of every key, or will; once it is done it
\* has no other one.
FindInv ==
  reader.op \in Scans =>
    /\ reader.pc \in {"load", "files", "done", "failed"}
    /\ reader.blind => reader.op = "table" /\ \A k \in reader.keys : dropped_at[TableOf[k]] # 0
    /\ \A t \in 1..Len(hist) :
         NewestAt(t, reader.ts) /\ hist[t].key \in Undisturbed => Found(t)
    /\ reader.pc = "done" => \A r \in reader.acc :
         /\ reader.op # "all" => r.val = "put"
         /\ reader.op # "table" /\ r.key \in Undisturbed => NewestAt(r.begin, reader.ts)

\* What a read has of a dropped table was committed after the drop.
HideInv ==
  /\ reader.gone \subseteq dropped_tables \ {dropping}
  /\ reader.pc = "hot" => reader.op = "get"
  /\ reader.op = "get" /\ reader.pc \in {"hot", "load", "files"} =>
       \A k \in reader.keys : TableOf[k] \notin reader.gone
  /\ reader.op = "table" /\ ~reader.blind => \A k \in reader.keys : TableOf[k] \notin reader.gone
  /\ \A r \in reader.more : r.key \in reader.keys /\ reader.op = "table" /\ ~reader.blind
  /\ reader.op # "delete" => \A r \in reader.acc :
       TableOf[r.key] \in reader.gone => dropped_at[TableOf[r.key]] <= r.begin

LsmInv ==
  EngineInv /\ BoundInv /\ SoundInv /\ FileIdsInv /\ FindInv /\ HideInv

-----------------------------------------------------------------------------
(* What a read has found. *)

\* The files a read has listed are not ones still to be written.
LEMMA FileIdsStep ==
  ASSUME StoreInv, IsReader, FileIdsInv, [Next]_vars
  PROVE  FileIdsInv'
<1>1. vset.next \in Nat /\ vset'.next \in Nat /\ vset.next <= vset'.next
  BY FilesStep, Zenon
<1>2. vset.levels \subseteq Nat \X Nat /\ Listed \subseteq DOMAIN ssts /\ DOMAIN vset.meta = Listed
  BY Zenon DEF StoreInv, ListedOK
<1>3. \A f \in Listed : f \in Nat /\ f < vset.next
  BY <1>2, Zenon DEF StoreInv, FilesOK
<1>4. \A c \in reader'.todo : c \in reader.todo \/ c.file \in Listed
  <2>1. CASE ~Reading
    BY <2>1, EngineLeavesRead, Zenon
  <2>2. CASE Begin \/ End \/ ReadReturn
    BY <2>2, ReaderFresh, Zenon DEF Fresh
  <2>3. ASSUME NEW k, GetMem(k) PROVE reader'.todo = reader.todo
    BY <2>3, ReaderAsksGet, Zenon
  <2>4. ASSUME NEW op, NEW ks, ScanMem(op, ks) PROVE reader'.todo = reader.todo
    BY <2>4, ReaderAsksScan, Zenon
  <2>5. CASE ScanLoad
    <3>1. \A c \in reader'.todo : \E p \in vset.levels : c = [file |-> p[2], level |-> p[1]]
      <4> DEFINE Walked(q) == reader.op = "table" => ~reader.blind /\ q[1] \in ReachedLevels
      <4>1. reader'.todo = {[file |-> p[2], level |-> p[1]] : p \in {q \in vset.levels : Walked(q)}}
        BY <2>5, ReaderLists, Zenon
      <4> HIDE DEF Walked
      <4> QED
        BY <4>1, Zenon
    <3>2. \A c \in reader'.todo : \E p \in vset.levels : c.file = p[2]
      BY <3>1
    <3> QED
      BY <3>2, Zenon DEF Listed
  <2>6. CASE ScanFile
    BY <2>6, ReaderScans, Zenon
  <2>7. CASE ReadMerge
    BY <2>7, ReaderMerges, Zenon
  <2>8. CASE GetHot \/ GetLoad \/ GetFile
    BY <1>2, <2>8, ReaderGets, Zenon
  <2> QED
    BY <2>1, <2>2, <2>3, <2>4, <2>5, <2>6, <2>7, <2>8, ZenonT(40) DEF Reading
<1> QED
  <2>1. ASSUME NEW c \in reader'.todo PROVE c.file \in Nat /\ c.file < vset'.next
    <3>1. CASE c.file \in Listed
      <4>1. c.file \in Nat /\ c.file < vset.next
        BY <1>3, <3>1, ZenonT(40)
      <4> QED
        BY <1>1, <4>1
    <3>2. CASE c \in reader.todo
      <4>1. c.file \in Nat /\ c.file < vset.next
        BY <3>2, Zenon DEF FileIdsInv
      <4> QED
        BY <1>1, <4>1
    <3> QED
      BY <1>4, <3>1, <3>2, Zenon
  <2> QED
    BY <2>1, Zenon DEF FileIdsInv

\* A chain shows the newest of the versions that the snapshot sees.
LEMMA ChainSeen ==
  ASSUME StoreInv, PinInv, NEW k \in Key, NEW g, g = ChainGet(mem[k], reader.ts)
  PROVE  /\ g.found \in BOOLEAN
         /\ g.found => /\ g.begin \in DOMAIN mem[k] /\ Sees(mem[k], g.begin, reader.ts)
                       /\ g.val = mem[k][g.begin].val
                       /\ \A u \in DOMAIN mem[k] : Sees(mem[k], u, reader.ts) => u <= g.begin
         /\ (\E u \in DOMAIN mem[k] : Sees(mem[k], u, reader.ts)) => g.found
<1> DEFINE seen == {b \in DOMAIN mem[k] : Sees(mem[k], b, reader.ts)}
           b0 == CHOOSE b \in seen : \A u \in seen : u <= b
<1>1. CASE seen = {}
  <2>1. g = NoVersion
    BY <1>1, Zenon DEF ChainGet
  <2>2. g.found = FALSE
    BY <2>1 DEF NoVersion
  <2> QED
    BY <1>1, <2>2, Zenon
<1>2. CASE seen # {}
  <2>1. g = [found |-> TRUE, begin |-> b0, val |-> mem[k][b0].val]
    BY <1>2, Zenon DEF ChainGet
  <2>2. seen \subseteq Nat /\ \A b \in seen : b <= reader.ts
    BY MemFacts, Zenon DEF Sees, StoreInv
  <2>3. \E b \in seen : \A u \in seen : u <= b
    <3>1. reader.ts \in Nat
      BY Zenon DEF PinInv
    <3> HIDE DEF seen
    <3> QED
      BY <1>2, <2>2, <3>1, GreatestBelow, Zenon
  <2>4. b0 \in seen /\ \A u \in seen : u <= b0
    <3> HIDE DEF seen
    <3> QED
      BY <2>3, Zenon
  <2> HIDE DEF b0
  <2>5. g.found = TRUE /\ g.begin = b0 /\ g.val = mem[k][b0].val
    BY <2>1
  <2> QED
    BY <2>4, <2>5, Zenon
<1> QED
  BY <1>1, <1>2, Zenon

\* The newest version that a snapshot has of a key has not ended for it.
LEMMA NewestVisible ==
  ASSUME HistOK, PinInv, reader.pc # "idle", NEW t, NewestAt(t, reader.ts), NEW e,
         EndOK(hist[t].key, t, e)
  PROVE  reader.ts < e
<1>1. reader.ts \in Nat /\ reader.ts < commit_seq
  BY Zenon DEF PinInv
<1>2. commit_seq \in Nat /\ OpenEnded \in Nat /\ commit_seq < OpenEnded
  BY HistFacts DEF HistOK
<1>3. CASE e = OpenEnded
  BY <1>1, <1>2, <1>3
<1>4. CASE e \in 1..Len(hist) /\ t < e /\ hist[e].key = hist[t].key
  <2>1. ~(e <= reader.ts)
    <3>1. e <= reader.ts => e <= t
      BY <1>4, Zenon DEF NewestAt
    <3>2. t \in Nat /\ e \in Nat
      BY <1>4, HistFacts, Zenon DEF NewestAt
    <3> QED
      BY <1>4, <3>1, <3>2
  <2> QED
    BY <1>1, <1>4, <2>1
<1> QED
  BY <1>3, <1>4, Zenon DEF EndOK

\* What a read takes from the memtable are commits its snapshot has, one of
\* each key.
LEMMA MemSeenSound ==
  ASSUME StoreInv, PinInv, NEW ks \in SUBSET Key
  PROVE  /\ \A r \in MemSeen(ks) :
              /\ r = [key |-> r.key, begin |-> r.begin, val |-> r.val]
              /\ r.key \in ks /\ r.begin \in DOMAIN mem[r.key]
              /\ r.begin \in 1..Len(hist) /\ r.begin <= reader.ts
              /\ hist[r.begin] = [key |-> r.key, val |-> r.val]
         /\ \A r, s \in MemSeen(ks) : r.key = s.key => r = s
<1> DEFINE G(k) == ChainGet(mem[k], reader.ts)
           Row(k) == [key |-> k, begin |-> G(k).begin, val |-> G(k).val]
<1>1. \A r \in MemSeen(ks) : \E k \in ks : G(k).found /\ r = Row(k)
  BY Zenon DEF MemSeen
<1> HIDE DEF G
<1>2. \A k \in ks : Row(k).key = k /\ Row(k).begin = G(k).begin /\ Row(k).val = G(k).val
  BY Zenon
<1>3. \A k \in ks :
        /\ Row(k) = [key |-> Row(k).key, begin |-> Row(k).begin, val |-> Row(k).val]
  BY Zenon
<1>4. ASSUME NEW k \in ks, G(k).found
      PROVE  /\ G(k).begin \in DOMAIN mem[k] /\ G(k).begin \in 1..Len(hist)
             /\ G(k).begin <= reader.ts
             /\ hist[G(k).begin] = [key |-> k, val |-> G(k).val]
  <2>0. k \in Key
    BY Zenon
  <2>1. G(k).begin \in DOMAIN mem[k] /\ Sees(mem[k], G(k).begin, reader.ts)
        /\ G(k).val = mem[k][G(k).begin].val
    BY <1>4, <2>0, ChainSeen, Zenon DEF G
  <2>2. G(k).begin \in 1..Len(hist)
        /\ hist[G(k).begin] = [key |-> k, val |-> mem[k][G(k).begin].val]
    BY <2>0, <2>1, MemFacts, ZenonT(40) DEF StoreInv
  <2> QED
    BY <2>1, <2>2, Zenon DEF Sees
<1> HIDE DEF Row
<1>5. ASSUME NEW r \in MemSeen(ks)
      PROVE  /\ r = [key |-> r.key, begin |-> r.begin, val |-> r.val]
             /\ r.key \in ks /\ r.begin \in DOMAIN mem[r.key]
             /\ r.begin \in 1..Len(hist) /\ r.begin <= reader.ts
             /\ hist[r.begin] = [key |-> r.key, val |-> r.val]
  <2>1. PICK k \in ks : G(k).found /\ r = Row(k)
    BY <1>1, Zenon
  <2> QED
    BY <1>2, <1>3, <1>4, <2>1, ZenonT(40)
<1>6. ASSUME NEW r \in MemSeen(ks), NEW s \in MemSeen(ks), r.key = s.key PROVE r = s
  <2>1. PICK k \in ks : r = Row(k)
    BY <1>1, Zenon
  <2>2. PICK j \in ks : s = Row(j)
    BY <1>1, Zenon
  <2>3. j = k
    BY <1>2, <1>6, <2>1, <2>2, ZenonT(40)
  <2> QED
    BY <2>1, <2>2, <2>3, Zenon
<1> QED
  BY <1>5, <1>6, Zenon

\* The memtable shows the newest version of a key if it has it.
LEMMA MemSeenFinds ==
  ASSUME StoreInv, PinInv, reader.pc # "idle", NEW ks \in SUBSET Key, NEW t,
         NewestAt(t, reader.ts), hist[t].key \in ks, t \in DOMAIN mem[hist[t].key]
  PROVE  RowFor(t) \in MemSeen(ks)
<1> DEFINE k == hist[t].key
           g == ChainGet(mem[k], reader.ts)
<1>1. k \in Key /\ k \in ks /\ t \in DOMAIN mem[k]
  BY Zenon
<1>2. EndOK(k, t, mem[k][t].end) /\ hist[t] = [key |-> k, val |-> mem[k][t].val]
  BY <1>1, MemFacts, Zenon DEF VersionOK, StoreInv
<1>3. Sees(mem[k], t, reader.ts)
  BY <1>2, NewestVisible, Zenon DEF Sees, NewestAt, StoreInv
<1>4. g.found /\ g.begin \in DOMAIN mem[k] /\ g.val = mem[k][g.begin].val
      /\ t <= g.begin /\ Sees(mem[k], g.begin, reader.ts)
  <2> HIDE DEF k
  <2> QED
    BY <1>1, <1>3, ChainSeen, Zenon
<1>5. g.begin \in 1..Len(hist) /\ hist[g.begin].key = k
  <2>1. g.begin \in 1..Len(hist) /\ hist[g.begin] = [key |-> k, val |-> mem[k][g.begin].val]
    <3> HIDE DEF k, g
    <3> QED
      BY <1>1, <1>4, MemFacts, ZenonT(40) DEF StoreInv
  <2> HIDE DEF k, g
  <2> QED
    BY <2>1
<1>6. g.begin = t
  <2>1. g.begin <= t
    BY <1>4, <1>5, Zenon DEF NewestAt, Sees
  <2>2. g.begin \in Nat /\ t \in Nat
    BY <1>5, HistFacts, ZenonT(40) DEF NewestAt, StoreInv
  <2> HIDE DEF g
  <2> QED
    BY <1>4, <2>1, <2>2
<1>7. hist[t].val = g.val
  <2> HIDE DEF k, g
  <2>1. hist[t].val = mem[k][t].val
    BY <1>2
  <2> QED
    BY <1>4, <1>6, <2>1, ZenonT(40)
<1>8. [key |-> k, begin |-> g.begin, val |-> g.val] \in MemSeen(ks)
  BY <1>1, <1>4, ZenonT(40) DEF MemSeen
<1> HIDE DEF g
<1> QED
  BY <1>6, <1>7, <1>8, Zenon DEF RowFor

\* Merging rows of a file into what a read has found leaves commits that the
\* snapshot has, one of each key, and never loses the newest one.
LEMMA MergeSound ==
  ASSUME HistOK, NEW acc, \A r \in acc : SeenOK(r),
         NEW S, \A r \in S : RowOK(r) /\ r.key \in reader.keys /\ r.begin <= reader.ts
  PROVE  /\ \A r \in MergeNewest(acc, S) : SeenOK(r)
         /\ \A r, s \in MergeNewest(acc, S) : r.key = s.key => r = s
         /\ \A t : /\ NewestAt(t, reader.ts)
                   /\ RowFor(t) \in acc \/ \E r \in S : r.key = hist[t].key /\ r.begin = t
                   => RowFor(t) \in MergeNewest(acc, S)
<1> DEFINE Cut(r) == [key |-> r.key, begin |-> r.begin, val |-> r.val]
           all == acc \cup {Cut(r) : r \in S}
<1>1. MergeNewest(acc, S) = {r \in all : \A s \in all : s.key = r.key => s.begin <= r.begin}
  BY Zenon DEF MergeNewest
<1>2. \A r : Cut(r).key = r.key /\ Cut(r).begin = r.begin /\ Cut(r).val = r.val
  BY Zenon
<1>3. ASSUME NEW r \in S PROVE SeenOK(Cut(r))
  <2>1. r.begin \in 1..Len(hist) /\ hist[r.begin] = [key |-> r.key, val |-> r.val]
    BY Zenon DEF RowOK, VersionOK
  <2>2. Cut(r) = [key |-> Cut(r).key, begin |-> Cut(r).begin, val |-> Cut(r).val]
    BY Zenon
  <2> HIDE DEF Cut
  <2> QED
    BY <1>2, <2>1, <2>2, ZenonT(40) DEF SeenOK
<1>4. \A r \in all : SeenOK(r)
  BY <1>3, ZenonT(40)
<1>5. ASSUME NEW r \in S, NEW t, t \in 1..Len(hist), r.key = hist[t].key, r.begin = t
      PROVE  Cut(r) = RowFor(t)
  <2>1. hist[t] = [key |-> r.key, val |-> r.val]
    BY <1>5, ZenonT(40) DEF RowOK, VersionOK
  <2>2. r.val = hist[t].val
    BY <2>1
  <2> QED
    BY <1>5, <2>2, ZenonT(40) DEF RowFor
<1> HIDE DEF Cut
<1>6. \A t : RowFor(t).key = hist[t].key /\ RowFor(t).begin = t
  BY Zenon DEF RowFor
<1>7. ASSUME NEW r \in all, NEW s \in all, r.key = s.key, r.begin = s.begin PROVE r = s
  <2>1. SeenOK(r) /\ SeenOK(s)
    BY <1>4, Zenon
  <2>2. /\ hist[r.begin] = [key |-> r.key, val |-> r.val]
        /\ hist[s.begin] = [key |-> s.key, val |-> s.val]
    BY <2>1, Zenon DEF SeenOK
  <2>3. r.val = s.val
    <3>1. hist[r.begin].val = r.val
      BY <2>2
    <3>2. hist[s.begin].val = s.val
      BY <2>2
    <3> QED
      BY <1>7, <3>1, <3>2, ZenonT(40)
  <2>4. r = [key |-> r.key, begin |-> r.begin, val |-> r.val]
        /\ s = [key |-> s.key, begin |-> s.begin, val |-> s.val]
    BY <2>1, Zenon DEF SeenOK
  <2> QED
    BY <1>7, <2>3, <2>4, ZenonT(40)
<1>8. \A r \in all : r.begin \in Nat
  BY <1>4, HistFacts, Zenon DEF SeenOK
<1>9. ASSUME NEW t, NewestAt(t, reader.ts),
             RowFor(t) \in acc \/ \E r \in S : r.key = hist[t].key /\ r.begin = t
      PROVE  RowFor(t) \in MergeNewest(acc, S)
  <2>1. RowFor(t) \in all
    BY <1>5, <1>9, Zenon DEF NewestAt
  <2>2. ASSUME NEW s \in all, s.key = RowFor(t).key PROVE s.begin <= RowFor(t).begin
    <3>1. SeenOK(s)
      BY <1>4, Zenon
    <3>2. s.begin \in 1..Len(hist) /\ s.begin <= reader.ts
          /\ hist[s.begin] = [key |-> s.key, val |-> s.val]
      BY <3>1, Zenon DEF SeenOK
    <3>3. hist[s.begin].key = hist[t].key
      <4>1. hist[s.begin].key = s.key
        BY <3>2
      <4> QED
        BY <1>6, <2>2, <4>1, ZenonT(40)
    <3> QED
      BY <1>6, <1>9, <3>2, <3>3, ZenonT(40) DEF NewestAt
  <2> HIDE DEF all
  <2> QED
    BY <1>1, <2>1, <2>2, ZenonT(40)
<1> HIDE DEF all
<1>10. ASSUME NEW r \in MergeNewest(acc, S), NEW s \in MergeNewest(acc, S), r.key = s.key
       PROVE  r = s
  <2>1. r \in all /\ s \in all /\ s.begin <= r.begin /\ r.begin <= s.begin
    BY <1>1, <1>10, Zenon
  <2>2. r.begin \in Nat /\ s.begin \in Nat
    BY <1>8, <2>1, Zenon
  <2>3. r.begin = s.begin
    BY <2>1, <2>2
  <2> QED
    BY <1>7, <1>10, <2>1, <2>3, Zenon
<1> QED
  BY <1>1, <1>4, <1>9, <1>10, ZenonT(40)

\* What a merge leaves was found before or is in the file.
LEMMA MergeRows ==
  ASSUME NEW acc, NEW S, NEW r \in MergeNewest(acc, S)
  PROVE  r \in acc \/ \E s \in S : r.key = s.key /\ r.begin = s.begin
<1>1. r \in acc \/ \E s \in S : r = [key |-> s.key, begin |-> s.begin, val |-> s.val]
  BY Zenon DEF MergeNewest
<1>2. ASSUME NEW s \in S, r = [key |-> s.key, begin |-> s.begin, val |-> s.val]
      PROVE  r.key = s.key /\ r.begin = s.begin
  BY <1>2, Zenon
<1> QED
  BY <1>1, <1>2, Zenon

\* A commit adds one key, and one of two bounds is a bound of both.
LEMMA BoundStep ==
  ASSUME StoreInv, BoundInv, [Next]_vars
  PROVE  BoundInv'
<1>1. PICK n \in Nat : \A t \in 1..Len(hist) : hist[t].key <= n
  BY Zenon DEF BoundInv
<1>2. CASE hist' = hist
  BY <1>1, <1>2, Zenon DEF BoundInv
<1>3. ASSUME NEW k \in Key, NEW v \in {"put", "del"},
             Len(hist') = Len(hist) + 1, hist'[Len(hist) + 1] = [key |-> k, val |-> v]
      PROVE  BoundInv'
  <2>1. k \in Nat /\ n + k \in Nat /\ k <= n + k
    BY LsmAssumption
  <2>2. hist'[Len(hist) + 1].key = k
    BY <1>3
  <2>3. \A t \in 1..Len(hist) : hist[t].key \in Nat
    BY HistFacts, LsmAssumption, Zenon DEF StoreInv
  <2>4. \A t \in 1..Len(hist) : hist[t].key <= n + k
    BY <1>1, <2>1, <2>3
  <2>5. \A t \in 1..Len(hist) : hist'[t].key <= n + k
    BY <2>4, HistStep, ZenonT(40)
  <2>6. \A t \in 1..Len(hist') : t \in 1..Len(hist) \/ t = Len(hist) + 1
    <3>1. Len(hist) \in Nat
      BY HistFacts, Zenon DEF StoreInv
    <3> QED
      BY <1>3, <3>1
  <2>7. \A t \in 1..Len(hist') : hist'[t].key <= n + k
    BY <2>1, <2>2, <2>5, <2>6, ZenonT(40)
  <2> QED
    BY <2>1, <2>7, ZenonT(40) DEF BoundInv
<1> QED
  BY <1>2, <1>3, HistStep, ZenonT(40)

\* The key range of a file holds the key of each of its rows.
LEMMA RangeHolds ==
  ASSUME StoreInv, BoundInv, NEW f \in DOMAIN ssts, NEW r \in ssts[f]
  PROVE  /\ RangeOf(ssts[f]).min <= r.key /\ r.key <= RangeOf(ssts[f]).max
         /\ RangeOf(ssts[f]).min \in Nat /\ RangeOf(ssts[f]).max \in Nat /\ r.key \in Nat
<1> DEFINE K == {x.key : x \in ssts[f]}
<1>1. K # {} /\ r.key \in K
  BY Zenon
<1>2. \A x \in ssts[f] : x.key \in Key /\ x.begin \in 1..Len(hist) /\ hist[x.begin].key = x.key
  <2>1. \A x \in ssts[f] : x.key \in Key /\ x.begin \in 1..Len(hist)
                            /\ hist[x.begin] = [key |-> x.key, val |-> x.val]
    BY Zenon DEF StoreInv, FilesOK, RowOK, VersionOK
  <2>2. ASSUME NEW x \in ssts[f] PROVE hist[x.begin].key = x.key
    <3>1. hist[x.begin] = [key |-> x.key, val |-> x.val]
      BY <2>1, Zenon
    <3> QED
      BY <3>1
  <2> QED
    BY <2>1, <2>2, Zenon
<1>3. K \subseteq Nat
  BY <1>2, LsmAssumption, ZenonT(40)
<1>4. PICK n \in Nat : \A t \in 1..Len(hist) : hist[t].key <= n
  BY Zenon DEF BoundInv
<1>5. \A x \in K : x <= n
  BY <1>2, <1>4, ZenonT(40)
<1>6. Lowest(ssts[f]) = CHOOSE m \in K : \A x \in ssts[f] : m <= x.key
  BY Zenon DEF Lowest
<1>7. Highest(ssts[f]) = CHOOSE m \in K : \A x \in ssts[f] : x.key <= m
  BY Zenon DEF Highest
<1>8. \A m : (\A x \in ssts[f] : m <= x.key) <=> \A y \in K : m <= y
  BY Zenon
<1>9. \A m : (\A x \in ssts[f] : x.key <= m) <=> \A y \in K : y <= m
  BY Zenon
<1> HIDE DEF K
<1>10. (\E m \in K : \A y \in K : m <= y) /\ \E m \in K : \A y \in K : y <= m
  BY <1>1, <1>3, <1>5, LeastOf, GreatestBelow, ZenonT(40)
<1>11. Lowest(ssts[f]) \in K /\ \A y \in K : Lowest(ssts[f]) <= y
  BY <1>6, <1>8, <1>10, ZenonT(40)
<1>12. Highest(ssts[f]) \in K /\ \A y \in K : y <= Highest(ssts[f])
  BY <1>7, <1>9, <1>10, Zenon
<1>13. RangeOf(ssts[f]).min = Lowest(ssts[f]) /\ RangeOf(ssts[f]).max = Highest(ssts[f])
  BY Zenon DEF RangeOf
<1> QED
  BY <1>1, <1>3, <1>11, <1>12, <1>13, ZenonT(40)

\* A result row stays one while the snapshot is the same.
LEMMA SeenStays ==
  ASSUME StoreInv, [Next]_vars, reader'.keys = reader.keys, reader'.ts = reader.ts
  PROVE  \A r : SeenOK(r) => SeenOK(r)'
BY HistStep, Zenon DEF SeenOK

\* No scan is under way in a transaction that is between two reads, and what
\* a scan has put aside is gone.
LEMMA BetweenReads ==
  ASSUME FindInv, HideInv, reader.pc = "begun"
  PROVE  reader.op \notin Scans /\ reader.more = {}
<1>1. reader.op \notin Scans
  BY Zenon DEF FindInv
<1> QED
  BY <1>1, Zenon DEF HideInv, Scans

\* A point read is no scan.
LEMMA GetsNoScan ==
  ASSUME FindInv, GetHot \/ GetLoad \/ GetFile
  PROVE  reader.op \notin Scans
<1>1. CASE GetHot
  <2>1. reader.pc = "hot"
    BY <1>1, Zenon DEF GetHot
  <2> QED
    BY <2>1, Zenon DEF FindInv
<1>2. CASE GetLoad \/ GetFile
  <2>1. reader.op = "get"
    BY <1>2, Zenon DEF GetLoad, GetFile
  <2> QED
    BY <2>1, Zenon DEF Scans
<1> QED
  BY <1>1, <1>2, Zenon

\* The rows a scan takes from a file.
LEMMA FileRowsSound ==
  ASSUME StoreInv, NEW f \in DOMAIN ssts, NEW r \in FileRows(f)
  PROVE  RowOK(r) /\ r.key \in reader.keys /\ r.begin <= reader.ts
BY Zenon DEF FileRows, Visible, StoreInv, FilesOK

\* What a scan has found stays sound.
LEMMA SoundStep ==
  ASSUME StoreInv, PinInv, IsReader, SoundInv, FindInv, HideInv, [Next]_vars
  PROVE  SoundInv'
<1>0. HistOK
  BY Zenon DEF StoreInv
<1>1. CASE ~Reading
  <2>1. \A r : SeenOK(r) => SeenOK(r)'
    BY <1>1, EngineLeavesRead, SeenStays, ZenonT(40)
  <2>2. /\ reader'.pc = reader.pc /\ reader'.op = reader.op /\ reader'.keys = reader.keys
        /\ reader'.acc = reader.acc /\ reader'.more = reader.more /\ reader'.blind = reader.blind
        /\ reader'.todo = reader.todo
    BY <1>1, EngineLeavesRead, Zenon
  <2> QED
    BY <2>1, <2>2, Zenon DEF SoundInv
<1>2. CASE Begin \/ End \/ ReadReturn
  <2>1. reader'.op = "none"
    BY <1>2, ReaderFresh, Zenon DEF Fresh
  <2> QED
    BY <2>1, Zenon DEF SoundInv, Scans
<1>3. ASSUME NEW k, GetMem(k) PROVE SoundInv'
  <2>1. reader'.op = "get"
    BY <1>3, ReaderAsksGet, ZenonT(40)
  <2> QED
    BY <2>1, Zenon DEF SoundInv, Scans
<1>4. CASE GetHot \/ GetLoad \/ GetFile
  <2>1. reader'.op = reader.op
    BY <1>4, ReaderGets, ZenonT(40)
  <2> QED
    BY <1>4, <2>1, GetsNoScan, ZenonT(40) DEF SoundInv
<1>5. ASSUME NEW op, NEW ks \in SUBSET Key, ScanMem(op, ks) PROVE SoundInv'
  <2>1. /\ reader.pc = "begun" /\ reader'.keys = ks /\ reader'.acc = MemSeen(ks)
        /\ reader'.more = reader.more /\ reader'.ts = reader.ts /\ reader'.pc \in {"merge", "load"}
    BY <1>5, ReaderAsksScan, ZenonT(40)
  <2>2. reader'.more = {}
    BY <2>1, BetweenReads, ZenonT(40)
  <2>3. hist' = hist
    BY <1>5, Zenon DEF ScanMem, engine, history
  <2>7. \A r \in MemSeen(ks) :
          /\ r = [key |-> r.key, begin |-> r.begin, val |-> r.val]
          /\ r.key \in ks /\ r.begin \in 1..Len(hist) /\ r.begin <= reader.ts
          /\ hist[r.begin] = [key |-> r.key, val |-> r.val]
    BY MemSeenSound, Zenon
  <2>8. \A r, s \in MemSeen(ks) : r.key = s.key => r = s
    BY MemSeenSound, Zenon
  <2>4. ASSUME NEW r \in reader'.acc PROVE SeenOK(r)'
    <3>1. r \in MemSeen(ks)
      BY <2>1, Zenon
    <3>2. /\ r = [key |-> r.key, begin |-> r.begin, val |-> r.val]
          /\ r.key \in reader'.keys
      BY <2>1, <2>7, <3>1, ZenonT(40)
    <3>3. /\ r.begin \in 1..Len(hist') /\ r.begin <= reader'.ts
          /\ hist'[r.begin] = [key |-> r.key, val |-> r.val]
      BY <2>1, <2>3, <2>7, <3>1, ZenonT(40)
    <3> QED
      BY <3>2, <3>3, Zenon DEF SeenOK
  <2>5. \A r, s \in reader'.acc : r.key = s.key => r = s
    <3>1. reader'.acc = MemSeen(ks)
      BY <2>1, Zenon
    <3> QED
      BY <2>8, <3>1, ZenonT(40)
  <2>6. reader'.pc # "files"
    BY <2>1, Zenon
  <2> QED
    BY <2>1, <2>2, <2>4, <2>5, <2>6, ZenonT(40) DEF SoundInv
<1>6. ASSUME reader'.op = reader.op, reader'.keys = reader.keys, reader'.ts = reader.ts,
             reader'.blind = reader.blind, reader.op \in Scans,
             hist' = hist, \A r \in reader'.acc : SeenOK(r),
             \A r, s \in reader'.acc : r.key = s.key => r = s,
             reader'.more # {} => reader.op = "table" /\ ~reader.blind,
             reader'.pc = "files" /\ reader.op = "table" /\ reader.blind => reader'.todo = {}
      PROVE  SoundInv'
  BY <1>6, Zenon DEF SoundInv, SeenOK
<1>7. ASSUME ScanLoad, reader.op \in Scans PROVE SoundInv'
  <2>1. /\ reader'.op = reader.op /\ reader'.keys = reader.keys /\ reader'.ts = reader.ts
        /\ reader'.blind = reader.blind /\ reader'.acc = reader.acc /\ reader'.more = reader.more
    BY <1>7, ReaderLists, Zenon
  <2>2. hist' = hist
    BY <1>7, Zenon DEF ScanLoad, engine, history
  <2>3. ASSUME reader.op = "table", reader.blind PROVE reader'.todo = {}
    <3> DEFINE Walked(q) == reader.op = "table" => ~reader.blind /\ q[1] \in ReachedLevels
    <3>1. reader'.todo = {[file |-> p[2], level |-> p[1]] : p \in {q \in vset.levels : Walked(q)}}
      BY <1>7, ReaderLists, Zenon
    <3>2. \A q \in vset.levels : ~Walked(q)
      BY <2>3, Zenon
    <3> HIDE DEF Walked
    <3> QED
      BY <3>1, <3>2, Zenon
  <2>4. /\ \A r \in reader.acc : SeenOK(r)
        /\ \A r, s \in reader.acc : r.key = s.key => r = s
        /\ reader.more # {} => reader.op = "table" /\ ~reader.blind
    BY <1>7, Zenon DEF SoundInv
  <2> QED
    BY <1>6, <1>7, <2>1, <2>2, <2>3, <2>4, Zenon
<1>8. ASSUME ReadMerge, reader.op \in Scans PROVE SoundInv'
  <2>1. /\ reader'.op = reader.op /\ reader'.keys = reader.keys /\ reader'.ts = reader.ts
        /\ reader'.blind = reader.blind /\ reader'.acc \subseteq reader.acc
        /\ reader'.more = reader.more /\ reader'.pc # "files"
    BY <1>8, ReaderMerges, Zenon
  <2>2. hist' = hist
    BY <1>8, Zenon DEF ReadMerge, engine, history
  <2>4. /\ \A r \in reader.acc : SeenOK(r)
        /\ \A r, s \in reader.acc : r.key = s.key => r = s
        /\ reader.more # {} => reader.op = "table" /\ ~reader.blind
    BY <1>8, Zenon DEF SoundInv
  <2> QED
    BY <1>6, <1>8, <2>1, <2>2, <2>4, ZenonT(40)
<1>9. ASSUME ScanFile, reader.op \in Scans PROVE SoundInv'
  <2>0. reader.op # "delete"
    BY <1>9, Zenon DEF Scans
  <2>1. /\ reader'.op = reader.op /\ reader'.keys = reader.keys /\ reader'.ts = reader.ts
        /\ reader'.blind = reader.blind /\ reader.pc = "files"
    BY <1>9, ReaderScans, Zenon DEF SameScan
  <2>2. hist' = hist
    BY <1>9, Zenon DEF ScanFile, engine, history
  <2>3. PICK c \in reader.todo :
          /\ reader'.todo \subseteq reader.todo
          /\ \/ reader'.acc = reader.acc /\ reader'.more = reader.more
             \/ /\ c.file \in DOMAIN ssts /\ reader.op = "table"
                /\ reader'.acc = reader.acc
             \/ /\ c.file \in DOMAIN ssts
                /\ reader'.acc = MergeNewest(reader.acc, ShownRows(c.file))
                /\ reader'.more = reader.more
    BY <1>9, <2>0, ReaderScans, ZenonT(40)
  <2>4. /\ \A r \in reader.acc : SeenOK(r)
        /\ \A r, s \in reader.acc : r.key = s.key => r = s
        /\ reader.more # {} => reader.op = "table" /\ ~reader.blind
        /\ reader.op = "table" /\ reader.blind => reader.todo = {}
    BY <1>9, <2>1, Zenon DEF SoundInv
  <2>5. /\ reader.op = "table" => ~reader.blind
        /\ reader.op = "table" /\ reader.blind => reader'.todo = {}
    BY <2>3, <2>4, ZenonT(40)
  <2>6. CASE reader'.acc = reader.acc
    BY <1>6, <1>9, <2>1, <2>2, <2>3, <2>4, <2>5, <2>6, ZenonT(40)
  <2>7. ASSUME c.file \in DOMAIN ssts, reader'.acc = MergeNewest(reader.acc, ShownRows(c.file)),
               reader'.more = reader.more
        PROVE  SoundInv'
    <3>1. \A r \in ShownRows(c.file) : RowOK(r) /\ r.key \in reader.keys /\ r.begin <= reader.ts
      BY <2>7, FileRowsSound, ZenonT(40) DEF ShownRows
    <3>3. /\ \A r \in MergeNewest(reader.acc, ShownRows(c.file)) : SeenOK(r)
          /\ \A r, s \in MergeNewest(reader.acc, ShownRows(c.file)) : r.key = s.key => r = s
      <4>1. \A r \in reader.acc : SeenOK(r)
        BY <2>4, ZenonT(40)
      <4> QED
        BY <1>0, <3>1, <4>1, MergeSound
    <3>2. /\ \A r \in reader'.acc : SeenOK(r)
          /\ \A r, s \in reader'.acc : r.key = s.key => r = s
      BY <2>7, <3>3, ZenonT(40)
    <3> QED
      BY <1>6, <1>9, <2>1, <2>2, <2>4, <2>5, <2>7, <3>2, ZenonT(40)
  <2> QED
    BY <2>3, <2>6, <2>7, Zenon
<1>10. ASSUME reader.op \notin Scans, ScanLoad \/ ScanFile \/ ReadMerge PROVE SoundInv'
  <2>1. reader'.op = reader.op
    BY <1>10, ReaderLists, ReaderScans, ReaderMerges, ZenonT(40) DEF SameScan
  <2> QED
    BY <1>10, <2>1, Zenon DEF SoundInv
<1>11. \A r \in {x \in Reads : x[1] # "get"} : r[2] \in SUBSET Key
  BY LsmAssumption, Zenon
<1> QED
  BY <1>1, <1>2, <1>3, <1>4, <1>5, <1>7, <1>8, <1>9, <1>10, <1>11, ZenonT(40) DEF Reading

\* What is the newest version for a snapshot stays that.
LEMMA NewestSame ==
  ASSUME StoreInv, PinInv, reader.pc # "idle", [Next]_vars, reader'.ts = reader.ts, NEW t
  PROVE  /\ NewestAt(t, reader.ts)' <=> NewestAt(t, reader.ts)
         /\ NewestAt(t, reader.ts) =>
              t \in 1..Len(hist) /\ hist'[t] = hist[t] /\ RowFor(t)' = RowFor(t)
<1>1. reader.ts \in Nat /\ reader.ts < commit_seq /\ commit_seq = Len(hist) + 1
      /\ Len(hist) \in Nat
  BY HistFacts, Zenon DEF PinInv, StoreInv
<1>2. \A u \in 1..Len(hist) : u \in 1..Len(hist') /\ hist'[u] = hist[u]
  BY HistStep, ZenonT(40)
<1>3. \A u \in 1..Len(hist') : u <= reader.ts => u \in 1..Len(hist)
  <2>1. hist' = hist \/ Len(hist') = Len(hist) + 1
    BY HistStep, Zenon
  <2> QED
    BY <1>1, <2>1
<1>4. NewestAt(t, reader.ts)' <=> NewestAt(t, reader.ts)
  <2>1. ASSUME NewestAt(t, reader.ts) PROVE NewestAt(t, reader.ts)'
    <3>1. t \in 1..Len(hist) /\ t <= reader.ts
      BY <2>1, ZenonT(40) DEF NewestAt
    <3>2. ASSUME NEW u \in 1..Len(hist'), u <= reader.ts, hist'[u].key = hist'[t].key PROVE u <= t
      <4>1. u \in 1..Len(hist) /\ hist[u].key = hist[t].key
        BY <1>2, <1>3, <3>1, <3>2, ZenonT(40)
      <4> QED
        BY <2>1, <3>2, <4>1, ZenonT(40) DEF NewestAt
    <3> QED
      BY <1>2, <3>1, <3>2, ZenonT(40) DEF NewestAt
  <2>2. ASSUME NewestAt(t, reader.ts)' PROVE NewestAt(t, reader.ts)
    <3>1. t \in 1..Len(hist) /\ t <= reader.ts
      BY <1>3, <2>2, Zenon DEF NewestAt
    <3>2. ASSUME NEW u \in 1..Len(hist), u <= reader.ts, hist[u].key = hist[t].key PROVE u <= t
      <4>1. u \in 1..Len(hist') /\ hist'[u].key = hist'[t].key
        BY <1>2, <3>1, <3>2, ZenonT(40)
      <4> QED
        BY <2>2, <3>2, <4>1, Zenon DEF NewestAt
    <3> QED
      BY <3>1, <3>2, Zenon DEF NewestAt
  <2> QED
    BY <2>1, <2>2, ZenonT(40)
<1>5. ASSUME NewestAt(t, reader.ts)
      PROVE  t \in 1..Len(hist) /\ hist'[t] = hist[t] /\ RowFor(t)' = RowFor(t)
  <2>1. t \in 1..Len(hist) /\ hist'[t] = hist[t]
    BY <1>2, <1>5, ZenonT(40) DEF NewestAt
  <2> QED
    BY <2>1, Zenon DEF RowFor
<1> QED
  BY <1>4, <1>5, ZenonT(40)

\* What a compaction may drop is not what the snapshot asks for.
LEMMA NewestNotSuperseded ==
  ASSUME StoreInv, reader.pc # "idle", NEW t, NewestAt(t, reader.ts)
  PROVE  ~Superseded(hist[t].key, t)
<1> SUFFICES ASSUME NEW e \in 1..Len(hist), hist[e].key = hist[t].key, t < e, e <= reader.ts
             PROVE  FALSE
  BY Zenon DEF Superseded, Watermark
<1>1. e <= t
  BY Zenon DEF NewestAt
<1>2. e \in Nat /\ t \in Nat
  BY HistFacts, ZenonT(40) DEF NewestAt, StoreInv
<1> QED
  BY <1>1, <1>2

\* A file that a scan has listed keeps its rows until it is unlinked.
LEMMA AheadStays ==
  ASSUME StoreInv, FileIdsInv, [Next]_vars, reader'.todo = reader.todo, NEW t,
         hist'[t] = hist[t], Ahead(t)
  PROVE  Ahead(t)'
<1>1. PICK c \in reader.todo :
        c.file \in DOMAIN ssts => \E r \in ssts[c.file] : r.key = hist[t].key /\ r.begin = t
  BY Zenon DEF Ahead
<1>2. c.file < vset.next
  BY Zenon DEF FileIdsInv
<1>3. c.file \in DOMAIN ssts' => c.file \in DOMAIN ssts /\ ssts'[c.file] = ssts[c.file]
  BY <1>2, FilesStep, Zenon
<1> QED
  BY <1>1, <1>3, ZenonT(40) DEF Ahead

\* Flushes, compactions, commits and drops leave a scan what it needs.
LEMMA FindEngine ==
  ASSUME StoreInv, PinInv, DropInv, IsReader, FileIdsInv, SoundInv, FindInv, [Next]_vars, ~Reading
  PROVE  FindInv'
<1>1. /\ reader'.pc = reader.pc /\ reader'.op = reader.op /\ reader'.ts = reader.ts
      /\ reader'.keys = reader.keys /\ reader'.blind = reader.blind
      /\ reader'.hands = reader.hands /\ reader'.gap = reader.gap
      /\ reader'.todo = reader.todo /\ reader'.acc = reader.acc /\ reader'.more = reader.more
  BY EngineLeavesRead, Zenon
<1>2. CASE reader.op \notin Scans
  BY <1>1, <1>2, Zenon DEF FindInv
<1>3. CASE reader.op \in Scans
  <2>1. reader.pc \in {"load", "files", "done", "failed"} /\ reader.pc # "idle"
        /\ reader.keys \subseteq Key
    BY <1>3, Zenon DEF FindInv, SoundInv
  <2>2. \A k \in reader.keys : /\ Safe(k)' => Safe(k)
                               /\ dropped_at[TableOf[k]] # 0 => dropped_at'[TableOf[k]] # 0
    BY <2>1, SafeBack, ZenonT(40) DEF StoreInv
  <2>3. reader'.blind => reader'.op = "table" /\ \A k \in reader'.keys : dropped_at'[TableOf[k]] # 0
    BY <1>1, <1>3, <2>2, ZenonT(40) DEF FindInv
  <2>4. \A k \in Undisturbed' : k \in Undisturbed
    BY <1>1, <2>2, ZenonT(40) DEF Undisturbed, Safe
  <2>5. Shown' = Shown
    BY <1>1, ZenonT(40) DEF Shown
  <2>6. ASSUME NEW t \in 1..Len(hist'), NewestAt(t, reader.ts)', hist'[t].key \in Undisturbed'
        PROVE  Found(t)'
    <3>1. /\ NewestAt(t, reader.ts) /\ t \in 1..Len(hist)
          /\ hist'[t] = hist[t] /\ RowFor(t)' = RowFor(t)
      BY <1>1, <2>1, <2>6, NewestSame, ZenonT(40)
    <3>2. Found(t)
      BY <1>3, <2>4, <2>6, <3>1, ZenonT(40) DEF FindInv
    <3>3. ASSUME Stored(hist[t].key, t) PROVE Stored(hist[t].key, t)'
      <4>1. PICK k : k = hist[t].key /\ k = hist'[t].key
        BY <3>1, Zenon
      <4>2. Stored(k, t)
        BY <3>3, <4>1, ZenonT(40)
      <4>3. Stored(k, t)' \/ Superseded(k, t)'
        BY <4>2, StoredStays, ZenonT(40)
      <4>4. ASSUME Superseded(k, t)' PROVE FALSE
        <5>1. PICK e \in 1..Len(hist') : hist'[e].key = k /\ t < e /\ e <= reader'.ts
          BY <1>1, <2>1, <4>4, ZenonT(40) DEF Superseded, Watermark
        <5>2. e <= t
          BY <2>6, <4>1, <5>1, ZenonT(40) DEF NewestAt
        <5>3. e \in Int /\ t \in Int
          OBVIOUS
        <5> QED
          BY <5>1, <5>2, <5>3
      <4> QED
        BY <4>1, <4>3, <4>4, ZenonT(40) DEF Stored
    <3>4. ASSUME Ahead(t) PROVE Ahead(t)'
      BY <1>1, <3>1, <3>4, AheadStays, ZenonT(40)
    <3> QED
      BY <1>1, <2>5, <3>1, <3>2, <3>3, <3>4, ZenonT(40) DEF Found
  <2>7. ASSUME reader'.pc = "done", NEW r \in reader'.acc
        PROVE  /\ reader'.op # "all" => r.val = "put"
               /\ reader'.op # "table" /\ r.key \in Undisturbed' => NewestAt(r.begin, reader.ts)'
    <3>1. /\ reader.op # "all" => r.val = "put"
          /\ reader.op # "table" /\ r.key \in Undisturbed => NewestAt(r.begin, reader.ts)
      BY <1>1, <1>3, <2>7, ZenonT(40) DEF FindInv
    <3>2. NewestAt(r.begin, reader.ts) => NewestAt(r.begin, reader.ts)'
      BY <1>1, <2>1, NewestSame, ZenonT(40)
    <3> QED
      BY <1>1, <2>4, <3>1, <3>2, ZenonT(40)
  <2> QED
    BY <1>1, <2>1, <2>3, <2>6, <2>7, ZenonT(40) DEF FindInv
<1> QED
  BY <1>2, <1>3, ZenonT(40)

\* A scan starts: what the memtable does not show it will find in the files.
LEMMA FindMem ==
  ASSUME StoreInv, PinInv, DropInv, KeptInv, IsReader, NEW r \in Reads, ScanMem(r[1], r[2])
  PROVE  FindInv'
<1> DEFINE op == r[1]
           ks == r[2]
<1>1. ScanMem(op, ks)
  BY Zenon
<1>2. ks \in SUBSET Key \/ op \notin Scans
  BY LsmAssumption, Zenon DEF Scans
<1>3. op = "table" => \A j, k \in ks : TableOf[j] = TableOf[k]
  BY LsmAssumption, Zenon
<1> HIDE DEF op, ks
<1>4. /\ reader'.op = op /\ reader'.ts = reader.ts /\ reader'.keys = ks
      /\ reader'.hands = InHands /\ reader.pc = "begun"
      /\ op # "delete" => reader'.pc = "load"
      /\ reader'.acc = MemSeen(ks)
      /\ reader'.blind <=> op = "table" /\ \E k \in ks : TableOf[k] \in dropped_tables
  BY <1>1, ReaderAsksScan, ZenonT(40)
<1>5. UNCHANGED <<hist, vset, ssts, hurt, dropped_at>>
  BY <1>1, Zenon DEF ScanMem, engine, history, storage
<1>6. CASE op \notin Scans
  BY <1>4, <1>6, Zenon DEF FindInv
<1>7. CASE op \in Scans
  <2>1. ks \in SUBSET Key /\ reader'.pc = "load"
    BY <1>2, <1>4, <1>7, ZenonT(40) DEF Scans
  <2>2. reader'.blind => op = "table" /\ \A k \in ks : dropped_at[TableOf[k]] # 0
    BY <1>3, <1>4, ZenonT(40) DEF DropInv
  <2>3. ASSUME NEW t \in 1..Len(hist), NewestAt(t, reader.ts), hist[t].key \in Undisturbed'
        PROVE  RowFor(t) \in MemSeen(ks) \/ Stored(hist[t].key, t)
    <3> DEFINE k == hist[t].key
    <3>1. k \in ks /\ k \in Key /\ Safe(k) /\ k \notin InHands
      BY <1>4, <1>5, <2>1, <2>3, ZenonT(40) DEF Undisturbed, Safe
    <3>2. t \in DOMAIN mem[k] \/ InFlight(k, t) \/ Stored(k, t) \/ Superseded(k, t)
      BY <3>1, Zenon DEF KeptInv
    <3>3. ~InFlight(k, t)
      BY <3>1, ZenonT(40) DEF InFlight, InHands
    <3>4. reader.pc # "idle"
      BY <1>4, Zenon
    <3>5. ~Superseded(k, t)
      BY <2>3, <3>4, NewestNotSuperseded, ZenonT(40)
    <3>6. t \in DOMAIN mem[k] => RowFor(t) \in MemSeen(ks)
      BY <2>1, <2>3, <3>1, <3>4, MemSeenFinds, ZenonT(40)
    <3> QED
      BY <3>2, <3>3, <3>5, <3>6, ZenonT(40)
  <2>4. ASSUME NEW t \in 1..Len(hist'), NewestAt(t, reader.ts)', hist'[t].key \in Undisturbed'
        PROVE  Found(t)'
    <3>1. NewestAt(t, reader.ts)
      BY <1>4, <1>5, <2>4, ZenonT(40) DEF NewestAt
    <3>2. RowFor(t) \in MemSeen(ks) \/ Stored(hist[t].key, t)
      BY <1>5, <2>3, <2>4, <3>1, ZenonT(40)
    <3>3. RowFor(t)' \in reader'.acc \/ Stored(hist[t].key, t)'
      BY <1>4, <1>5, <3>2, ZenonT(40) DEF RowFor, Stored, Listed
    <3> QED
      BY <2>1, <3>3, ZenonT(40) DEF Found
  <2> QED
    BY <1>4, <1>5, <1>7, <2>1, <2>2, <2>4, ZenonT(40) DEF FindInv
<1> QED
  BY <1>6, <1>7, ZenonT(40)

\* A scan lists the files: what it has not seen is in one of them.
LEMMA FindLoad ==
  ASSUME StoreInv, IsReader, FindInv, ScanLoad
  PROVE  FindInv'
<1>1. /\ reader'.op = reader.op /\ reader'.ts = reader.ts
      /\ reader'.keys = reader.keys /\ reader'.acc = reader.acc /\ reader'.more = reader.more
      /\ reader'.blind = reader.blind /\ reader'.hands = reader.hands
      /\ reader.pc = "load" /\ reader'.pc = "files"
      /\ reader'.gap <=> \E p \in vset.levels : \E l \in 1..p[1] : VsFiles(vset, l) = {}
  BY ReaderLists, Zenon
<1>2. UNCHANGED <<hist, vset, ssts, hurt, dropped_at>>
  BY Zenon DEF ScanLoad, engine, history, storage
<1>3. CASE reader.op \notin Scans
  BY <1>1, <1>3, ZenonT(40) DEF FindInv
<1>4. CASE reader.op \in Scans
  <2>1. Undisturbed' = Undisturbed
    BY <1>1, <1>2, Zenon DEF Undisturbed
  <2>2. ASSUME NEW t \in 1..Len(hist), hist[t].key \in Undisturbed,
               reader.op = "table" => ~reader'.gap, Stored(hist[t].key, t)
        PROVE  Ahead(t)'
    <3>1. PICK f \in Listed : \E r \in ssts[f] : r.key = hist[t].key /\ r.begin = t
      BY <2>2, Zenon DEF Stored
    <3>2. PICK p \in vset.levels : p[2] = f
      BY Zenon DEF Listed
    <3> DEFINE Walked(q) == reader.op = "table" => ~reader.blind /\ q[1] \in ReachedLevels
    <3>3. Walked(p)
      <4>1. ~reader.blind
        BY <1>4, <2>2, ZenonT(40) DEF FindInv, Undisturbed
      <4>2. ~reader'.gap => p[1] \in ReachedLevels
        BY <1>1, Zenon DEF ReachedLevels
      <4> QED
        BY <2>2, <4>1, <4>2, ZenonT(40)
    <3>4. reader'.todo = {[file |-> q[2], level |-> q[1]] : q \in {x \in vset.levels : Walked(x)}}
      BY ReaderLists, Zenon
    <3> HIDE DEF Walked
    <3> DEFINE c == [file |-> p[2], level |-> p[1]]
    <3>5. c \in reader'.todo /\ c.file = f
      BY <3>2, <3>3, <3>4, Zenon
    <3> HIDE DEF c
    <3> QED
      BY <1>2, <3>1, <3>5, ZenonT(40) DEF Ahead
  <2>3. ASSUME NEW t \in 1..Len(hist'), NewestAt(t, reader.ts)', hist'[t].key \in Undisturbed'
        PROVE  Found(t)'
    <3>1. NewestAt(t, reader.ts) /\ t \in 1..Len(hist) /\ hist[t].key \in Undisturbed
      BY <1>1, <1>2, <2>1, <2>3, ZenonT(40) DEF NewestAt
    <3>2. RowFor(t) \in reader.acc \/ Stored(hist[t].key, t)
      BY <1>1, <1>4, <3>1, ZenonT(40) DEF FindInv, Found
    <3>3. RowFor(t)' = RowFor(t)
      BY <1>2, Zenon DEF RowFor
    <3>4. RowFor(t) \in reader.acc => RowFor(t)' \in Shown'
      BY <1>1, <3>3, ZenonT(40) DEF Shown
    <3>5. reader'.pc # "load" /\ reader'.pc # "done"
      BY <1>1, Zenon
    <3> QED
      BY <1>1, <2>2, <3>1, <3>2, <3>4, <3>5, ZenonT(40) DEF Found
  <2>4. reader'.pc \in {"load", "files", "done", "failed"} /\ reader'.pc # "done"
    BY <1>1, Zenon
  <2> QED
    BY <1>1, <1>2, <1>4, <2>3, <2>4, ZenonT(40) DEF FindInv
<1> QED
  BY <1>3, <1>4, ZenonT(40)

\* A file that has the newest version of a key shows it, and is not passed over.
LEMMA FileShows ==
  ASSUME StoreInv, BoundInv, PinInv, DropInv, reader.pc # "idle", NEW f \in DOMAIN ssts,
         NEW t, NewestAt(t, reader.ts), hist[t].key \in Undisturbed,
         NEW r \in ssts[f], r.key = hist[t].key, r.begin = t
  PROVE  /\ r \in FileRows(f) /\ r \in ShownRows(f) /\ ~Pruned(f)
         /\ [key |-> r.key, begin |-> r.begin, val |-> r.val] = RowFor(t)
<1>1. RowOK(r)
  BY Zenon DEF StoreInv, FilesOK
<1>2. EndOK(hist[t].key, t, r.end) /\ hist[t] = [key |-> r.key, val |-> r.val]
  BY <1>1, Zenon DEF RowOK, VersionOK
<1>3. Visible(r, reader.ts)
  BY <1>2, NewestVisible, Zenon DEF Visible, NewestAt, StoreInv
<1>4. r.key \in reader.keys /\ TableOf[r.key] \notin dropped_tables
  BY Zenon DEF Undisturbed, DropInv
<1>5. r \in FileRows(f) /\ r \in ShownRows(f)
  BY <1>3, <1>4, ZenonT(40) DEF FileRows, ShownRows
<1>6. ASSUME Pruned(f) PROVE FALSE
  <2>1. f \in Listed /\ vset.meta[f] = RangeOf(ssts[f])
        /\ (r.key < vset.meta[f].min \/ vset.meta[f].max < r.key)
    BY <1>4, <1>6, Zenon DEF Pruned, StoreInv, ListedOK
  <2>2. /\ RangeOf(ssts[f]).min <= r.key /\ r.key <= RangeOf(ssts[f]).max
        /\ RangeOf(ssts[f]).min \in Nat /\ RangeOf(ssts[f]).max \in Nat /\ r.key \in Nat
    BY RangeHolds, Zenon
  <2> QED
    BY <2>1, <2>2
<1>7. hist[t].val = r.val
  BY <1>2
<1> QED
  BY <1>5, <1>6, <1>7, ZenonT(40) DEF RowFor

\* A scan reads a file: it takes the newest version of a key if the file has it.
LEMMA FindFile ==
  ASSUME StoreInv, BoundInv, PinInv, DropInv, IsReader, SoundInv, FindInv, ScanFile
  PROVE  FindInv'
<1>1. /\ reader'.op = reader.op /\ reader'.ts = reader.ts /\ reader'.keys = reader.keys
      /\ reader'.blind = reader.blind /\ reader'.hands = reader.hands /\ reader'.gap = reader.gap
      /\ reader.pc = "files"
  BY ReaderScans, Zenon DEF SameScan
<1>2. UNCHANGED <<hist, vset, ssts, hurt, dropped_at>>
  BY Zenon DEF ScanFile, engine, history, storage
<1>3. CASE reader.op \notin Scans
  BY <1>1, <1>3, ZenonT(40) DEF FindInv
<1>4. CASE reader.op \in Scans
  <2>0. reader.op # "delete" /\ reader.pc # "idle" /\ HistOK
    BY <1>1, <1>4, ZenonT(40) DEF Scans, StoreInv
  <2>1. Undisturbed' = Undisturbed
    BY <1>1, <1>2, ZenonT(40) DEF Undisturbed
  <2>2. PICK c \in reader.todo :
          /\ reader'.todo = reader.todo \ {c}
          /\ \/ /\ Pruned(c.file) /\ reader'.pc = "files"
                /\ reader'.acc = reader.acc /\ reader'.more = reader.more
             \/ reader'.pc = "failed"
             \/ /\ c.file \in DOMAIN ssts /\ reader'.pc = "files"
                /\ reader'.acc = reader.acc
                /\ reader'.more = reader.more \cup FileRows(c.file)
             \/ /\ c.file \in DOMAIN ssts /\ reader'.pc = "files"
                /\ reader'.acc = MergeNewest(reader.acc, ShownRows(c.file))
                /\ reader'.more = reader.more
    BY <2>0, ReaderScans, ZenonT(40)
  <2>3. reader'.pc \in {"files", "failed"}
    BY <2>2, ZenonT(40)
  <2>4. \A r \in reader.acc : SeenOK(r)
    BY <1>4, ZenonT(40) DEF SoundInv
  <2> DEFINE Cut(r) == [key |-> r.key, begin |-> r.begin, val |-> r.val]
  <2>5. \A x : x \in Shown <=> x \in reader.acc \/ \E r \in reader.more : x = Cut(r)
    BY Zenon DEF Shown
  <2>6. \A x : x \in Shown' <=> x \in reader'.acc \/ \E r \in reader'.more : x = Cut(r)
    BY Zenon DEF Shown
  <2> HIDE DEF Cut
  <2>7. ASSUME NEW t \in 1..Len(hist), NewestAt(t, reader.ts), hist[t].key \in Undisturbed,
               RowFor(t) \in Shown \/ Ahead(t), reader'.pc = "files"
        PROVE  RowFor(t) \in Shown' \/ \E d \in reader'.todo :
                 d.file \in DOMAIN ssts => \E r \in ssts[d.file] : r.key = hist[t].key /\ r.begin = t
    <3> DEFINE In(d) == \E r \in ssts[d.file] : r.key = hist[t].key /\ r.begin = t
    <3>1. ASSUME NEW d \in reader.todo, d # c, d.file \in DOMAIN ssts => In(d)
          PROVE  \E e \in reader'.todo : e.file \in DOMAIN ssts => In(e)
      BY <2>2, <3>1, ZenonT(40)
    <3>2. RowFor(t) \in Shown \/ (c.file \in DOMAIN ssts => In(c))
            \/ \E d \in reader'.todo : d.file \in DOMAIN ssts => In(d)
      BY <2>7, <3>1, Zenon DEF Ahead
    <3>3. ASSUME c.file \in DOMAIN ssts, In(c)
          PROVE  /\ ~Pruned(c.file)
                 /\ \E r \in FileRows(c.file) : Cut(r) = RowFor(t)
                 /\ \E r \in ShownRows(c.file) : r.key = hist[t].key /\ r.begin = t
      <4>1. PICK r \in ssts[c.file] : r.key = hist[t].key /\ r.begin = t
        BY <3>3, Zenon
      <4>2. /\ r \in FileRows(c.file) /\ r \in ShownRows(c.file) /\ ~Pruned(c.file)
            /\ [key |-> r.key, begin |-> r.begin, val |-> r.val] = RowFor(t)
        BY <2>0, <2>7, <3>3, <4>1, FileShows
      <4> QED
        BY <4>1, <4>2, ZenonT(40) DEF Cut
    <3> HIDE DEF In
    <3>4. CASE Pruned(c.file) /\ reader'.acc = reader.acc /\ reader'.more = reader.more
      <4>1. RowFor(t) \in Shown => RowFor(t) \in Shown'
        BY <2>5, <2>6, <3>4, ZenonT(40)
      <4>2. c.file \in DOMAIN ssts
        BY <3>4, Zenon DEF Pruned, StoreInv, ListedOK
      <4> QED
        BY <3>2, <3>3, <3>4, <4>1, <4>2, ZenonT(40) DEF In
    <3>5. CASE c.file \in DOMAIN ssts /\ reader'.acc = reader.acc
                 /\ reader'.more = reader.more \cup FileRows(c.file)
      <4>1. RowFor(t) \in Shown => RowFor(t) \in Shown'
        BY <2>5, <2>6, <3>5, ZenonT(40)
      <4>2. In(c) => RowFor(t) \in Shown'
        BY <2>6, <3>3, <3>5, ZenonT(40)
      <4> QED
        BY <3>2, <3>5, <4>1, <4>2, ZenonT(40) DEF In
    <3>6. CASE c.file \in DOMAIN ssts /\ reader'.more = reader.more
                 /\ reader'.acc = MergeNewest(reader.acc, ShownRows(c.file))
      <4>1. \A r \in ShownRows(c.file) : RowOK(r) /\ r.key \in reader.keys /\ r.begin <= reader.ts
        BY <3>6, FileRowsSound, ZenonT(40) DEF ShownRows
      <4>2. (\/ RowFor(t) \in reader.acc
             \/ \E r \in ShownRows(c.file) : r.key = hist[t].key /\ r.begin = t)
              => RowFor(t) \in MergeNewest(reader.acc, ShownRows(c.file))
        BY <2>0, <2>4, <2>7, <4>1, MergeSound
      <4>3. RowFor(t) \in Shown => RowFor(t) \in Shown'
        BY <2>5, <2>6, <3>6, <4>2, ZenonT(40)
      <4>4. In(c) => RowFor(t) \in Shown'
        BY <2>6, <3>3, <3>6, <4>2, ZenonT(40)
      <4> QED
        BY <3>2, <3>6, <4>3, <4>4, ZenonT(40) DEF In
    <3>7. reader'.pc # "failed"
      BY <2>7, Zenon
    <3> QED
      BY <2>2, <3>4, <3>5, <3>6, <3>7, ZenonT(40)
  <2>8. ASSUME NEW t \in 1..Len(hist'), NewestAt(t, reader.ts)', hist'[t].key \in Undisturbed'
        PROVE  Found(t)'
    <3>1. NewestAt(t, reader.ts) /\ t \in 1..Len(hist) /\ hist[t].key \in Undisturbed
      BY <1>1, <1>2, <2>1, <2>8, ZenonT(40) DEF NewestAt
    <3>2. Found(t) /\ RowFor(t)' = RowFor(t)
      BY <1>2, <1>4, <3>1, Zenon DEF FindInv, RowFor
    <3>3. reader'.pc # "load" /\ reader'.pc # "done"
      BY <2>3, Zenon
    <3>4. ASSUME reader'.pc = "files", reader'.op = "table" => ~reader'.gap
          PROVE  RowFor(t)' \in Shown' \/ Ahead(t)'
      <4>1. RowFor(t) \in Shown \/ Ahead(t)
        BY <1>1, <3>2, <3>4, ZenonT(40) DEF Found
      <4> QED
        BY <1>2, <2>7, <3>1, <3>2, <3>4, <4>1, ZenonT(40) DEF Ahead
    <3> QED
      BY <3>3, <3>4, Zenon DEF Found
  <2>9. reader'.pc \in {"load", "files", "done", "failed"} /\ reader'.pc # "done"
    BY <2>3, Zenon
  <2> QED
    BY <1>1, <1>2, <1>4, <2>8, <2>9, ZenonT(40) DEF FindInv
<1> QED
  BY <1>3, <1>4, ZenonT(40)

\* A key that a snapshot has a version of has a newest one.
LEMMA NewestExists ==
  ASSUME HistOK, NEW u \in 1..Len(hist), NEW ts, u <= ts
  PROVE  \E t \in 1..Len(hist) : NewestAt(t, ts) /\ hist[t].key = hist[u].key
<1> DEFINE S == {x \in 1..Len(hist) : x <= ts /\ hist[x].key = hist[u].key}
<1>1. S \subseteq Nat /\ S # {} /\ Len(hist) \in Nat /\ \A x \in S : x <= Len(hist)
  BY HistFacts, Zenon
<1>2. PICK t \in S : \A x \in S : x <= t
  <2> HIDE DEF S
  <2> QED
    BY <1>1, GreatestBelow, Zenon
<1> QED
  BY <1>2, Zenon DEF NewestAt

\* A scan that has read every file has the newest version of every key.
LEMMA FindMerge ==
  ASSUME StoreInv, PinInv, IsReader, SoundInv, FindInv, ReadMerge
  PROVE  FindInv'
<1>1. /\ reader'.op = reader.op /\ reader'.ts = reader.ts /\ reader'.keys = reader.keys
      /\ reader'.blind = reader.blind /\ reader'.hands = reader.hands /\ reader'.gap = reader.gap
      /\ reader'.more = reader.more /\ reader'.pc = "done"
      /\ reader.pc = "merge" \/ (reader.pc = "files" /\ reader.todo = {})
      /\ reader'.acc = {r \in reader.acc : reader.op = "all" \/ r.val = "put"}
  BY ReaderMerges, Zenon
<1>2. UNCHANGED <<hist, vset, ssts, hurt, dropped_at>>
  BY Zenon DEF ReadMerge, engine, history, storage
<1>3. CASE reader.op \notin Scans
  BY <1>1, <1>3, Zenon DEF FindInv
<1>4. CASE reader.op \in Scans
  <2>0. reader.pc = "files" /\ reader.todo = {}
    BY <1>1, <1>4, Zenon DEF FindInv
  <2>1. Undisturbed' = Undisturbed
    BY <1>1, <1>2, Zenon DEF Undisturbed
  <2>2. ASSUME NEW t \in 1..Len(hist), NewestAt(t, reader.ts), hist[t].key \in Undisturbed,
               reader.op = "table" => ~reader.gap
        PROVE  RowFor(t) \in Shown
    <3>1. ~Ahead(t)
      BY <2>0, Zenon DEF Ahead
    <3> QED
      BY <1>4, <2>0, <2>2, <3>1, Zenon DEF FindInv, Found
  <2>3. ASSUME NEW t \in 1..Len(hist'), NewestAt(t, reader.ts)', hist'[t].key \in Undisturbed'
        PROVE  Found(t)'
    <3>1. NewestAt(t, reader.ts) /\ t \in 1..Len(hist) /\ hist[t].key \in Undisturbed
      BY <1>1, <1>2, <2>1, <2>3, Zenon DEF NewestAt
    <3>2. RowFor(t)' = RowFor(t) /\ RowFor(t).val = hist[t].val
      BY <1>2, Zenon DEF RowFor
    <3>3. reader'.pc # "load" /\ reader'.pc # "files"
      BY <1>1, Zenon
    <3>4. ASSUME reader.op = "table" => ~reader.gap, reader.op = "all" \/ hist[t].val = "put"
          PROVE  RowFor(t)' \in Shown'
      <4>1. RowFor(t) \in Shown
        BY <2>2, <3>1, <3>4, Zenon
      <4>2. RowFor(t) \in reader.acc => RowFor(t) \in reader'.acc
        BY <1>1, <3>2, <3>4, Zenon
      <4> QED
        BY <1>1, <3>2, <4>1, <4>2, Zenon DEF Shown
    <3> QED
      BY <1>1, <1>2, <3>3, <3>4, Zenon DEF Found
  <2>4. ASSUME NEW r \in reader'.acc, reader.op # "table", r.key \in Undisturbed
        PROVE  NewestAt(r.begin, reader.ts)
    <3>1. r \in reader.acc /\ SeenOK(r)
      BY <1>1, <1>4, Zenon DEF SoundInv
    <3>2. r.begin \in 1..Len(hist) /\ r.begin <= reader.ts
          /\ hist[r.begin] = [key |-> r.key, val |-> r.val]
      BY <3>1, Zenon DEF SeenOK
    <3>3. hist[r.begin].key = r.key
      BY <3>2
    <3>4. PICK t \in 1..Len(hist) : NewestAt(t, reader.ts) /\ hist[t].key = r.key
      <4>1. HistOK
        BY Zenon DEF StoreInv
      <4>2. \E t \in 1..Len(hist) : NewestAt(t, reader.ts) /\ hist[t].key = hist[r.begin].key
        BY <3>2, <4>1, NewestExists, Zenon
      <4> QED
        BY <3>3, <4>2, Zenon
    <3>5. RowFor(t) \in Shown
      BY <2>2, <2>4, <3>4, Zenon
    <3>6. RowFor(t) \in reader.acc
      <4>1. reader.more = {}
        BY <1>4, <2>4, Zenon DEF SoundInv
      <4> QED
        BY <3>5, <4>1, Zenon DEF Shown
    <3>7. RowFor(t).key = hist[t].key /\ RowFor(t).begin = t
      BY Zenon DEF RowFor
    <3>8. RowFor(t) = r
      BY <1>4, <3>1, <3>4, <3>6, <3>7, Zenon DEF SoundInv
    <3> QED
      BY <3>4, <3>7, <3>8, Zenon
  <2>5. ASSUME NEW r \in reader'.acc
        PROVE  /\ reader'.op # "all" => r.val = "put"
               /\ reader'.op # "table" /\ r.key \in Undisturbed' => NewestAt(r.begin, reader.ts)'
    <3>1. NewestAt(r.begin, reader.ts) => NewestAt(r.begin, reader.ts)'
      BY <1>1, <1>2, Zenon DEF NewestAt
    <3> QED
      BY <1>1, <2>1, <2>4, <3>1, Zenon
  <2>6. reader'.pc \in {"load", "files", "done", "failed"}
    BY <1>1, Zenon
  <2> QED
    BY <1>1, <1>2, <1>4, <2>3, <2>5, <2>6, ZenonT(40) DEF FindInv
<1> QED
  BY <1>3, <1>4, Zenon

\* A scan keeps what it has found and what it has still to find.
LEMMA FindStep ==
  ASSUME StoreInv, BoundInv, PinInv, DropInv, KeptInv, IsReader, FileIdsInv, SoundInv, FindInv,
         [Next]_vars
  PROVE  FindInv'
<1>1. CASE ~Reading
  BY <1>1, FindEngine, Zenon
<1>2. CASE Begin \/ End \/ ReadReturn
  <2>1. reader'.op = "none"
    BY <1>2, ReaderFresh, Zenon DEF Fresh
  <2> QED
    BY <2>1, Zenon DEF FindInv, Scans
<1>3. ASSUME NEW k, GetMem(k) PROVE FindInv'
  <2>1. reader'.op = "get"
    BY <1>3, ReaderAsksGet, Zenon
  <2> QED
    BY <2>1, Zenon DEF FindInv, Scans
<1>4. CASE GetHot \/ GetLoad \/ GetFile
  <2>1. reader'.op = reader.op
    BY <1>4, ReaderGets, Zenon
  <2> QED
    BY <1>4, <2>1, GetsNoScan, Zenon DEF FindInv
<1>5. ASSUME NEW r \in {x \in Reads : x[1] # "get"}, ScanMem(r[1], r[2]) PROVE FindInv'
  BY <1>5, FindMem, Zenon
<1>6. CASE ScanLoad
  BY <1>6, FindLoad, Zenon
<1>7. CASE ScanFile
  BY <1>7, FindFile, Zenon
<1>8. CASE ReadMerge
  BY <1>8, FindMerge, Zenon
<1> QED
  BY <1>1, <1>2, <1>3, <1>4, <1>5, <1>6, <1>7, <1>8, ZenonT(40) DEF Reading

-----------------------------------------------------------------------------
(* Dropped tables. *)

\* Flushes, compactions, commits and drops leave what a read hides hidden.
LEMMA HideEngine ==
  ASSUME StoreInv, DropInv, IsReader, HideInv, [Next]_vars, ~Reading
  PROVE  HideInv'
<1>1. /\ reader'.pc = reader.pc /\ reader'.op = reader.op /\ reader'.keys = reader.keys
      /\ reader'.blind = reader.blind /\ reader'.acc = reader.acc /\ reader'.more = reader.more
      /\ reader'.gone \subseteq reader.gone
  BY EngineLeavesRead, Zenon
<1>2. ASSUME reader'.gone \subseteq dropped_tables' \ {dropping'},
             \A t \in reader'.gone : dropped_at'[t] = dropped_at[t]
      PROVE  HideInv'
  <2>1. reader'.op # "delete" => \A r \in reader'.acc :
          TableOf[r.key] \in reader'.gone => dropped_at'[TableOf[r.key]] <= r.begin
    BY <1>1, <1>2, Zenon DEF HideInv
  <2>2. /\ reader'.pc = "hot" => reader'.op = "get"
        /\ reader'.op = "get" /\ reader'.pc \in {"hot", "load", "files"} =>
             \A k \in reader'.keys : TableOf[k] \notin reader'.gone
        /\ reader'.op = "table" /\ ~reader'.blind =>
             \A k \in reader'.keys : TableOf[k] \notin reader'.gone
    BY <1>1, Zenon DEF HideInv
  <2>3. \A r \in reader'.more : r.key \in reader'.keys /\ reader'.op = "table" /\ ~reader'.blind
    BY <1>1, Zenon DEF HideInv
  <2> QED
    BY <1>2, <2>1, <2>2, <2>3, Zenon DEF HideInv
<1>3. reader.gone \subseteq dropped_tables \ {dropping}
  BY Zenon DEF HideInv
<1>4. ASSUME NEW t \in Droppable, DropMark(t) PROVE HideInv'
  <2>1. /\ dropping' = t /\ dropped_tables' = dropped_tables \cup {t}
        /\ dropped_at' = [dropped_at EXCEPT ![t] = commit_seq] /\ reader'.gone = reader.gone \ {t}
    BY <1>4, ReaderForgets, Zenon DEF DropMark
  <2>2. \A u \in reader'.gone : u \in Table /\ u # t
    BY <1>3, <2>1, LsmAssumption, Zenon DEF DropInv, Table
  <2>3. dropped_at \in [Table -> Nat]
    BY Zenon DEF DropInv
  <2>4. \A u \in reader'.gone : dropped_at'[u] = dropped_at[u]
    BY <2>1, <2>2, <2>3, Zenon
  <2> QED
    BY <1>2, <1>3, <2>1, <2>4, Zenon
<1>5. ASSUME NEW t \in Droppable, Undrop(t) PROVE HideInv'
  <2>1. /\ dropping' = dropping /\ dropped_tables' = dropped_tables \ {t}
        /\ dropped_at' = dropped_at /\ reader'.gone = reader.gone \ {t}
    BY <1>5, ReaderForgets, Zenon DEF Undrop, history
  <2> QED
    BY <1>2, <1>3, <2>1, Zenon
<1>6. CASE DropErase
  <2>1. dropping' = "none" /\ UNCHANGED <<dropped_tables, dropped_at>>
    BY <1>6, Zenon DEF DropErase, history
  <2>2. "none" \notin dropped_tables
    BY LsmAssumption, Zenon DEF DropInv
  <2> QED
    BY <1>1, <1>2, <1>3, <2>1, <2>2, ZenonT(40)
<1>7. CASE UNCHANGED <<dropping, dropped_tables, dropped_at>>
  BY <1>1, <1>2, <1>3, <1>7, Zenon
<1>8. \/ \E t \in Droppable : DropMark(t) \/ Undrop(t)
      \/ DropErase
      \/ UNCHANGED <<dropping, dropped_tables, dropped_at>>
  <2>1. CASE UNCHANGED vars
    BY <2>1, Zenon DEF vars, storage, history
  <2>2. CASE Next
    BY <2>2, ZenonT(40) DEF Next, Reading, Commit, FlushDrain, FlushClear, FlushWrite,
         CompactCall, CompactNothing, CompactRetire, CompactMerge, storage, history
  <2> QED
    BY <2>1, <2>2, Zenon
<1> QED
  BY <1>4, <1>5, <1>6, <1>7, <1>8, ZenonT(40)

\* A read takes nothing from before a drop out of the memtable.
LEMMA MemHides ==
  ASSUME StoreInv, PinInv, DropInv, NEW ks \in SUBSET Key, NEW r \in MemSeen(ks),
         TableOf[r.key] \in dropped_tables \ {dropping}
  PROVE  dropped_at[TableOf[r.key]] <= r.begin
<1>1. r.key \in Key /\ r.begin \in DOMAIN mem[r.key]
  BY MemSeenSound, Zenon
<1> QED
  BY <1>1, Zenon DEF DropInv

\* What a lookup in a file yields carries the key that was asked for.
LEMMA GetKeys ==
  ASSUME NEW k, NEW S, NEW r \in ForKey(k, S)
  PROVE  r.key = k
BY DEF ForKey

\* A point read takes nothing of a dropped table from a file: it stopped before.
LEMMA HideGets ==
  ASSUME IsReader, HideInv, GetHot \/ GetLoad \/ GetFile
  PROVE  HideInv'
<1>1. /\ reader'.op = reader.op /\ reader'.keys = reader.keys /\ reader'.more = reader.more
      /\ reader'.blind = reader.blind /\ reader'.gone = reader.gone
      /\ reader.pc \in {"hot", "load", "files"}
  BY ReaderGets, Zenon
<1>2. UNCHANGED <<dropped_tables, dropping, dropped_at>>
  BY Zenon DEF GetHot, GetLoad, GetFile, engine, history, storage
<1>3. reader.op = "get" /\ reader'.pc # "hot"
  <2>1. reader'.pc \in {"merge", "load", "files", "failed"}
    BY ReaderGets, Zenon
  <2>2. reader.op = "get"
    BY Zenon DEF GetHot, GetLoad, GetFile, HideInv
  <2> QED
    BY <2>1, <2>2, Zenon
<1>4. ASSUME \A r \in reader'.acc : r \in reader.acc \/ r.key \in reader.keys
      PROVE  HideInv'
  <2>1. \A k \in reader.keys : TableOf[k] \notin reader.gone
    BY <1>1, <1>3, Zenon DEF HideInv
  <2>2. \A r \in reader'.acc :
          TableOf[r.key] \in reader.gone => dropped_at[TableOf[r.key]] <= r.begin
    <3>1. reader.op # "delete"
      BY <1>3, Zenon
    <3> QED
      BY <1>4, <2>1, <3>1, Zenon DEF HideInv
  <2> QED
    BY <1>1, <1>2, <1>3, <2>1, <2>2, Zenon DEF HideInv
<1>5. CASE GetHot
  <2> DEFINE cached(k) == {f \in {hot[x] : x \in DOMAIN hot \cap {k}} : f \in indexed}
             hits(k) == ForKey(k, UNION {IndexGet(ssts[f], k) : f \in cached(k)})
             seen(k) == {r \in hits(k) : Visible(r, reader.ts)}
             pc(k) == IF seen(k) # {} THEN "merge" ELSE "load"
             fit(k) == k \notin DOMAIN hot
  <2>1. PICK k \in reader.keys :
          reader' = [reader EXCEPT !.pc = pc(k), !.acc = MergeNewest({}, seen(k)), !.fit = fit(k)]
    BY <1>5, Zenon DEF GetHot
  <2>2. \A r \in seen(k) : r.key = k
    BY GetKeys, Zenon
  <2> HIDE DEF pc, fit, seen
  <2>3. reader'.acc = MergeNewest({}, seen(k))
    BY <2>1, Zenon DEF IsReader
  <2>4. ASSUME NEW r \in reader'.acc PROVE r.key \in reader.keys
    <3>1. r \in MergeNewest({}, seen(k))
      BY <2>3, Zenon
    <3>2. \E s \in seen(k) : r.key = s.key
      BY <3>1, MergeRows, ZenonT(40)
    <3> QED
      BY <2>2, <3>2, Zenon
  <2> QED
    BY <1>4, <2>4, Zenon
<1>6. CASE GetLoad
  <2> DEFINE fit(k) ==
        /\ reader.fit
        /\ \A f \in VsCandidates(vset, k) : CountIn(ssts[f], {k}) <= 1
        /\ Cardinality({f \in VsCandidates(vset, k) : VsLevelFor(vset, f) > 0}) <= 1
      todo(k) == {[file |-> f, level |-> VsLevelFor(vset, f), min |-> vset.meta[f].min] :
                    f \in VsCandidates(vset, k)}
  <2>1. PICK k \in reader.keys :
          reader' = [reader EXCEPT !.pc = "files", !.todo = todo(k), !.fit = fit(k)]
    BY <1>6, Zenon DEF GetLoad
  <2> HIDE DEF fit, todo
  <2>2. reader'.acc = reader.acc
    BY <2>1, Zenon DEF IsReader
  <2> QED
    BY <1>4, <2>2, Zenon
<1>7. CASE GetFile
  <2> DEFINE leveled(k, c) == reader.leveled \/ (Hit(k, c.file) # {} /\ c.level > 0)
  <2>1. PICK k \in reader.keys, c \in reader.todo :
          \/ reader' = Passed(c)
          \/ reader' = [Passed(c) EXCEPT !.pc = "failed"]
          \/ reader' = [Passed(c) EXCEPT !.acc = MergeNewest(reader.acc, NewerHit(k, c.file)),
                                         !.leveled = leveled(k, c)]
    BY <1>7, Zenon DEF GetFile
  <2>2. \A r \in NewerHit(k, c.file) : r.key = k
    BY GetKeys, Zenon DEF NewerHit, Hit
  <2> HIDE DEF leveled
  <2>3. reader'.acc = reader.acc \/ reader'.acc = MergeNewest(reader.acc, NewerHit(k, c.file))
    <3> DEFINE a == MergeNewest(reader.acc, NewerHit(k, c.file))
               b == leveled(k, c)
    <3>1. Passed(c) = [reader EXCEPT !.todo = reader.todo \ {c}]
      BY Zenon DEF Passed
    <3>2. CASE reader' = Passed(c)
      BY <3>1, <3>2, Zenon DEF IsReader
    <3>3. CASE reader' = [Passed(c) EXCEPT !.pc = "failed"]
      BY <3>1, <3>3, Zenon DEF IsReader
    <3>4. CASE reader' = [Passed(c) EXCEPT !.acc = a, !.leveled = b]
      <4>1. reader' = [reader EXCEPT !.todo = reader.todo \ {c}, !.acc = a, !.leveled = b]
        BY <3>1, <3>4, Zenon
      <4> HIDE DEF a, b
      <4>2. reader'.acc = a
        BY <4>1, Zenon DEF IsReader
      <4> QED
        BY <4>2, Zenon DEF a
    <3> QED
      BY <2>1, <3>2, <3>3, <3>4, Zenon
  <2>4. ASSUME NEW r \in reader'.acc PROVE r \in reader.acc \/ r.key \in reader.keys
    <3>1. CASE r \in MergeNewest(reader.acc, NewerHit(k, c.file))
      <4>1. r \in reader.acc \/ \E s \in NewerHit(k, c.file) : r.key = s.key
        BY <3>1, MergeRows, ZenonT(40)
      <4> QED
        BY <2>2, <4>1, Zenon
    <3> QED
      BY <2>3, <3>1, Zenon
  <2> QED
    BY <1>4, <2>4, Zenon
<1> QED
  BY <1>5, <1>6, <1>7, Zenon

\* A scan takes nothing of a dropped table from a file.
LEMMA HideFile ==
  ASSUME StoreInv, IsReader, SoundInv, HideInv, ScanFile
  PROVE  HideInv'
<1>1. /\ reader'.op = reader.op /\ reader'.keys = reader.keys
      /\ reader'.blind = reader.blind /\ reader'.gone = reader.gone
      /\ reader.op # "get" /\ reader.pc = "files"
  BY ReaderScans, Zenon DEF SameScan
<1>2. UNCHANGED <<dropped_tables, dropping, dropped_at>>
  BY Zenon DEF ScanFile, engine, history, storage
<1>3. PICK c \in reader.todo :
        /\ reader'.pc \in {"files", "failed"}
        /\ \/ reader'.more = reader.more
           \/ reader.op = "table" /\ reader'.more = reader.more \cup FileRows(c.file)
        /\ \/ reader.op = "delete" \/ reader'.acc = reader.acc
           \/ reader'.acc = MergeNewest(reader.acc, ShownRows(c.file))
  BY ReaderScans, Zenon
<1>4. reader.op = "table" => ~reader.blind
  BY <1>1, Zenon DEF SoundInv, Scans
<1>5. \A r \in reader'.more : r.key \in reader'.keys /\ reader'.op = "table" /\ ~reader'.blind
  BY <1>1, <1>3, <1>4, Zenon DEF HideInv, FileRows
<1>6. ASSUME reader.op # "delete", NEW r \in reader'.acc, TableOf[r.key] \in reader.gone
      PROVE  dropped_at[TableOf[r.key]] <= r.begin
  <2>1. CASE r \in reader.acc
    BY <1>6, <2>1, Zenon DEF HideInv
  <2>2. CASE r \in MergeNewest(reader.acc, ShownRows(c.file))
    <3>1. r \in reader.acc \/ \E s \in ShownRows(c.file) : r.key = s.key
      BY <2>2, MergeRows, ZenonT(40)
    <3>2. \A s \in ShownRows(c.file) : TableOf[s.key] \notin reader.gone
      BY Zenon DEF ShownRows, HideInv
    <3> QED
      BY <1>6, <2>1, <3>1, <3>2, Zenon
  <2> QED
    BY <1>3, <1>6, <2>1, <2>2, Zenon
<1>7. reader'.pc # "hot"
  BY <1>3, Zenon
<1> QED
  BY <1>1, <1>2, <1>5, <1>6, <1>7, Zenon DEF HideInv

\* No step shows a read a version from before the drop of its table.
LEMMA HideStep ==
  ASSUME StoreInv, PinInv, DropInv, IsReader, SoundInv, FindInv, HideInv, [Next]_vars
  PROVE  HideInv'
<1>1. CASE ~Reading
  BY <1>1, HideEngine, Zenon
<1>2. CASE Begin \/ End \/ ReadReturn
  <2>1. /\ reader'.op = "none" /\ reader'.acc = {} /\ reader'.more = {} /\ reader'.gone = {}
        /\ reader'.pc \in {"idle", "begun"}
    BY <1>2, ReaderFresh, Zenon DEF Fresh
  <2>2. reader'.pc # "hot" /\ reader'.op # "get" /\ reader'.op # "table"
    BY <2>1, Zenon
  <2> QED
    BY <2>1, <2>2, Zenon DEF HideInv
<1>3. CASE GetHot \/ GetLoad \/ GetFile
  BY <1>3, HideGets, Zenon
<1>4. CASE ScanFile
  BY <1>4, HideFile, Zenon
<1>5. CASE ScanLoad \/ ReadMerge
  <2>1. /\ reader'.op = reader.op /\ reader'.keys = reader.keys /\ reader'.more = reader.more
        /\ reader'.blind = reader.blind /\ reader'.gone = reader.gone
        /\ reader'.acc \subseteq reader.acc
        /\ reader'.pc # "hot"
    BY <1>5, ReaderLists, ReaderMerges, Zenon
  <2>2. UNCHANGED <<dropped_tables, dropping, dropped_at>>
    BY <1>5, Zenon DEF ScanLoad, ReadMerge, engine, history, storage
  <2>3. reader'.op = "get" => reader'.pc \notin {"hot", "load", "files"}
    BY <1>5, ReaderLists, ReaderMerges, Zenon DEF IsReader
  <2>4. reader'.op # "delete" => \A r \in reader'.acc :
          TableOf[r.key] \in reader'.gone => dropped_at'[TableOf[r.key]] <= r.begin
    BY <2>1, <2>2, Zenon DEF HideInv
  <2> QED
    BY <2>1, <2>2, <2>3, <2>4, Zenon DEF HideInv
<1>6. ASSUME NEW k \in Key, GetMem(k) PROVE HideInv'
  <2>1. /\ reader'.op = "get" /\ reader'.keys = {k} /\ reader'.more = reader.more
        /\ reader'.gone = dropped_tables \ {dropping} /\ reader.pc = "begun"
        /\ reader'.pc \in {"merge", "hot"}
        /\ IF TableOf[k] \in dropped_tables THEN reader'.acc = {} /\ reader'.pc = "merge"
           ELSE reader'.acc = MemSeen({k})
    BY <1>6, ReaderAsksGet, Zenon
  <2>2. UNCHANGED <<dropped_tables, dropping, dropped_at>>
    BY <1>6, Zenon DEF GetMem, engine, history, storage
  <2>3. reader'.more = {} /\ reader'.op # "table"
    BY <2>1, BetweenReads, Zenon
  <2>4. {k} \in SUBSET Key
    BY Zenon
  <2>5. \A r \in reader'.acc :
          TableOf[r.key] \in reader'.gone => dropped_at'[TableOf[r.key]] <= r.begin
    BY <2>1, <2>2, <2>4, MemHides, Zenon
  <2>6. TableOf[k] \in reader'.gone => reader'.pc = "merge"
    BY <2>1, Zenon
  <2>7. reader'.pc = "merge" => reader'.pc \notin {"hot", "load", "files"}
    BY Zenon
  <2> QED
    BY <2>1, <2>2, <2>3, <2>5, <2>6, <2>7, Zenon DEF HideInv
<1>7. ASSUME NEW op, NEW ks \in SUBSET Key, ScanMem(op, ks), op # "get" PROVE HideInv'
  <2>1. /\ reader'.op = op /\ reader'.keys = ks /\ reader'.more = reader.more
        /\ reader'.gone = dropped_tables \ {dropping} /\ reader.pc = "begun"
        /\ reader'.pc \in {"merge", "load"} /\ reader'.acc = MemSeen(ks)
        /\ reader'.blind <=> op = "table" /\ \E k \in ks : TableOf[k] \in dropped_tables
    BY <1>7, ReaderAsksScan, Zenon
  <2>2. UNCHANGED <<dropped_tables, dropping, dropped_at>>
    BY <1>7, Zenon DEF ScanMem, engine, history, storage
  <2>3. reader'.more = {} /\ reader'.pc # "hot"
    BY <2>1, BetweenReads, Zenon
  <2>4. \A r \in reader'.acc :
          TableOf[r.key] \in reader'.gone => dropped_at'[TableOf[r.key]] <= r.begin
    BY <2>1, <2>2, MemHides, Zenon
  <2>5. reader'.op = "table" /\ ~reader'.blind =>
          \A k \in reader'.keys : TableOf[k] \notin reader'.gone
    BY <2>1, Zenon
  <2> QED
    BY <1>7, <2>1, <2>2, <2>3, <2>4, <2>5, Zenon DEF HideInv
<1>8. /\ \A r \in {x \in Reads : x[1] = "get"} : r[2] \in Key
      /\ \A r \in {x \in Reads : x[1] # "get"} : r[1] # "get" /\ r[2] \in SUBSET Key
  BY LsmAssumption, Zenon
<1> QED
  BY <1>1, <1>2, <1>3, <1>4, <1>5, <1>6, <1>7, <1>8, ZenonT(40) DEF Reading

-----------------------------------------------------------------------------
(* The invariant holds. *)

\* There is no read at first.
LEMMA InitReads ==
  ASSUME Init
  PROVE  BoundInv /\ SoundInv /\ FileIdsInv /\ FindInv /\ HideInv
<1>1. reader = NoRead
  BY Zenon DEF Init
<1>2. /\ reader.pc = "idle" /\ reader.op = "none" /\ reader.ts = 0 /\ reader.todo = {}
      /\ reader.acc = {} /\ reader.more = {} /\ reader.gone = {}
  BY <1>1, Zenon DEF NoRead
<1>3. reader.op \notin Scans /\ reader.pc # "hot" /\ reader.op # "get" /\ reader.op # "table"
  BY <1>2, Zenon DEF Scans
<1>4. BoundInv
  <2>1. hist = << >>
    BY Zenon DEF Init
  <2>2. 0 \in Nat /\ \A t \in 1..Len(hist) : hist[t].key <= 0
    BY <2>1
  <2> QED
    BY <2>2, Zenon DEF BoundInv
<1> QED
  BY <1>2, <1>3, <1>4, Zenon DEF SoundInv, FileIdsInv, FindInv, HideInv

\* The invariant of the read path holds in every state: a scan has met the
\* newest version of every undisturbed key, or has a file to read that holds
\* it; and what a read has of a dropped table is newer than the drop.
THEOREM LsmInvariant == Spec => []LsmInv
<1>1. Init => LsmInv
  BY InitStore, InitEngine, InitReads, Zenon DEF LsmInv, EngineInv
<1>2. LsmInv /\ EngineInv' /\ [Next]_vars => LsmInv'
  <2> SUFFICES ASSUME LsmInv, EngineInv', [Next]_vars PROVE LsmInv'
    BY Zenon
  <2>1. /\ StoreInv /\ BoundInv /\ HotOK /\ PinInv /\ KeptInv /\ DropInv
        /\ IsReader /\ SoundInv /\ FileIdsInv /\ FindInv /\ HideInv
    BY Zenon DEF LsmInv, EngineInv
  <2>2. BoundInv' /\ FileIdsInv'
    BY <2>1, BoundStep, FileIdsStep, Zenon
  <2>3. SoundInv'
    BY <2>1, SoundStep, Zenon
  <2>4. FindInv'
    BY <2>1, FindStep, Zenon
  <2>5. HideInv'
    BY <2>1, HideStep, Zenon
  <2> QED
    BY <2>2, <2>3, <2>4, <2>5, Zenon DEF LsmInv
<1> QED
  BY <1>1, <1>2, EngineInvariant, PTL DEF Spec

\* scan_table_arrow misses no row of an undisturbed key when no level between
\* two others is empty.
THEOREM TableScansComplete == Spec => []TableScanComplete
<1>1. LsmInv => TableScanComplete
  <2> SUFFICES ASSUME LsmInv, reader.pc = "done", reader.op = "table", ~reader.gap,
                      NEW x \in Live(Expected(Undisturbed, reader.ts))
               PROVE  x \in Shown
    BY Zenon DEF TableScanComplete
  <2>1. PICK t \in 1..Len(hist) : /\ NewestAt(t, reader.ts) /\ hist[t].key \in Undisturbed
                                  /\ x = RowFor(t)
    BY Zenon DEF Live, Expected, RowFor
  <2>2. hist[t].val = "put"
    <3>1. x.val = "put" /\ RowFor(t).val = hist[t].val
      BY Zenon DEF Live, RowFor
    <3> QED
      BY <2>1, <3>1, Zenon
  <2>3. reader.op \in Scans
    BY Zenon DEF Scans
  <2>4. Found(t)
    BY <2>1, <2>3, Zenon DEF LsmInv, FindInv
  <2> QED
    BY <2>1, <2>2, <2>4, Zenon DEF Found
<1> QED
  BY <1>1, LsmInvariant, PTL

\* scan_range and scan_all return exactly the newest version that their
\* snapshot has of every undisturbed key, whatever flushes and compactions ran
\* beside them.
THEOREM ScansExact == Spec => []ScanExact
<1>1. LsmInv => ScanExact
  <2> SUFFICES ASSUME LsmInv, reader.pc = "done", reader.op \in {"range", "all"}
               PROVE  OnUndisturbed(reader.acc) =
                        IF reader.op = "all" THEN Expected(Undisturbed, reader.ts)
                        ELSE Live(Expected(Undisturbed, reader.ts))
    BY Zenon DEF ScanExact
  <2> DEFINE E == Expected(Undisturbed, reader.ts)
  <2>1. reader.op \in Scans /\ reader.op # "table"
    BY Zenon DEF Scans
  <2>2. SoundInv /\ FindInv
    BY Zenon DEF LsmInv
  <2>3. \A x : x \in E <=> \E t \in 1..Len(hist) :
          NewestAt(t, reader.ts) /\ hist[t].key \in Undisturbed /\ x = RowFor(t)
    BY Zenon DEF Expected, RowFor
  <2> HIDE DEF E
  <2>4. reader.more = {}
    BY <2>1, <2>2, Zenon DEF SoundInv
  <2>5. Shown = reader.acc
    BY <2>4, Zenon DEF Shown
  <2>6. ASSUME NEW r \in reader.acc, r.key \in Undisturbed
        PROVE  r \in E /\ (reader.op # "all" => r.val = "put")
    <3>1. NewestAt(r.begin, reader.ts) /\ (reader.op # "all" => r.val = "put")
      BY <2>1, <2>2, <2>6, Zenon DEF FindInv
    <3>2. SeenOK(r)
      BY <2>1, <2>2, Zenon DEF SoundInv
    <3>3. /\ r = [key |-> r.key, begin |-> r.begin, val |-> r.val] /\ r.begin \in 1..Len(hist)
          /\ hist[r.begin] = [key |-> r.key, val |-> r.val]
      BY <3>2, Zenon DEF SeenOK
    <3>4. hist[r.begin].key = r.key /\ hist[r.begin].val = r.val
      BY <3>3
    <3>5. r = RowFor(r.begin)
      BY <3>3, <3>4, Zenon DEF RowFor
    <3> QED
      BY <2>3, <2>6, <3>1, <3>3, <3>4, <3>5, ZenonT(40)
  <2>7. ASSUME NEW x \in E, reader.op = "all" \/ x.val = "put"
        PROVE  x \in reader.acc /\ x.key \in Undisturbed
    <3>1. PICK t \in 1..Len(hist) :
            NewestAt(t, reader.ts) /\ hist[t].key \in Undisturbed /\ x = RowFor(t)
      BY <2>3, Zenon
    <3>2. RowFor(t).key = hist[t].key /\ RowFor(t).val = hist[t].val
      BY Zenon DEF RowFor
    <3>3. Found(t)
      BY <2>1, <2>2, <3>1, Zenon DEF FindInv
    <3>4. reader.op = "all" \/ hist[t].val = "put"
      BY <2>7, <3>1, <3>2, Zenon
    <3>5. RowFor(t) \in reader.acc
      BY <2>1, <2>5, <3>3, <3>4, ZenonT(40) DEF Found
    <3> QED
      BY <3>1, <3>2, <3>5, Zenon
  <2> QED
    BY <2>6, <2>7, Zenon DEF OnUndisturbed, Live, E
<1> QED
  BY <1>1, LsmInvariant, PTL

\* After drop_table_prefix has returned no get or scan that begins shows a
\* version from before the drop.
THEOREM DropsHide == Spec => []DropHides
<1>1. LsmInv => DropHides
  <2> SUFFICES ASSUME LsmInv, reader.op # "delete", NEW x \in Shown,
                      TableOf[x.key] \in reader.gone
               PROVE  x.begin >= dropped_at[TableOf[x.key]]
    BY Zenon DEF DropHides
  <2>1. HideInv
    BY Zenon DEF LsmInv
  <2>2. x \in reader.acc
    <3>1. ASSUME NEW r \in reader.more, x = [key |-> r.key, begin |-> r.begin, val |-> r.val]
          PROVE  FALSE
      <4>1. x.key = r.key
        BY <3>1, Zenon
      <4> QED
        BY <2>1, <4>1, Zenon DEF HideInv
    <3> QED
      BY <3>1, Zenon DEF Shown
  <2>3. dropped_at[TableOf[x.key]] <= x.begin
    BY <2>1, <2>2, Zenon DEF HideInv
  <2> QED
    BY <2>3, Zenon
<1> QED
  BY <1>1, LsmInvariant, PTL

=============================================================================
