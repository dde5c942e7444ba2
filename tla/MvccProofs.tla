----------------------------- MODULE MvccProofs -----------------------------
(***************************************************************************)
(* Mvcc, for any keys, readers, batches and number of commits: the pins    *)
(* are exact, a protected snapshot reads the newest version applied up to  *)
(* it, and the memtable implements the map of MvccMap.                     *)
(***************************************************************************)
EXTENDS Mvcc, FiniteSetTheorems, TLAPS

-----------------------------------------------------------------------------
(* Version chains: what insert, get and garbage_collect do to one. *)

\* The invariant of a chain: a version ends where the next one begins, and the
\* newest is open.
IsChain(c) ==
  /\ DOMAIN c \subseteq Nat \ {0}
  /\ c = [t \in DOMAIN c |-> c[t]]
  /\ \A t \in DOMAIN c :
       /\ c[t] = [val |-> c[t].val, end |-> c[t].end]
       /\ c[t].end \in Nat /\ t < c[t].end
       /\ \A u \in DOMAIN c : t < u => c[t].end <= u
       /\ c[t].end \in DOMAIN c \/ (c[t].end = OpenEnded /\ Newer(c, t) = {})

\* b is the newest version of c that began at or before s.
NewestAt(c, s, b) ==
  /\ b \in DOMAIN c /\ b <= s
  /\ \A u \in DOMAIN c : u <= s => u <= b

-----------------------------------------------------------------------------

\* A set of naturals up to n that is not empty has a greatest element.
LEMMA GreatestBelow ==
  ASSUME NEW S \in SUBSET Nat, S # {}, NEW n \in Nat, \A x \in S : x <= n
  PROVE  \E x \in S : \A y \in S : y <= x
<1> DEFINE T == {n - x : x \in S}
<1>1. T \subseteq Nat /\ T # {}
  <2>1. \A x \in S : x \in Nat /\ x <= n
    BY Zenon
  <2>2. \A x \in S : n - x \in Nat
    BY <2>1
  <2> QED
    BY <2>2, Zenon
<1>2. PICK m \in T : \A y \in T : ~(<<y, m>> \in OpToRel(<, Nat))
  <2> HIDE DEF T
  <2> QED
    BY <1>1, NatLessThanWellFounded, WFMin, Zenon
<1>3. \A y \in T : ~(y < m)
  BY <1>1, <1>2, Zenon DEF OpToRel
<1>4. PICK x \in S : m = n - x
  BY Zenon DEF T
<1>5. \A y \in S : y <= x
  <2> TAKE y \in S
  <2>1. n - y \in T
    BY Zenon DEF T
  <2>2. ~(n - y < m)
    BY <2>1, <1>3, Zenon
  <2> QED
    BY <1>4, <2>2
<1> QED
  BY <1>5, Zenon

\* A chain with a version from before s has a newest such version, and that is
\* the one that is visible at s.
LEMMA NewestExists ==
  ASSUME NEW c, IsChain(c), NEW s \in Nat, s < OpenEnded,
         NEW a \in DOMAIN c, a <= s
  PROVE  \E b \in DOMAIN c : NewestAt(c, s, b) /\ s < c[b].end
<1> DEFINE S == {x \in DOMAIN c : x <= s}
<1>1. S \in SUBSET Nat /\ S # {} /\ \A x \in S : x <= s
  BY Zenon DEF IsChain
<1>2. PICK b \in S : \A y \in S : y <= b
  <2> HIDE DEF S
  <2> QED
    BY <1>1, GreatestBelow, Zenon
<1>3. NewestAt(c, s, b)
  BY <1>2, Zenon DEF NewestAt
<1>4. s < c[b].end
  <2>1. c[b].end \in Nat /\ b \in Nat /\ b < c[b].end
    BY <1>2, Zenon DEF IsChain
  <2>2. CASE c[b].end \in DOMAIN c
    BY <1>2, <2>1, <2>2
  <2>3. CASE c[b].end = OpenEnded
    BY <2>3, Zenon
  <2> QED
    BY <1>2, <2>2, <2>3, Zenon DEF IsChain
<1> QED
  BY <1>2, <1>3, <1>4, Zenon

\* get returns the newest version that began at or before the snapshot.
LEMMA GetIsNewest ==
  ASSUME NEW c, IsChain(c), NEW s \in Nat, s < OpenEnded
  PROVE  \/ /\ \A t \in DOMAIN c : ~(t <= s)
            /\ ~ChainGet(c, s).found
         \/ /\ ChainGet(c, s).found
            /\ NewestAt(c, s, ChainGet(c, s).begin)
            /\ ChainGet(c, s).val = c[ChainGet(c, s).begin].val
<1> DEFINE seen == {b \in DOMAIN c : Sees(c, b, s)}
           best == CHOOSE b \in seen : \A u \in seen : u <= b
<1>1. CASE \A t \in DOMAIN c : ~(t <= s)
  <2>1. seen = {}
    BY <1>1, Zenon DEF Sees
  <2> QED
    BY <1>1, <2>1, Zenon DEF ChainGet, NoVersion
<1>2. CASE \E t \in DOMAIN c : t <= s
  <2>1. PICK b \in DOMAIN c : NewestAt(c, s, b) /\ s < c[b].end
    BY <1>2, NewestExists, Zenon
  <2>2. b \in seen
    BY <2>1, Zenon DEF Sees, NewestAt
  <2>3. \A u \in seen : u <= b
    BY <2>1, Zenon DEF Sees, NewestAt
  <2>4. best \in seen /\ \A u \in seen : u <= best
    <3> HIDE DEF seen
    <3> QED
      BY <2>2, <2>3, Zenon
  <2>5. best = b
    <3>1. best <= b /\ b <= best /\ b \in Nat /\ best \in Nat
      BY <2>2, <2>3, <2>4, Zenon DEF IsChain
    <3> QED
      BY <3>1
  <2>6. ChainGet(c, s) = [found |-> TRUE, begin |-> best, val |-> c[best].val]
    BY <2>2, Zenon DEF ChainGet
  <2>7. /\ ChainGet(c, s).found
        /\ ChainGet(c, s).begin = b
        /\ ChainGet(c, s).val = c[b].val
    <3> HIDE DEF best
    <3> QED
      BY <2>5, <2>6
  <2> QED
    BY <2>1, <2>7, Zenon
<1> QED
  BY <1>1, <1>2, Zenon

\* The chain d is c with a version b, of value v.
WithVersion(d, c, b, v) ==
  /\ IsChain(d)
  /\ DOMAIN d = DOMAIN c \cup {b}
  /\ d[b].val = v
  /\ \A t \in DOMAIN c \ {b} : d[t].val = c[t].val

\* insert, at or after the newest version: the chain grows by that version, and
\* the values of the others stay.
LEMMA InsertKeepsChain ==
  ASSUME NEW c, IsChain(c), NEW b \in Nat \ {0}, b < OpenEnded,
         \A t \in DOMAIN c : t <= b, NEW v
  PROVE  WithVersion(ChainInsert(c, b, v), c, b, v)
<1> DEFINE d == ChainInsert(c, b, v)
<1>0. OpenEnded \in Nat
  BY OpenEndedAssumption, Zenon
<1>1. DOMAIN d = DOMAIN c \cup {b} /\ d = [t \in DOMAIN d |-> d[t]]
  BY Zenon DEF ChainInsert
<1>2. Newer(c, b) = {} /\ DOMAIN c \subseteq Nat \ {0}
  BY DEF IsChain, Newer
<1>3. EndAt(c, b) = OpenEnded
  <2>1. CASE b \in DOMAIN c
    BY <1>2, <2>1, Zenon DEF IsChain, EndAt, Newer
  <2>2. CASE b \notin DOMAIN c
    BY <1>2, <2>2, Zenon DEF EndAt
  <2> QED
    BY <2>1, <2>2, Zenon
<1>4. d[b] = [val |-> v, end |-> OpenEnded]
  BY <1>3, Zenon DEF ChainInsert
<1>5. ASSUME NEW t \in DOMAIN c \ {b}
      PROVE  /\ t \in Nat /\ t < b /\ t # 0
             /\ d[t] = [val |-> c[t].val, end |-> d[t].end]
             /\ d[t].end \in Nat /\ t < d[t].end /\ d[t].end <= b
             /\ \A u \in DOMAIN c : t < u => d[t].end <= u
             /\ d[t].end \in DOMAIN c \cup {b}
  <2>1. t \in Nat /\ t < b /\ t # 0
    BY <1>2
  <2>2. /\ c[t] = [val |-> c[t].val, end |-> c[t].end]
        /\ c[t].end \in Nat /\ t < c[t].end
        /\ \A u \in DOMAIN c : t < u => c[t].end <= u
        /\ c[t].end \in DOMAIN c \/ (c[t].end = OpenEnded /\ Newer(c, t) = {})
    BY Zenon DEF IsChain
  <2>3. CASE b \notin DOMAIN c /\ Adjacent(c, t, b) /\ c[t].end > b
    <3>1. d[t] = [c[t] EXCEPT !.end = b]
      BY <2>1, <2>3, Zenon DEF ChainInsert
    <3>2. d[t] = [val |-> c[t].val, end |-> b]
      BY <2>2, <3>1, Zenon
    <3>3. \A u \in DOMAIN c : ~(t < u)
      BY <1>2, <2>1, <2>3 DEF Adjacent
    <3> QED
      BY <2>1, <3>2, <3>3
  <2>4. CASE ~(b \notin DOMAIN c /\ Adjacent(c, t, b) /\ c[t].end > b)
    <3>1. d[t] = c[t]
      BY <2>1, <2>4, Zenon DEF ChainInsert
    <3>2. c[t].end <= b /\ c[t].end \in DOMAIN c
      <4>1. CASE b \in DOMAIN c
        BY <1>2, <2>1, <2>2, <4>1, Zenon DEF Newer
      <4>2. CASE ~Adjacent(c, t, b)
        <5>1. PICK u \in DOMAIN c : t < u /\ u < b
          BY <2>1, <4>2, Zenon DEF Adjacent
        <5> QED
          BY <1>2, <2>1, <2>2, <5>1, Zenon DEF Newer
      <4>3. CASE ~(c[t].end > b)
        BY <1>0, <2>1, <2>2, <4>3, Zenon
      <4> QED
        BY <2>4, <4>1, <4>2, <4>3, Zenon
    <3> QED
      BY <2>1, <2>2, <3>1, <3>2, Zenon
  <2> QED
    BY <2>3, <2>4, Zenon
<1>6. IsChain(d)
  <2>1. DOMAIN d \subseteq Nat \ {0}
    BY <1>1, <1>2, Zenon
  <2>2. ASSUME NEW t \in DOMAIN d
        PROVE  /\ d[t] = [val |-> d[t].val, end |-> d[t].end]
               /\ d[t].end \in Nat /\ t < d[t].end
               /\ \A u \in DOMAIN d : t < u => d[t].end <= u
               /\ d[t].end \in DOMAIN d \/ (d[t].end = OpenEnded /\ Newer(d, t) = {})
    <3> HIDE DEF d
    <3>1. CASE t = b
      <4>1. \A u \in DOMAIN d : ~(b < u)
        BY <1>1, <1>2
      <4> QED
        BY <1>0, <1>4, <3>1, <4>1 DEF Newer
    <3>2. CASE t \in DOMAIN c \ {b}
      <4>1. /\ d[t] = [val |-> c[t].val, end |-> d[t].end]
            /\ d[t].end \in Nat /\ t < d[t].end /\ d[t].end <= b
            /\ \A u \in DOMAIN c : t < u => d[t].end <= u
            /\ d[t].end \in DOMAIN c \cup {b}
        BY <1>5, <3>2, Zenon
      <4>2. d[t] = [val |-> d[t].val, end |-> d[t].end]
        BY <4>1, Zenon
      <4>3. \A u \in DOMAIN d : t < u => d[t].end <= u
        BY <1>1, <4>1, Zenon
      <4> QED
        BY <1>1, <4>1, <4>2, <4>3, Zenon
    <3> QED
      BY <1>1, <3>1, <3>2, Zenon
  <2> HIDE DEF d
  <2> QED
    BY <1>1, <2>1, <2>2, Zenon DEF IsChain
<1>7. d[b].val = v /\ \A t \in DOMAIN c \ {b} : d[t].val = c[t].val
  <2> HIDE DEF d
  <2>1. d[b].val = v
    BY <1>4
  <2>2. ASSUME NEW t \in DOMAIN c \ {b} PROVE d[t].val = c[t].val
    <3>1. d[t] = [val |-> c[t].val, end |-> d[t].end]
      BY <1>5, Zenon
    <3> QED
      BY <3>1
  <2> QED
    BY <2>1, <2>2, Zenon
<1> QED
  <2>1. WithVersion(d, c, b, v)
    <3> HIDE DEF d
    <3> QED
      BY <1>1, <1>6, <1>7, Zenon DEF WithVersion
  <2> QED
    BY <2>1, Zenon

\* garbage_collect below the snapshot o: the newest version at o and all newer
\* ones stay, and every version that goes has a newer one that stays and began
\* at or before o.
LEMMA CollectKeepsChain ==
  ASSUME NEW c, IsChain(c), NEW o \in Nat, o < OpenEnded
  PROVE  LET d == ChainCollect(c, o)
         IN  /\ IsChain(d)
             /\ DOMAIN d \subseteq DOMAIN c
             /\ \A t \in DOMAIN d : d[t] = c[t]
             /\ \A t \in DOMAIN c : Newer(c, t) = {} => t \in DOMAIN d
             /\ \A t \in DOMAIN c \ DOMAIN d : \E u \in DOMAIN d : t < u /\ u <= o
<1> DEFINE d == ChainCollect(c, o)
<1>1. /\ DOMAIN d = {b \in DOMAIN c : Newer(c, b) = {} \/ c[b].end > o}
      /\ d = [t \in DOMAIN d |-> d[t]]
      /\ \A t \in DOMAIN d : d[t] = c[t]
  BY Zenon DEF ChainCollect
<1> HIDE DEF d
<1>2. DOMAIN c \subseteq Nat \ {0}
  BY Zenon DEF IsChain
<1>3. \A t \in DOMAIN c :
        /\ c[t] = [val |-> c[t].val, end |-> c[t].end]
        /\ c[t].end \in Nat /\ t < c[t].end
        /\ \A u \in DOMAIN c : t < u => c[t].end <= u
        /\ c[t].end \in DOMAIN c \/ (c[t].end = OpenEnded /\ Newer(c, t) = {})
  BY Zenon DEF IsChain
<1>4. ASSUME NEW t \in DOMAIN d, c[t].end \in DOMAIN c
      PROVE  c[t].end \in DOMAIN d
  <2> DEFINE e == c[t].end
  <2>1. t \in DOMAIN c /\ e \in Newer(c, t) /\ e \in Nat
    BY <1>1, <1>3, <1>4, Zenon DEF Newer
  <2>2. e > o
    BY <1>1, <2>1, Zenon
  <2>3. c[e].end > o
    BY <1>3, <1>4, <2>1, <2>2
  <2> QED
    BY <1>1, <1>4, <2>3, Zenon
<1>5. IsChain(d)
  <2>1. ASSUME NEW t \in DOMAIN d
        PROVE  /\ d[t] = [val |-> d[t].val, end |-> d[t].end]
               /\ d[t].end \in Nat /\ t < d[t].end
               /\ \A u \in DOMAIN d : t < u => d[t].end <= u
               /\ d[t].end \in DOMAIN d \/ (d[t].end = OpenEnded /\ Newer(d, t) = {})
    <3>1. d[t] = c[t] /\ t \in DOMAIN c
      BY <1>1, Zenon
    <3>2. CASE c[t].end \in DOMAIN c
      BY <1>1, <1>3, <1>4, <3>1, <3>2, Zenon
    <3>3. CASE c[t].end = OpenEnded /\ Newer(c, t) = {}
      <4>1. Newer(d, t) = {}
        BY <1>1, <3>3, Zenon DEF Newer
      <4> QED
        BY <1>1, <1>3, <3>1, <3>3, <4>1, Zenon
    <3> QED
      BY <1>3, <3>1, <3>2, <3>3, Zenon
  <2> QED
    BY <1>1, <1>2, <2>1, Zenon DEF IsChain
<1>6. ASSUME NEW t \in DOMAIN c \ DOMAIN d
      PROVE  \E u \in DOMAIN d : t < u /\ u <= o
  <2> DEFINE e == c[t].end
  <2>1. e \in DOMAIN c /\ e <= o /\ t < e /\ e \in Nat /\ t \in Nat
    BY <1>1, <1>2, <1>3
  <2>2. PICK b \in DOMAIN c : NewestAt(c, o, b) /\ o < c[b].end
    BY <2>1, NewestExists, Zenon
  <2>3. b \in DOMAIN d
    BY <1>1, <1>3, <2>2, Zenon
  <2>4. t < b /\ b <= o
    BY <1>2, <2>1, <2>2 DEF NewestAt
  <2> QED
    BY <2>3, <2>4, Zenon
<1> QED
  BY <1>1, <1>5, <1>6, Zenon DEF d

-----------------------------------------------------------------------------
(* The pins. *)

\* The guards alive for t.
Holders(t) == {r \in Reader : reader[r].open /\ reader[r].ts = t}

SeqOK == commit_seq \in Nat /\ 1 <= commit_seq /\ commit_seq <= MaxCommits + 1

ReaderOK ==
  /\ reader \in [Reader -> [open : BOOLEAN, ts : Ts, safe : BOOLEAN]]
  /\ \A r \in Reader : /\ reader[r].ts <= snapshot_ts
                       /\ reader[r].safe => reader[r].open

\* u is at or before every snapshot that is protected or still to come.
Passed(u) == u <= snapshot_ts /\ \A r \in Reader : reader[r].safe => u <= reader[r].ts

Mutation == [key : Key, val : Val]

WriterOK ==
  /\ writer = [pc |-> writer.pc, ts |-> writer.ts, todo |-> writer.todo]
  /\ writer.pc \in {"idle", "apply"}
  /\ writer.pc = "apply" => /\ writer.ts = snapshot_ts /\ writer.ts # 0
                            /\ writer.todo \in Seq(Mutation) \ {<< >>}

GcOK ==
  /\ backend \in {"BTreeMap", "SkipMap"}
  /\ gc = [pc |-> gc.pc, oldest |-> gc.oldest, todo |-> gc.todo, keys |-> gc.keys,
           copy |-> gc.copy]
  /\ gc.pc \in {"idle", "sweep", "store"}
  /\ gc.pc = "store" => backend = "SkipMap"
  /\ gc.todo \subseteq Key /\ gc.keys \subseteq Key
  /\ gc.pc # "idle" => /\ gc.oldest \in Ts /\ Passed(gc.oldest)
                       /\ since \in Nat /\ since <= snapshot_ts

StepInv == WriterOK /\ GcOK

\* A version that is in no chain any more is read by no protected snapshot.
KeyOK(k) ==
  /\ IsChain(chains[k])
  /\ DOMAIN chains[k] \subseteq DOMAIN hist[k]
  /\ DOMAIN hist[k] \subseteq 1..snapshot_ts
  /\ \A t \in DOMAIN chains[k] : /\ chains[k][t].val \in Val
                                 /\ hist[k][t] = chains[k][t].val
  /\ \A t \in DOMAIN hist[k] \ DOMAIN chains[k] :
       \E u \in DOMAIN chains[k] : t < u /\ Passed(u)

\* The copy of the chain of k that the collector holds differs from the chain
\* only in what was applied since the collection began.
CopyOK(k) ==
  /\ IsChain(gc.copy)
  /\ DOMAIN gc.copy \subseteq DOMAIN chains[k]
  /\ \A t \in DOMAIN gc.copy : /\ gc.copy[t].val \in Val
                               /\ gc.copy[t].val = chains[k][t].val \/ since <= t
  /\ \A t \in DOMAIN chains[k] \ DOMAIN gc.copy : Newer(gc.copy, t) = {} /\ since <= t
  /\ \A t \in DOMAIN hist[k] \ DOMAIN chains[k] :
       \E u \in DOMAIN gc.copy : t < u /\ Passed(u)

ChainInv ==
  /\ chains = [k \in Key |-> chains[k]] /\ hist = [k \in Key |-> hist[k]]
  /\ \A k \in Key : KeyOK(k)
  /\ gc.pc = "store" => \A k \in gc.keys : CopyOK(k)

PinInv == SeqOK /\ ReaderOK /\ pins \in [Ts -> Nat] /\ PinsExact

-----------------------------------------------------------------------------
(* Pins *)

\* Timestamps are naturals, and 0 is one.
LEMMA TsFacts == Ts \subseteq Nat /\ 0 \in Ts /\ MaxCommits \in Nat
BY CommitBoundAssumption DEF Ts

\* Every timestamp is before OPEN_ENDED_TS.
LEMMA TsIsEarly == \A t \in Ts : t < OpenEnded
BY CommitBoundAssumption, OpenEndedAssumption DEF Ts

\* The latest timestamp handed out is one.
LEMMA SnapshotIsTs == SeqOK => snapshot_ts \in Ts /\ snapshot_ts \in Nat
BY CommitBoundAssumption DEF SeqOK, snapshot_ts, Ts

\* The guards of a timestamp are finitely many.
LEMMA HoldersFinite ==
  ASSUME NEW t
  PROVE  IsFiniteSet(Holders(t)) /\ Cardinality(Holders(t)) \in Nat
BY ReaderAssumption, FS_Subset, FS_CardinalityType, Zenon DEF Holders

\* A guard that is made adds one to the count of its timestamp.
LEMMA GuardMade ==
  ASSUME PinInv, NEW r \in Reader, NEW ts \in Ts, NEW b \in BOOLEAN, ~reader[r].open,
         ts <= snapshot_ts,
         reader' = [reader EXCEPT ![r] = [open |-> TRUE, ts |-> ts, safe |-> b]],
         pins' = [pins EXCEPT ![ts] = @ + 1],
         UNCHANGED commit_seq
  PROVE  PinInv'
<1>1. SeqOK' /\ snapshot_ts' = snapshot_ts
  BY Zenon DEF PinInv, SeqOK, snapshot_ts
<1>2. reader \in [Reader -> [open : BOOLEAN, ts : Ts, safe : BOOLEAN]]
  BY Zenon DEF PinInv, ReaderOK
<1>3. /\ reader'[r] = [open |-> TRUE, ts |-> ts, safe |-> b]
      /\ \A q \in Reader : q # r => reader'[q] = reader[q]
  BY <1>2, Zenon
<1>4. ReaderOK'
  <2>1. reader' \in [Reader -> [open : BOOLEAN, ts : Ts, safe : BOOLEAN]]
    BY <1>2, Zenon
  <2>2. ASSUME NEW q \in Reader
        PROVE  reader'[q].ts <= snapshot_ts /\ (reader'[q].safe => reader'[q].open)
    BY <1>3, Zenon DEF PinInv, ReaderOK
  <2> QED
    BY <1>1, <2>1, <2>2, Zenon DEF ReaderOK
<1>5. pins' \in [Ts -> Nat] /\ pins'[ts] = pins[ts] + 1
      /\ \A t \in Ts : t # ts => pins'[t] = pins[t]
  BY DEF PinInv
<1>6. ASSUME NEW t \in Ts PROVE pins'[t] = Cardinality(Holders(t)')
  <2>0. pins[t] = Cardinality(Holders(t))
    BY Zenon DEF PinInv, PinsExact, Holders
  <2>1. CASE t = ts
    <3>1. Holders(t)' = Holders(t) \cup {r}
      BY <1>3, <2>1 DEF Holders
    <3>2. r \notin Holders(t)
      BY Zenon DEF Holders
    <3>3. Cardinality(Holders(t) \cup {r}) = Cardinality(Holders(t)) + 1
      BY <3>2, HoldersFinite, FS_AddElement, Zenon
    <3> QED
      BY <1>5, <2>0, <2>1, <3>1, <3>3, Zenon
  <2>2. CASE t # ts
    <3>1. Holders(t)' = Holders(t)
      BY <1>3, <2>2 DEF Holders
    <3> QED
      BY <1>5, <2>0, <2>2, <3>1, Zenon
  <2> QED
    BY <2>1, <2>2, Zenon
<1> QED
  BY <1>1, <1>4, <1>5, <1>6, Zenon DEF PinInv, PinsExact, Holders

\* A guard that is dropped takes one from the count of its timestamp, which is
\* not 0 before.
LEMMA GuardDropped ==
  ASSUME PinInv, NEW r \in Reader, unpin_snapshot(r), UNCHANGED commit_seq
  PROVE  PinInv'
<1> DEFINE ts == reader[r].ts
<1>1. SeqOK' /\ snapshot_ts' = snapshot_ts /\ snapshot_ts \in Nat
  BY SnapshotIsTs, Zenon DEF PinInv, SeqOK, snapshot_ts
<1>2. reader \in [Reader -> [open : BOOLEAN, ts : Ts, safe : BOOLEAN]] /\ ts \in Ts
  BY Zenon DEF PinInv, ReaderOK
<1>3. /\ reader'[r] = [open |-> FALSE, ts |-> 0, safe |-> FALSE]
      /\ \A q \in Reader : q # r => reader'[q] = reader[q]
  BY <1>2, Zenon DEF unpin_snapshot
<1>4. ReaderOK'
  <2>1. reader' \in [Reader -> [open : BOOLEAN, ts : Ts, safe : BOOLEAN]]
    BY <1>2, TsFacts, Zenon DEF unpin_snapshot
  <2>2. ASSUME NEW q \in Reader
        PROVE  reader'[q].ts <= snapshot_ts /\ (reader'[q].safe => reader'[q].open)
    BY <1>1, <1>3 DEF PinInv, ReaderOK
  <2> QED
    BY <1>1, <2>1, <2>2, Zenon DEF ReaderOK
<1>5. /\ pins'[ts] = pins[ts] - 1
      /\ \A t \in Ts : t # ts => pins'[t] = pins[t]
      /\ pins' = [pins EXCEPT ![ts] = pins[ts] - 1]
  BY <1>2, Zenon DEF PinInv, unpin_snapshot
<1>6. ASSUME NEW t \in Ts PROVE pins'[t] = Cardinality(Holders(t)')
  <2>0. pins[t] = Cardinality(Holders(t))
    BY Zenon DEF PinInv, PinsExact, Holders
  <2>1. CASE t = ts
    <3>1. Holders(t)' = Holders(t) \ {r}
      BY <1>3, <2>1 DEF Holders
    <3>2. r \in Holders(t)
      BY <2>1, Zenon DEF Holders, unpin_snapshot
    <3>3. Cardinality(Holders(t) \ {r}) = Cardinality(Holders(t)) - 1
      BY <3>2, HoldersFinite, FS_RemoveElement, Zenon
    <3> QED
      BY <1>5, <2>0, <2>1, <3>1, <3>3, Zenon
  <2>2. CASE t # ts
    <3>1. Holders(t)' = Holders(t)
      BY <1>3, <2>2 DEF Holders
    <3> QED
      BY <1>5, <2>0, <2>2, <3>1, Zenon
  <2> QED
    BY <2>1, <2>2, Zenon
<1>7. pins' \in [Ts -> Nat]
  <2>1. ASSUME NEW t PROVE Cardinality(Holders(t)') \in Nat
    <3>1. Holders(t)' \subseteq Reader
      BY Zenon DEF Holders
    <3> QED
      BY <3>1, ReaderAssumption, FS_Subset, FS_CardinalityType, Zenon
  <2>2. \A t \in Ts : pins'[t] \in Nat
    BY <1>6, <2>1, Zenon
  <2>3. pins \in [Ts -> Nat]
    BY Zenon DEF PinInv
  <2> QED
    BY <1>5, <2>2, <2>3, Zenon
<1> QED
  BY <1>1, <1>4, <1>6, <1>7, Zenon DEF PinInv, PinsExact, Holders

\* No step but those of guards touches a pin, and the snapshot never goes back.
LEMMA PinStep == PinInv /\ [Next]_vars => PinInv'
<1> SUFFICES ASSUME PinInv, [Next]_vars PROVE PinInv'
  BY Zenon
<1>1. ASSUME NEW r \in Reader, begin_read(r), UNCHANGED commit_seq PROVE PinInv'
  <2>1. snapshot_ts \in Ts /\ snapshot_ts <= snapshot_ts
    BY SnapshotIsTs DEF PinInv
  <2> QED
    BY <1>1, <2>1, GuardMade, Zenon DEF begin_read
<1>2. ASSUME NEW r \in Reader, NEW ts \in Ts, pin_snapshot(r, ts), UNCHANGED commit_seq
      PROVE  PinInv'
  BY <1>2, GuardMade, Zenon DEF pin_snapshot
<1>3. CASE Readers
  <2>1. UNCHANGED commit_seq
    BY <1>3, Zenon DEF Readers, memvars
  <2> QED
    BY <1>1, <1>2, <1>3, <2>1, GuardDropped, Zenon DEF Readers
<1>4. CASE TakeTimestamp
  <2>1. SeqOK' /\ snapshot_ts \in Nat /\ snapshot_ts' = snapshot_ts + 1
    BY <1>4, CommitBoundAssumption DEF TakeTimestamp, PinInv, SeqOK, snapshot_ts
  <2>2. UNCHANGED <<pins, reader>>
    BY <1>4, Zenon DEF TakeTimestamp, pinvars
  <2>3. ReaderOK'
    <3>1. \A r \in Reader : reader[r].ts \in Nat
      BY TsFacts, Zenon DEF PinInv, ReaderOK
    <3>2. \A r \in Reader : reader[r].ts <= snapshot_ts'
      BY <2>1, <3>1 DEF PinInv, ReaderOK
    <3> QED
      BY <2>2, <3>2, Zenon DEF PinInv, ReaderOK
  <2> QED
    BY <2>1, <2>2, <2>3, Zenon DEF PinInv, PinsExact
<1>5. CASE UNCHANGED <<commit_seq, pins, reader>>
  BY <1>5, Zenon DEF PinInv, SeqOK, ReaderOK, PinsExact, snapshot_ts
<1>6. CASE ApplyUnderLock \/ ApplyOne \/ Collector \/ UNCHANGED vars
  BY <1>5, <1>6, Zenon DEF ApplyUnderLock, ApplyOne, Collector, StartCollect, CollectUnderLock,
                    LoadChain, StoreChain, vars, memvars, pinvars
<1> QED
  BY <1>3, <1>4, <1>6, Zenon DEF Next, Writer

\* No guard is alive before the first step.
LEMMA PinStart == Init => PinInv
<1> SUFFICES ASSUME Init PROVE PinInv
  BY Zenon
<1>1. SeqOK /\ snapshot_ts = 0
  BY CommitBoundAssumption DEF Init, SeqOK, snapshot_ts
<1>2. ReaderOK
  BY <1>1, TsFacts DEF Init, ReaderOK
<1>3. ASSUME NEW t \in Ts PROVE pins[t] = Cardinality(Holders(t))
  <2>1. Holders(t) = {}
    BY Zenon DEF Init, Holders
  <2> QED
    BY <2>1, FS_EmptySet, Zenon DEF Init
<1> QED
  BY <1>1, <1>2, <1>3, Zenon DEF PinInv, PinsExact, Holders, Init

\* pinned_snapshots counts exactly the guards alive for each timestamp.
THEOREM PinsAlwaysExact == Spec => []PinsExact
<1>1. PinInv => PinsExact
  BY Zenon DEF PinInv
<1> QED
  BY <1>1, PinStart, PinStep, PTL DEF Spec

-----------------------------------------------------------------------------
(* The writer and the collector *)

\* What every snapshot has passed stays passed: new snapshots are the latest,
\* or shared with a protected one.
LEMMA PassedStays ==
  ASSUME PinInv, [Next]_vars, NEW u \in Nat, Passed(u)
  PROVE  Passed(u)'
<1>0. /\ reader \in [Reader -> [open : BOOLEAN, ts : Ts, safe : BOOLEAN]]
      /\ \A r \in Reader : reader[r].ts <= snapshot_ts /\ (reader[r].safe => reader[r].open)
      /\ snapshot_ts \in Nat /\ u <= snapshot_ts
      /\ \A r \in Reader : reader[r].safe => u <= reader[r].ts
  BY SnapshotIsTs, Zenon DEF PinInv, ReaderOK, Passed
<1>1. CASE Readers
  <2>1. snapshot_ts' = snapshot_ts
    BY <1>1, Zenon DEF Readers, memvars, snapshot_ts
  <2>2. PICK r \in Reader : \/ begin_read(r)
                            \/ \E ts \in Ts : pin_snapshot(r, ts)
                            \/ unpin_snapshot(r)
    BY <1>1, Zenon DEF Readers
  <2>3. \A q \in Reader : q # r => reader'[q] = reader[q]
    BY <1>0, <2>2, Zenon DEF begin_read, pin_snapshot, unpin_snapshot
  <2>4. reader'[r].safe => u <= reader'[r].ts
    <3>1. CASE begin_read(r)
      BY <1>0, <3>1, Zenon DEF begin_read
    <3>2. ASSUME NEW ts \in Ts, pin_snapshot(r, ts) PROVE reader'[r].safe => u <= reader'[r].ts
      <4>1. /\ reader'[r].ts = ts
            /\ reader'[r].safe = \E q \in Reader : /\ reader[q].open /\ reader[q].safe
                                                   /\ reader[q].ts = ts
        BY <1>0, <3>2, ZenonT(40) DEF pin_snapshot
      <4> QED
        BY <1>0, <4>1, Zenon
    <3>3. CASE unpin_snapshot(r)
      BY <1>0, <3>3, Zenon DEF unpin_snapshot
    <3> QED
      BY <2>2, <3>1, <3>2, <3>3, Zenon
  <2>5. \A q \in Reader : reader'[q].safe => u <= reader'[q].ts
    BY <1>0, <2>3, <2>4, ZenonT(40)
  <2> QED
    BY <1>0, <2>1, <2>5, Zenon DEF Passed
<1>2. CASE TakeTimestamp
  <2>1. snapshot_ts' = snapshot_ts + 1 /\ reader' = reader
    BY <1>2 DEF TakeTimestamp, pinvars, PinInv, SeqOK, snapshot_ts
  <2>2. u <= snapshot_ts'
    BY <1>0, <2>1
  <2> QED
    BY <1>0, <2>1, <2>2, ZenonT(40) DEF Passed
<1>3. CASE ApplyUnderLock \/ ApplyOne \/ Collector \/ UNCHANGED vars
  <2>1. UNCHANGED <<commit_seq, reader>>
    BY <1>3, Zenon DEF ApplyUnderLock, ApplyOne, Collector, StartCollect, CollectUnderLock,
                LoadChain, StoreChain, vars, memvars, pinvars
  <2> QED
    BY <2>1, Zenon DEF Passed, snapshot_ts
<1> QED
  BY <1>1, <1>2, <1>3, Zenon DEF Next, Writer

\* The watermark is at or before every protected snapshot: it is pinned.
LEMMA WatermarkPassed ==
  ASSUME PinInv, NEW w \in Ts, IsWatermark(w)
  PROVE  Passed(w)
<1>1. ASSUME NEW r \in Reader, reader[r].safe PROVE w <= reader[r].ts
  <2> DEFINE t == reader[r].ts
  <2>1. t \in Ts /\ reader[r].open
    BY <1>1, Zenon DEF PinInv, ReaderOK
  <2>2. r \in Holders(t)
    BY <2>1, Zenon DEF Holders
  <2>3. Cardinality(Holders(t)) # 0
    BY <2>2, HoldersFinite, FS_EmptySet, Zenon
  <2>4. pins[t] = Cardinality(Holders(t)) /\ pins[t] \in Nat
    BY <2>1, Zenon DEF PinInv, PinsExact, Holders
  <2>5. pins[t] > 0
    <3> HIDE DEF t
    <3> QED
      BY <2>3, <2>4
  <2> QED
    BY <2>1, <2>5, Zenon DEF IsWatermark
<1> QED
  BY <1>1, Zenon DEF Passed, IsWatermark

\* The records of the writer and the collector keep their form.
LEMMA RecordStep ==
  ASSUME PinInv, StepInv, [Next]_vars
  PROVE  StepInv'
<1>0. snapshot_ts \in Nat /\ snapshot_ts \in Ts /\ Ts \subseteq Nat
  BY SnapshotIsTs, TsFacts, Zenon DEF PinInv
<1>1. ASSUME UNCHANGED <<gc, since, backend>>,
             snapshot_ts' = snapshot_ts \/ snapshot_ts' = snapshot_ts + 1
      PROVE  GcOK'
  <2>1. CASE gc.pc = "idle"
    BY <1>1, <2>1, Zenon DEF StepInv, GcOK
  <2>2. CASE gc.pc # "idle"
    <3>1. gc.oldest \in Ts /\ Passed(gc.oldest) /\ since \in Nat /\ since <= snapshot_ts
      BY <2>2, Zenon DEF StepInv, GcOK
    <3>2. ASSUME NEW u \in Nat, u = gc.oldest PROVE Passed(u)'
      BY <3>1, <3>2, PassedStays, Zenon
    <3>3. Passed(gc.oldest)'
      BY <1>0, <1>1, <3>1, <3>2, Zenon DEF Passed
    <3>4. since <= snapshot_ts'
      BY <1>0, <1>1, <3>1
    <3> QED
      BY <1>1, <2>2, <3>1, <3>3, <3>4, Zenon DEF StepInv, GcOK
  <2> QED
    BY <2>1, <2>2, Zenon
<1>2. ASSUME UNCHANGED writer, snapshot_ts' = snapshot_ts PROVE WriterOK'
  BY <1>2, Zenon DEF StepInv, WriterOK
<1>3. CASE Readers \/ UNCHANGED vars
  <2>1. UNCHANGED <<gc, since, backend, writer>> /\ snapshot_ts' = snapshot_ts
    BY <1>3, Zenon DEF Readers, vars, memvars, gcvars, snapshot_ts
  <2> QED
    BY <1>1, <1>2, <2>1, Zenon DEF StepInv
<1>4. CASE TakeTimestamp
  <2>1. UNCHANGED <<gc, since, backend>> /\ snapshot_ts' = snapshot_ts + 1
    BY <1>4 DEF TakeTimestamp, gcvars, PinInv, SeqOK, snapshot_ts
  <2>2. PICK b \in Batches : writer' = [pc |-> "apply", ts |-> commit_seq, todo |-> b]
    BY <1>4, Zenon DEF TakeTimestamp
  <2>3. b \in Seq(Mutation) \ {<< >>}
    BY BatchAssumption, Zenon DEF Mutation
  <2>4. commit_seq = snapshot_ts' /\ commit_seq # 0
    BY <1>4 DEF TakeTimestamp, PinInv, SeqOK, snapshot_ts
  <2> QED
    BY <1>1, <2>1, <2>2, <2>3, <2>4, Zenon DEF StepInv, WriterOK
<1>5. CASE ApplyUnderLock \/ ApplyOne
  <2>1. UNCHANGED <<gc, since, backend>> /\ snapshot_ts' = snapshot_ts
    BY <1>5, Zenon DEF ApplyUnderLock, ApplyOne, gcvars, snapshot_ts
  <2>2. ASSUME writer' = IdleWriter PROVE WriterOK'
    BY <2>2, Zenon DEF WriterOK, IdleWriter
  <2>3. ASSUME writer.pc = "apply", Tail(writer.todo) # << >>,
               writer' = [writer EXCEPT !.todo = Tail(@)]
        PROVE  WriterOK'
    <3>1. /\ writer = [pc |-> "apply", ts |-> writer.ts, todo |-> writer.todo]
          /\ writer.ts = snapshot_ts /\ writer.ts # 0
          /\ writer.todo \in Seq(Mutation) /\ writer.todo # << >>
      BY <2>3, Zenon DEF StepInv, WriterOK
    <3>2. writer' = [pc |-> "apply", ts |-> writer.ts, todo |-> Tail(writer.todo)]
      BY <2>3, <3>1, Zenon
    <3>3. Tail(writer.todo) \in Seq(Mutation)
      BY <3>1
    <3> QED
      BY <2>1, <2>3, <3>1, <3>2, <3>3, Zenon DEF WriterOK
  <2>4. WriterOK'
    BY <1>5, <2>2, <2>3, Zenon DEF ApplyUnderLock, ApplyOne, NoMutations
  <2> QED
    BY <1>1, <2>1, <2>4, Zenon DEF StepInv
<1>6. CASE Collector
  <2>1. /\ UNCHANGED <<writer, backend, commit_seq, reader>> /\ snapshot_ts' = snapshot_ts
        /\ \A u : Passed(u)' = Passed(u)
    BY <1>6, Zenon DEF Collector, StartCollect, CollectUnderLock, LoadChain, StoreChain, memvars,
                pinvars, snapshot_ts, Passed
  <2>2. ASSUME gc' = IdleGc PROVE GcOK'
    BY <2>1, <2>2, Zenon DEF StepInv, GcOK, IdleGc
  <2>3. ASSUME StartCollect PROVE GcOK'
    <3>1. PICK w \in Ts : /\ IsWatermark(w)
                          /\ gc' = [IdleGc EXCEPT !.pc = "sweep", !.oldest = w, !.todo = Key]
      BY <2>3, Zenon DEF StartCollect
    <3>2. gc' = [pc |-> "sweep", oldest |-> w, todo |-> Key, keys |-> {}, copy |-> EmptyChain]
      BY <3>1, Zenon DEF IdleGc
    <3>3. Passed(w) /\ since' = snapshot_ts
      BY <2>3, <3>1, WatermarkPassed, Zenon DEF StartCollect
    <3> QED
      BY <1>0, <2>1, <3>2, <3>3, SMTT(30) DEF StepInv, GcOK
  <2>4. ASSUME LoadChain PROVE GcOK'
    <3>1. /\ since' = since /\ gc.pc = "sweep" /\ backend = "SkipMap"
          /\ \E k \in gc.todo : gc' = [gc EXCEPT !.pc = "store", !.todo = @ \ {k}, !.keys = {k},
                                                   !.copy = chains[k]]
      BY <2>4, Zenon DEF LoadChain
    <3>2. PICK k \in gc.todo : gc' = [gc EXCEPT !.pc = "store", !.todo = @ \ {k}, !.keys = {k},
                                                 !.copy = chains[k]]
      BY <3>1, Zenon
    <3>3. gc' = [pc |-> "store", oldest |-> gc.oldest, todo |-> gc.todo \ {k}, keys |-> {k},
                 copy |-> chains[k]]
      BY <3>2, Zenon DEF StepInv, GcOK
    <3>4. k \in Key
      BY Zenon DEF StepInv, GcOK
    <3> QED
      BY <2>1, <3>1, <3>3, <3>4, ZenonT(30) DEF StepInv, GcOK
  <2>5. ASSUME StoreChain, gc' # IdleGc PROVE GcOK'
    <3>1. /\ gc.pc = "store" /\ since' = since
          /\ gc' = [gc EXCEPT !.pc = "sweep", !.keys = {}, !.copy = EmptyChain]
      BY <2>5, Zenon DEF StoreChain
    <3>2. gc' = [pc |-> "sweep", oldest |-> gc.oldest, todo |-> gc.todo, keys |-> {},
                 copy |-> EmptyChain]
      BY <3>1, Zenon DEF StepInv, GcOK
    <3> QED
      BY <2>1, <3>1, <3>2, Zenon DEF StepInv, GcOK
  <2>6. GcOK'
    BY <1>6, <2>2, <2>3, <2>4, <2>5, Zenon DEF Collector, CollectUnderLock
  <2> QED
    BY <1>2, <2>1, <2>6, Zenon DEF StepInv
<1> QED
  BY <1>3, <1>4, <1>5, <1>6, Zenon DEF Next, Writer

-----------------------------------------------------------------------------
(* The chains *)

\* The writes w to the keys K are applied under the latest timestamp.
Written(K, w) ==
  /\ writer.ts = snapshot_ts /\ snapshot_ts # 0
  /\ chains' = [k \in Key |-> IF k \in K THEN ChainInsert(chains[k], snapshot_ts, w[k])
                              ELSE chains[k]]
  /\ hist' = [k \in Key |-> IF k \in K THEN Recorded(hist[k], w[k]) ELSE hist[k]]
  /\ UNCHANGED <<backend, commit_seq, pins, reader, gc, since>>

\* What a batch leaves in a key that it writes is a value that it writes.
LEMMA LastWriteIsValue ==
  ASSUME NEW b \in Seq(Mutation), NEW i \in 1..Len(b)
  PROVE  LastWrite(b, b[i].key) \in Val
<1> DEFINE k == b[i].key
           writes == {j \in 1..Len(b) : b[j].key = k}
           last == CHOOSE j \in writes : \A m \in writes : m <= j
<1>1. writes \in SUBSET Nat /\ writes # {} /\ Len(b) \in Nat /\ \A j \in writes : j <= Len(b)
  OBVIOUS
<1>2. \E j \in writes : \A m \in writes : m <= j
  <2> HIDE DEF writes
  <2> QED
    BY <1>1, GreatestBelow, Zenon
<1>3. last \in writes
  <2> HIDE DEF writes
  <2> QED
    BY <1>2, Zenon
<1>4. b[last] \in Mutation
  <2> HIDE DEF last
  <2> QED
    BY <1>3
<1>5. b[last].val \in Val
  <2> HIDE DEF last
  <2> QED
    BY <1>4, Zenon DEF Mutation
<1> QED
  BY <1>5, Zenon DEF LastWrite

\* Both backends apply mutations as writes to some keys.
LEMMA ApplyWrites ==
  ASSUME StepInv, ChainInv, ApplyUnderLock \/ ApplyOne
  PROVE  \E K \in SUBSET Key : \E w \in [K -> Val] : Written(K, w)
<1>0. /\ writer.ts = snapshot_ts /\ snapshot_ts # 0
      /\ writer.todo \in Seq(Mutation) /\ writer.todo # << >>
      /\ UNCHANGED <<backend, commit_seq, pins, reader, gc, since>>
  BY Zenon DEF ApplyUnderLock, ApplyOne, StepInv, WriterOK, pinvars, gcvars
<1>1. CASE ApplyUnderLock
  <2> DEFINE b == writer.todo
             K == {b[i].key : i \in 1..Len(b)}
             w == [k \in K |-> LastWrite(b, k)]
  <2>1. K \in SUBSET Key
    <3>1. \A i \in 1..Len(b) : b[i] \in Mutation
      BY <1>0
    <3> QED
      BY <3>1, Zenon DEF Mutation
  <2>2. \A k \in K : LastWrite(b, k) \in Val
    BY <1>0, LastWriteIsValue, Zenon
  <2>3. w \in [K -> Val]
    <3> HIDE DEF K
    <3> QED
      BY <2>2, Zenon
  <2>4. /\ chains' = [k \in Key |-> IF k \in K THEN ChainInsert(chains[k], writer.ts, LastWrite(b, k))
                                   ELSE chains[k]]
        /\ hist' = [k \in Key |-> IF k \in K THEN Recorded(hist[k], LastWrite(b, k))
                                  ELSE hist[k]]
    BY <1>1, Zenon DEF ApplyUnderLock
  <2>5. \A k \in K : w[k] = LastWrite(b, k)
    <3> HIDE DEF K
    <3> QED
      BY Zenon
  <2>6. Written(K, w)
    <3> HIDE DEF K, w
    <3> QED
      BY <1>0, <2>4, <2>5, Zenon DEF Written
  <2> HIDE DEF K, w
  <2> QED
    BY <2>1, <2>3, <2>6, Zenon
<1>2. CASE ApplyOne
  <2> DEFINE m == Head(writer.todo)
             K == {m.key}
             w == [k \in K |-> m.val]
  <2>1. m \in Mutation
    BY <1>0
  <2>2. m.key \in Key /\ m.val \in Val
    BY <2>1, Zenon DEF Mutation
  <2>3. K \in SUBSET Key /\ w \in [K -> Val] /\ w[m.key] = m.val
    <3> HIDE DEF m
    <3> QED
      BY <2>2, Zenon
  <2>4. /\ chains' = [chains EXCEPT ![m.key] = ChainInsert(@, writer.ts, m.val)]
        /\ hist' = [hist EXCEPT ![m.key] = Recorded(@, m.val)]
    BY <1>2, Zenon DEF ApplyOne
  <2>5. chains = [k \in Key |-> chains[k]] /\ hist = [k \in Key |-> hist[k]]
    BY Zenon DEF ChainInv
  <2>6. Written(K, w)
    <3> HIDE DEF m
    <3>1. chains' = [k \in Key |-> IF k = m.key THEN ChainInsert(chains[k], snapshot_ts, m.val)
                                  ELSE chains[k]]
      BY <1>0, <2>2, <2>4, <2>5, Zenon
    <3>2. hist' = [k \in Key |-> IF k = m.key THEN Recorded(hist[k], m.val) ELSE hist[k]]
      BY <2>2, <2>4, <2>5, Zenon
    <3> QED
      BY <1>0, <2>2, <2>3, <3>1, <3>2, Zenon DEF Written
  <2> HIDE DEF K, w
  <2> QED
    BY <2>3, <2>6, Zenon
<1> QED
  BY <1>1, <1>2, Zenon

\* A key whose chain and history stay.
LEMMA KeyStays ==
  ASSUME PinInv, NEW k \in Key, KeyOK(k), \A u \in Nat : Passed(u) => Passed(u)',
         chains'[k] = chains[k], hist'[k] = hist[k],
         snapshot_ts' \in Nat, snapshot_ts <= snapshot_ts'
  PROVE  KeyOK(k)' /\ (CopyOK(k) /\ UNCHANGED <<gc, since>> => CopyOK(k)')
<1>1. snapshot_ts \in Nat /\ DOMAIN chains[k] \subseteq Nat
  BY SnapshotIsTs, Zenon DEF PinInv, KeyOK, IsChain
<1>2. KeyOK(k)'
  <2>1. DOMAIN hist[k] \subseteq 1..snapshot_ts'
    BY <1>1 DEF KeyOK
  <2>2. \A t \in DOMAIN hist[k] \ DOMAIN chains[k] :
          \E u \in DOMAIN chains[k] : t < u /\ Passed(u)'
    BY <1>1, Zenon DEF KeyOK
  <2> QED
    BY <2>1, <2>2, Zenon DEF KeyOK
<1>3. ASSUME CopyOK(k), UNCHANGED <<gc, since>> PROVE CopyOK(k)'
  <2>1. DOMAIN gc.copy \subseteq Nat
    BY <1>3, Zenon DEF CopyOK, IsChain
  <2>2. \A t \in DOMAIN hist[k] \ DOMAIN chains[k] :
          \E u \in DOMAIN gc.copy : t < u /\ Passed(u)'
    BY <1>3, <2>1, Zenon DEF CopyOK
  <2> QED
    BY <1>3, <2>2, Zenon DEF CopyOK
<1> QED
  BY <1>2, <1>3, Zenon

\* A key that is written under the latest timestamp.
LEMMA KeyWritten ==
  ASSUME PinInv, GcOK, NEW k \in Key, KeyOK(k), NEW v \in Val,
         writer.ts = snapshot_ts, snapshot_ts # 0,
         chains'[k] = ChainInsert(chains[k], snapshot_ts, v),
         hist'[k] = Recorded(hist[k], v),
         UNCHANGED <<commit_seq, reader, gc, since>>
  PROVE  KeyOK(k)' /\ (gc.pc = "store" /\ CopyOK(k) => CopyOK(k)')
<1> DEFINE c == chains[k]
           d == chains'[k]
           ts == snapshot_ts
<1>0. /\ ts \in Nat \ {0} /\ ts < OpenEnded /\ snapshot_ts' = ts
      /\ \A u : Passed(u)' = Passed(u)
  <2>1. ts \in Nat \ {0} /\ ts < OpenEnded
    BY SnapshotIsTs, TsIsEarly, Zenon DEF PinInv
  <2>2. snapshot_ts' = ts /\ \A u : Passed(u)' = Passed(u)
    BY Zenon DEF snapshot_ts, Passed
  <2> QED
    BY <2>1, <2>2, Zenon
<1>1. IsChain(c) /\ DOMAIN c \subseteq DOMAIN hist[k] /\ DOMAIN hist[k] \subseteq 1..ts
  BY Zenon DEF KeyOK
<1>2. \A t \in DOMAIN c : t <= ts
  BY <1>1, SMTT(30)
<1>3. /\ IsChain(d) /\ DOMAIN d = DOMAIN c \cup {ts}
      /\ d[ts].val = v /\ \A t \in DOMAIN c \ {ts} : d[t].val = c[t].val
  <2> HIDE DEF c, ts
  <2>1. d = ChainInsert(c, ts, v)
    BY Zenon DEF c, ts
  <2>2. ts \in Nat \ {0} /\ ts < OpenEnded /\ IsChain(c)
    BY <1>0, <1>1, Zenon
  <2> HIDE DEF d
  <2>3. WithVersion(d, c, ts, v)
    BY <1>2, <2>1, <2>2, InsertKeepsChain, Zenon
  <2> QED
    BY <2>3, Zenon DEF WithVersion
<1>4. /\ DOMAIN hist'[k] = DOMAIN hist[k] \cup {ts}
      /\ hist'[k][ts] = v
      /\ \A t \in DOMAIN hist[k] \ {ts} : hist'[k][t] = hist[k][t]
  BY SMTT(30), Zenon DEF Recorded
<1>5. KeyOK(k)'
  <2>1. DOMAIN d \subseteq DOMAIN hist'[k] /\ DOMAIN hist'[k] \subseteq 1..snapshot_ts'
    <3> HIDE DEF d, c
    <3> QED
      BY <1>0, <1>1, <1>3, <1>4, SMTT(30)
  <2>2. ASSUME NEW t \in DOMAIN d PROVE d[t].val \in Val /\ hist'[k][t] = d[t].val
    <3>1. t # ts => c[t].val \in Val /\ hist[k][t] = c[t].val /\ t \in DOMAIN c
      BY <1>3, Zenon DEF KeyOK
    <3> HIDE DEF d, c
    <3> QED
      BY <1>1, <1>3, <1>4, <3>1, ZenonT(40)
  <2>3. ASSUME NEW t \in DOMAIN hist'[k] \ DOMAIN d
        PROVE  \E u \in DOMAIN d : t < u /\ Passed(u)'
    <3>1. t \in DOMAIN hist[k] \ DOMAIN c
      BY <1>3, <1>4, Zenon
    <3>2. \E u \in DOMAIN c : t < u /\ Passed(u)
      BY <3>1, Zenon DEF KeyOK
    <3> QED
      BY <1>0, <1>3, <3>2, Zenon
  <2> QED
    BY <1>3, <2>1, <2>2, <2>3, Zenon DEF KeyOK
<1>6. ASSUME gc.pc = "store", CopyOK(k) PROVE CopyOK(k)'
  <2>1. gc' = gc /\ since' = since /\ since \in Nat /\ since <= ts
    BY <1>6, Zenon DEF GcOK
  <2>2. /\ IsChain(gc.copy) /\ DOMAIN gc.copy \subseteq DOMAIN d
        /\ DOMAIN gc.copy \subseteq DOMAIN c
    BY <1>3, <1>6, Zenon DEF CopyOK
  <2>3. ASSUME NEW t \in DOMAIN gc.copy
        PROVE  gc.copy[t].val \in Val /\ (gc.copy[t].val = d[t].val \/ since <= t)
    <3>1. gc.copy[t].val \in Val /\ (gc.copy[t].val = c[t].val \/ since <= t)
      BY <1>6, Zenon DEF CopyOK
    <3> HIDE DEF d, c
    <3> QED
      BY <1>3, <2>1, <2>2, <3>1, Zenon
  <2>4. ASSUME NEW t \in DOMAIN d \ DOMAIN gc.copy
        PROVE  Newer(gc.copy, t) = {} /\ since <= t
    <3>1. CASE t = ts
      <4>1. \A u \in DOMAIN gc.copy : u \in Nat /\ u <= ts
        BY <1>1, <1>2, <2>2, Zenon DEF IsChain
      <4>2. \A u \in DOMAIN gc.copy : ~(u > ts)
        BY <1>0, <4>1, SMTT(30)
      <4> QED
        BY <2>1, <3>1, <4>2, Zenon DEF Newer
    <3>2. CASE t \in DOMAIN c
      BY <1>6, <3>2, Zenon DEF CopyOK
    <3> QED
      BY <1>3, <3>1, <3>2, Zenon
  <2>5. ASSUME NEW t \in DOMAIN hist'[k] \ DOMAIN d
        PROVE  \E u \in DOMAIN gc.copy : t < u /\ Passed(u)'
    <3>1. t \in DOMAIN hist[k] \ DOMAIN c
      BY <1>3, <1>4
    <3>2. \E u \in DOMAIN gc.copy : t < u /\ Passed(u)
      BY <1>6, <3>1, Zenon DEF CopyOK
    <3> QED
      BY <1>0, <3>2, Zenon
  <2> QED
    BY <2>1, <2>2, <2>3, <2>4, <2>5, Zenon DEF CopyOK
<1> QED
  BY <1>5, <1>6, Zenon

\* When the versions D of T are kept, and a later one at or before o of each of
\* the others, what a version of T covered one of D covers.
LEMMA StillCovered ==
  ASSUME PinInv, NEW T \in SUBSET Nat, NEW D \in SUBSET T, NEW o \in Nat, Passed(o),
         \A x \in T \ D : \E u \in D : x < u /\ u <= o,
         NEW t \in Nat, t \notin D, t \in T \/ \E u \in T : t < u /\ Passed(u)
  PROVE  \E u \in D : t < u /\ Passed(u)
<1>1. ASSUME NEW u \in Nat, u <= o PROVE Passed(u)
  <2>1. snapshot_ts \in Nat /\ o <= snapshot_ts
    BY SnapshotIsTs, Zenon DEF PinInv, Passed
  <2>2. ASSUME NEW r \in Reader, reader[r].safe PROVE u <= reader[r].ts
    <3>1. reader[r].ts \in Nat /\ o <= reader[r].ts
      BY <2>2, TsFacts, Zenon DEF PinInv, ReaderOK, Passed
    <3> QED
      BY <1>1, <3>1
  <2> QED
    BY <1>1, <2>1, <2>2 DEF Passed
<1>2. CASE t \in T
  BY <1>1, <1>2, Zenon
<1>3. ASSUME NEW x \in T, t < x, Passed(x) PROVE \E u \in D : t < u /\ Passed(u)
  <2>1. CASE x \in D
    BY <1>3, <2>1, Zenon
  <2>2. CASE x \notin D
    <3>1. PICK u \in D : x < u /\ u <= o
      BY <2>2, Zenon
    <3>2. t < u /\ u \in Nat
      BY <1>3, <3>1, SMTT(30)
    <3> QED
      BY <1>1, <3>1, <3>2, Zenon
  <2> QED
    BY <2>1, <2>2, Zenon
<1> QED
  BY <1>2, <1>3, Zenon

\* A key whose chain is collected under the lock.
LEMMA KeyCollected ==
  ASSUME PinInv, GcOK, gc.pc # "idle", NEW k \in Key, KeyOK(k),
         chains'[k] = ChainCollect(chains[k], gc.oldest),
         UNCHANGED <<commit_seq, reader, hist>>
  PROVE  KeyOK(k)'
<1> DEFINE c == chains[k]
           d == chains'[k]
           o == gc.oldest
<1>0. /\ o \in Nat /\ o < OpenEnded /\ Passed(o)
      /\ snapshot_ts' = snapshot_ts /\ \A u : Passed(u)' = Passed(u)
  <2>1. o \in Ts /\ Passed(o)
    BY SMTT(30), Zenon DEF GcOK
  <2> QED
    BY <2>1, TsFacts, TsIsEarly, ZenonT(30) DEF snapshot_ts, Passed
<1>1. IsChain(c)
  BY SMTT(30), Zenon DEF KeyOK
<1>2. /\ IsChain(d) /\ DOMAIN d \subseteq DOMAIN c
      /\ \A t \in DOMAIN d : d[t] = c[t]
      /\ \A t \in DOMAIN c \ DOMAIN d : \E u \in DOMAIN d : t < u /\ u <= o
  <2> HIDE DEF c, o
  <2>1. d = ChainCollect(c, o)
    BY SMTT(30), Zenon DEF c, o
  <2> HIDE DEF d
  <2> QED
    BY <1>0, <1>1, <2>1, CollectKeepsChain, Zenon
<1>3. ASSUME NEW t \in DOMAIN hist[k] \ DOMAIN d
      PROVE  \E u \in DOMAIN d : t < u /\ Passed(u)'
  <2>1. t \in Nat /\ (t \in DOMAIN c \/ \E u \in DOMAIN c : t < u /\ Passed(u))
    BY SnapshotIsTs, SMTT(30) DEF KeyOK, PinInv
  <2>2. DOMAIN c \subseteq Nat
    BY <1>1, Zenon DEF IsChain
  <2> HIDE DEF c, d, o
  <2> QED
    BY <1>0, <1>2, <2>1, <2>2, StillCovered, Zenon
<1> QED
  BY <1>0, <1>2, <1>3, Zenon DEF KeyOK

\* The pruned copy of a chain: it is in the chain, what it lacks is covered by
\* what it keeps or was applied during the collection.
LEMMA PrunedCopy ==
  ASSUME PinInv, GcOK, gc.pc = "store", NEW k \in gc.keys, KeyOK(k), CopyOK(k)
  PROVE  LET kept == ChainCollect(gc.copy, gc.oldest)
         IN  /\ IsChain(kept) /\ DOMAIN kept \subseteq DOMAIN gc.copy
             /\ \A t \in DOMAIN kept : kept[t] = gc.copy[t]
             /\ \A t \in DOMAIN gc.copy : Newer(gc.copy, t) = {} => t \in DOMAIN kept
             /\ \A t \in DOMAIN gc.copy \ DOMAIN kept :
                  \E u \in DOMAIN kept : t < u /\ u <= gc.oldest
<1> DEFINE c == gc.copy
           o == gc.oldest
<1>1. IsChain(c) /\ o \in Nat /\ o < OpenEnded
  BY TsFacts, TsIsEarly, Zenon DEF CopyOK, GcOK
<1> HIDE DEF c, o
<1>2. LET kept == ChainCollect(c, o)
      IN  /\ IsChain(kept) /\ DOMAIN kept \subseteq DOMAIN c
          /\ \A t \in DOMAIN kept : kept[t] = c[t]
          /\ \A t \in DOMAIN c : Newer(c, t) = {} => t \in DOMAIN kept
          /\ \A t \in DOMAIN c \ DOMAIN kept : \E u \in DOMAIN kept : t < u /\ u <= o
  BY <1>1, CollectKeepsChain, Zenon
<1> QED
  BY <1>2, Zenon DEF c, o

\* What StoreChain stores, and what it leaves of the history of k.
Kept == ChainCollect(gc.copy, gc.oldest)
Gone(k) == {t \in DOMAIN chains[k] : Newer(gc.copy, t) = {}} \ DOMAIN Kept
Undone(k) == {t \in DOMAIN Kept : Kept[t].val # chains[k][t].val}
Left(k) == [t \in DOMAIN hist[k] \ Gone(k) |->
              IF t \in Undone(k) THEN Kept[t].val ELSE hist[k][t]]

\* A key whose pruned copy is stored.
LEMMA KeyStored ==
  ASSUME PinInv, GcOK, gc.pc = "store", NEW k \in gc.keys, KeyOK(k), CopyOK(k),
         chains'[k] = Kept, hist'[k] = Left(k),
         UNCHANGED <<commit_seq, reader>>
  PROVE  KeyOK(k)'
<1> DEFINE c == chains[k]
           p == gc.copy
           o == gc.oldest
           kept == Kept
           gone == Gone(k)
           undone == Undone(k)
<1>0. /\ o \in Nat /\ Passed(o)
      /\ snapshot_ts' = snapshot_ts /\ \A u : Passed(u)' = Passed(u)
  <2>1. o \in Ts /\ Passed(o)
    BY SMTT(30), Zenon DEF GcOK
  <2> QED
    BY <2>1, TsFacts, ZenonT(30) DEF snapshot_ts, Passed
<1>1. /\ IsChain(kept) /\ DOMAIN kept \subseteq DOMAIN p
      /\ \A t \in DOMAIN kept : kept[t] = p[t]
      /\ \A t \in DOMAIN p : Newer(p, t) = {} => t \in DOMAIN kept
      /\ \A t \in DOMAIN p \ DOMAIN kept : \E u \in DOMAIN kept : t < u /\ u <= o
  BY PrunedCopy, Zenon DEF Kept
<1>2. /\ DOMAIN p \subseteq DOMAIN c /\ DOMAIN c \subseteq DOMAIN hist[k]
      /\ DOMAIN p \subseteq Nat /\ DOMAIN hist[k] \subseteq 1..snapshot_ts
      /\ \A t \in DOMAIN c \ DOMAIN p : Newer(p, t) = {}
      /\ \A t \in DOMAIN p : p[t].val \in Val
      /\ \A t \in DOMAIN c : hist[k][t] = c[t].val
      /\ \A t \in DOMAIN hist[k] \ DOMAIN c : \E u \in DOMAIN p : t < u /\ Passed(u)
  BY Zenon DEF KeyOK, CopyOK, IsChain
<1>3. gone = DOMAIN c \ DOMAIN p
  BY <1>1, <1>2, ZenonT(30) DEF Gone
<1>4. /\ DOMAIN hist'[k] = DOMAIN hist[k] \ gone
      /\ \A t \in DOMAIN hist'[k] :
           hist'[k][t] = IF t \in undone THEN kept[t].val ELSE hist[k][t]
      /\ undone = {t \in DOMAIN kept : kept[t].val # c[t].val}
  BY Zenon DEF Left, Undone
<1> HIDE DEF kept, gone, undone
<1>5. DOMAIN kept \subseteq DOMAIN hist'[k] /\ DOMAIN hist'[k] \subseteq 1..snapshot_ts'
  <2> HIDE DEF c, p
  <2> QED
    BY <1>0, <1>1, <1>2, <1>3, <1>4, ZenonT(40)
<1>6. ASSUME NEW t \in DOMAIN kept PROVE kept[t].val \in Val /\ hist'[k][t] = kept[t].val
  <2>1. hist'[k][t] = IF t \in undone THEN kept[t].val ELSE hist[k][t]
    BY <1>4, <1>5, ZenonT(40)
  <2>2. kept[t].val \in Val /\ hist[k][t] = c[t].val
    <3> HIDE DEF c, p
    <3> QED
      BY <1>1, <1>2, Zenon
  <2> QED
    BY <1>4, <2>1, <2>2, ZenonT(40)
<1>7. ASSUME NEW t \in DOMAIN hist'[k] \ DOMAIN kept
      PROVE  \E u \in DOMAIN kept : t < u /\ Passed(u)'
  <2>1. t \in Nat /\ (t \in DOMAIN p \/ \E u \in DOMAIN p : t < u /\ Passed(u))
    <3>1. snapshot_ts \in Nat
      BY SnapshotIsTs, Zenon DEF PinInv
    <3> HIDE DEF c, p
    <3> QED
      BY <1>2, <1>3, <1>4, <3>1
  <2>2. /\ DOMAIN p \in SUBSET Nat /\ DOMAIN kept \in SUBSET (DOMAIN p)
        /\ \A x \in DOMAIN p \ DOMAIN kept : \E u \in DOMAIN kept : x < u /\ u <= o
    BY <1>1, <1>2, Zenon
  <2>3. \E u \in DOMAIN kept : t < u /\ Passed(u)
    <3> DEFINE T == DOMAIN p
               D == DOMAIN kept
    <3>1. /\ T \in SUBSET Nat /\ D \in SUBSET T /\ t \in Nat /\ t \notin D
          /\ \A x \in T \ D : \E u \in D : x < u /\ u <= o
          /\ t \in T \/ \E u \in T : t < u /\ Passed(u)
          /\ o \in Nat /\ Passed(o)
      BY <1>0, <2>1, <2>2, Zenon
    <3> HIDE DEF T, D, o
    <3>2. \E u \in D : t < u /\ Passed(u)
      BY <3>1, StillCovered, SMTT(60)
    <3> QED
      BY <3>2, Zenon DEF D
  <2> QED
    BY <1>0, <2>3, ZenonT(40)
<1>8. chains'[k] = kept
  BY Zenon DEF kept
<1> QED
  BY <1>1, <1>5, <1>6, <1>7, <1>8, ZenonT(40) DEF KeyOK

\* Every step keeps the chains in order.
LEMMA ChainStep ==
  ASSUME PinInv, StepInv, ChainInv, [Next]_vars
  PROVE  ChainInv'
<1>0. /\ chains = [k \in Key |-> chains[k]] /\ hist = [k \in Key |-> hist[k]]
      /\ \A k \in Key : KeyOK(k)
      /\ gc.pc = "store" => \A k \in gc.keys : CopyOK(k)
      /\ GcOK /\ gc.keys \subseteq Key /\ gc.todo \subseteq Key
      /\ snapshot_ts \in Nat
  BY SnapshotIsTs, Zenon DEF ChainInv, StepInv, GcOK, PinInv
<1>1. \A u \in Nat : Passed(u) => Passed(u)'
  BY PassedStays, Zenon
<1>2. ASSUME UNCHANGED <<chains, hist, gc, since>>,
             snapshot_ts' \in Nat, snapshot_ts <= snapshot_ts'
      PROVE  ChainInv'
  <2>1. \A k \in Key : KeyOK(k)' /\ (CopyOK(k) /\ UNCHANGED <<gc, since>> => CopyOK(k)')
    BY <1>0, <1>1, <1>2, KeyStays, Zenon
  <2> QED
    BY <1>0, <1>2, <2>1, Zenon DEF ChainInv
<1>3. CASE Readers \/ UNCHANGED vars
  <2>1. UNCHANGED <<chains, hist, gc, since, commit_seq>>
    BY <1>3, Zenon DEF Readers, vars, memvars, gcvars, history
  <2>2. snapshot_ts' = snapshot_ts
    BY <2>1, Zenon DEF snapshot_ts
  <2> QED
    BY <1>0, <1>2, <2>1, <2>2
<1>4. CASE TakeTimestamp
  <2>1. UNCHANGED <<chains, hist, gc, since>>
    BY <1>4, Zenon DEF TakeTimestamp, gcvars
  <2>2. snapshot_ts' = snapshot_ts + 1
    BY <1>4 DEF TakeTimestamp, snapshot_ts, PinInv, SeqOK
  <2> QED
    BY <1>0, <1>2, <2>1, <2>2
<1>5. CASE ApplyUnderLock \/ ApplyOne
  <2>0. PICK K \in SUBSET Key : \E w \in [K -> Val] : Written(K, w)
    BY <1>5, ApplyWrites, Zenon
  <2>1. PICK w \in [K -> Val] : Written(K, w)
    BY <2>0, Zenon
  <2>2. UNCHANGED <<commit_seq, reader, gc, since>> /\ snapshot_ts' = snapshot_ts
    BY <2>1, Zenon DEF Written, snapshot_ts
  <2>3. ASSUME NEW k \in Key PROVE KeyOK(k)' /\ (gc.pc = "store" /\ CopyOK(k) => CopyOK(k)')
    <3>1. CASE k \in K
      <4>1. /\ writer.ts = snapshot_ts /\ snapshot_ts # 0 /\ w[k] \in Val
            /\ chains'[k] = ChainInsert(chains[k], snapshot_ts, w[k])
            /\ hist'[k] = Recorded(hist[k], w[k])
        BY <2>1, <3>1, Zenon DEF Written
      <4> QED
        BY <1>0, <2>2, <4>1, KeyWritten, Zenon
    <3>2. CASE k \notin K
      <4>1. chains'[k] = chains[k] /\ hist'[k] = hist[k]
        BY <2>1, <3>2, Zenon DEF Written
      <4> QED
        BY <1>0, <1>1, <2>2, <4>1, KeyStays, SMTT(30)
    <3> QED
      BY <3>1, <3>2, Zenon
  <2>4. chains' = [k \in Key |-> chains'[k]] /\ hist' = [k \in Key |-> hist'[k]]
    BY <2>1, Zenon DEF Written
  <2> QED
    BY <1>0, <2>2, <2>3, <2>4, Zenon DEF ChainInv
<1>6. CASE StartCollect
  <2>1. UNCHANGED <<chains, hist, commit_seq>> /\ gc'.pc = "sweep"
    BY <1>6, Zenon DEF StartCollect, memvars, history, IdleGc
  <2>2. snapshot_ts' = snapshot_ts
    BY <2>1, Zenon DEF snapshot_ts
  <2>3. \A k \in Key : KeyOK(k)'
    BY <1>0, <1>1, <2>1, <2>2, KeyStays
  <2> QED
    BY <1>0, <2>1, <2>3, Zenon DEF ChainInv
<1>7. CASE CollectUnderLock
  <2>1. /\ UNCHANGED <<commit_seq, reader, hist>> /\ gc.pc # "idle" /\ gc'.pc = "idle"
        /\ chains' = [k \in Key |-> ChainCollect(chains[k], gc.oldest)]
    BY <1>7, Zenon DEF CollectUnderLock, pinvars, history, IdleGc
  <2>2. ASSUME NEW k \in Key PROVE KeyOK(k)'
    <3>1. chains'[k] = ChainCollect(chains[k], gc.oldest)
      BY <2>1, Zenon
    <3> QED
      BY <1>0, <2>1, <3>1, KeyCollected, Zenon
  <2>3. chains' = [k \in Key |-> chains'[k]]
    BY <2>1, Zenon
  <2> QED
    BY <1>0, <2>1, <2>2, <2>3, Zenon DEF ChainInv
<1>8. CASE LoadChain
  <2>1. UNCHANGED <<chains, hist, commit_seq, reader, since>>
    BY <1>8, Zenon DEF LoadChain, memvars, history, pinvars
  <2>2. PICK k \in gc.todo : gc' = [gc EXCEPT !.pc = "store", !.todo = @ \ {k}, !.keys = {k},
                                              !.copy = chains[k]]
    BY <1>8, Zenon DEF LoadChain
  <2>3. gc'.keys = {k} /\ gc'.copy = chains[k] /\ k \in Key
    BY <1>0, <2>2, Zenon DEF GcOK
  <2>4. snapshot_ts' = snapshot_ts /\ \A u : Passed(u)' = Passed(u)
    BY <2>1, Zenon DEF snapshot_ts, Passed
  <2>5. \A q \in Key : KeyOK(q)'
    BY <1>0, <1>1, <2>1, <2>4, KeyStays, SMTT(30)
  <2>6. CopyOK(k)'
    <3>1. KeyOK(k)
      BY <1>0, <2>3, Zenon
    <3> QED
      BY <2>1, <2>3, <2>4, <3>1, Zenon DEF CopyOK, KeyOK
  <2> QED
    BY <1>0, <2>1, <2>3, <2>5, <2>6, Zenon DEF ChainInv
<1>9. CASE StoreChain
  <2>1. UNCHANGED <<commit_seq, reader>> /\ gc.pc = "store"
    BY <1>9, Zenon DEF StoreChain, pinvars
  <2>2. gc'.pc # "store"
    <3>1. gc' = IdleGc \/ gc' = [gc EXCEPT !.pc = "sweep", !.keys = {}, !.copy = EmptyChain]
      BY <1>9, Zenon DEF StoreChain
    <3>2. CASE gc' = IdleGc
      BY <3>2, Zenon DEF IdleGc
    <3>3. CASE gc' = [gc EXCEPT !.pc = "sweep", !.keys = {}, !.copy = EmptyChain]
      <4>1. gc' = [pc |-> "sweep", oldest |-> gc.oldest, todo |-> gc.todo, keys |-> {},
                   copy |-> EmptyChain]
        BY <1>0, <3>3, Zenon DEF GcOK
      <4> QED
        BY <4>1, Zenon
    <3> QED
      BY <3>1, <3>2, <3>3, Zenon
  <2>3. snapshot_ts' = snapshot_ts
    BY <2>1, Zenon DEF snapshot_ts
  <2>4. PICK k \in gc.keys :
          \/ UNCHANGED <<chains, history>>
          \/ /\ chains' = [chains EXCEPT ![k] = Kept]
             /\ hist' = [hist EXCEPT ![k] = Left(k)]
    BY <1>9, Zenon DEF StoreChain, Kept, Left, Gone, Undone
  <2>5. k \in Key /\ KeyOK(k) /\ CopyOK(k)
    BY <1>0, <2>1, Zenon
  <2>6. CASE UNCHANGED <<chains, history>>
    <3>1. \A q \in Key : KeyOK(q)'
      BY <1>0, <1>1, <2>3, <2>6, KeyStays DEF history
    <3> QED
      BY <1>0, <2>2, <2>6, <3>1, Zenon DEF ChainInv, history
  <2>7. CASE ~UNCHANGED <<chains, history>>
    <3>1. chains' = [chains EXCEPT ![k] = Kept] /\ hist' = [hist EXCEPT ![k] = Left(k)]
      BY <2>4, <2>7, Zenon
    <3>2. /\ chains'[k] = Kept /\ hist'[k] = Left(k)
          /\ \A q \in Key : q # k => chains'[q] = chains[q] /\ hist'[q] = hist[q]
          /\ chains' = [q \in Key |-> chains'[q]] /\ hist' = [q \in Key |-> hist'[q]]
      BY <1>0, <2>5, <3>1, ZenonT(30)
    <3>3. KeyOK(k)'
      BY <1>0, <2>1, <2>5, <3>2, KeyStored, Zenon
    <3>4. ASSUME NEW q \in Key PROVE KeyOK(q)'
      <4>1. CASE q = k
        BY <3>3, <4>1, Zenon
      <4>2. CASE q # k
        BY <1>0, <1>1, <2>3, <3>2, <4>2, KeyStays, SMTT(30)
      <4> QED
        BY <4>1, <4>2, Zenon
    <3> QED
      BY <2>2, <3>2, <3>4, Zenon DEF ChainInv
  <2> QED
    BY <2>6, <2>7, Zenon
<1> QED
  BY <1>3, <1>4, <1>5, <1>6, <1>7, <1>8, <1>9, ZenonT(40) DEF Next, Writer, Collector

\* Before the first step there are no versions, no commit and no collection.
LEMMA ChainStart == Init => StepInv /\ ChainInv
<1> SUFFICES ASSUME Init PROVE StepInv /\ ChainInv
  BY SMTT(30), Zenon
<1>1. StepInv
  BY BackendAssumption, Zenon DEF Init, StepInv, WriterOK, GcOK, IdleWriter, IdleGc
<1>2. ASSUME NEW k \in Key PROVE KeyOK(k)
  <2>1. chains[k] = EmptyChain /\ DOMAIN hist[k] = {}
    BY Zenon DEF Init
  <2>2. DOMAIN EmptyChain = {} /\ EmptyChain = [t \in DOMAIN EmptyChain |-> EmptyChain[t]]
    BY Zenon DEF EmptyChain
  <2>3. IsChain(EmptyChain)
    BY <2>2, Zenon DEF IsChain
  <2> QED
    BY <2>1, <2>2, <2>3, Zenon DEF KeyOK
<1> QED
  BY <1>1, <1>2, Zenon DEF ChainInv, Init, IdleGc

-----------------------------------------------------------------------------
(* The theorems *)

Inv == PinInv /\ StepInv /\ ChainInv

\* The inductive invariant holds throughout.
LEMMA Invariance == Spec => []Inv
<1>1. Init => Inv
  BY PinStart, ChainStart, Zenon DEF Inv
<1>2. Inv /\ [Next]_vars => Inv'
  BY PinStep, RecordStep, ChainStep, Zenon DEF Inv
<1> QED
  BY <1>1, <1>2, PTL DEF Spec

\* A protected snapshot reads the newest version applied up to it, whatever
\* commits, other readers and garbage collection do meanwhile: versions that
\* have left a chain are covered by one that is in it.
THEOREM PinnedReadsAlwaysExact == Spec => []PinnedReadsExact
<1>1. ASSUME Inv, NEW r \in Reader, NEW k \in Key, reader[r].open, reader[r].safe
      PROVE  LET got == ChainGet(chains[k], reader[r].ts)
             IN  IF got.found THEN /\ Due(k, reader[r].ts, got.begin)
                                   /\ got.val = hist[k][got.begin]
                 ELSE \A t \in DOMAIN hist[k] : t > reader[r].ts
  <2> DEFINE s == reader[r].ts
             c == chains[k]
             got == ChainGet(c, s)
  <2>1. s \in Nat /\ s < OpenEnded
    BY <1>1, TsFacts, TsIsEarly, ZenonT(30) DEF Inv, PinInv, ReaderOK
  <2>2. /\ IsChain(c) /\ DOMAIN c \subseteq DOMAIN hist[k]
        /\ DOMAIN hist[k] \subseteq Nat
        /\ \A t \in DOMAIN c : hist[k][t] = c[t].val
        /\ \A t \in DOMAIN hist[k] \ DOMAIN c : \E u \in DOMAIN c : t < u /\ u <= s
    BY <1>1, SnapshotIsTs, SMTT(30) DEF Inv, ChainInv, KeyOK, Passed, PinInv
  <2>3. \/ /\ \A t \in DOMAIN c : ~(t <= s)
           /\ ~got.found
        \/ /\ got.found
           /\ NewestAt(c, s, got.begin)
           /\ got.val = c[got.begin].val
    <3> HIDE DEF s, c
    <3> QED
      BY <2>1, <2>2, GetIsNewest, Zenon
  <2> HIDE DEF got
  <2>4. CASE ~got.found
    <3>1. \A t \in DOMAIN c : ~(t <= s)
      BY <2>3, <2>4, Zenon
    <3>2. \A t \in DOMAIN hist[k] : t \in DOMAIN c
      BY <2>2, <3>1, Zenon
    <3>3. \A t \in DOMAIN hist[k] : t > s
      BY <2>1, <2>2, <3>1, <3>2, SMTT(30)
    <3> QED
      BY <2>4, <3>3, Zenon DEF got
  <2>5. CASE got.found
    <3> DEFINE b == got.begin
    <3>1. b \in DOMAIN c /\ b <= s /\ got.val = c[b].val /\ \A u \in DOMAIN c : u <= s => u <= b
      BY <2>3, <2>5, Zenon DEF NewestAt
    <3> HIDE DEF b
    <3>2. b \in Nat /\ b \in DOMAIN hist[k] /\ got.val = hist[k][b]
      BY <2>2, <3>1, Zenon
    <3>3. ASSUME NEW u \in DOMAIN hist[k], u <= s PROVE u <= b
      <4>1. CASE u \in DOMAIN c
        BY <3>1, <3>3, <4>1, Zenon
      <4>2. CASE u \notin DOMAIN c
        <5>1. PICK x \in DOMAIN c : u < x /\ x <= s
          BY <2>2, <4>2, Zenon
        <5>2. x <= b /\ x \in Nat /\ u \in Nat
          BY <2>2, <3>1, <5>1, Zenon
        <5> QED
          BY <3>2, <5>1, <5>2
      <4> QED
        BY <4>1, <4>2, Zenon
    <3>4. Due(k, s, got.begin) /\ got.val = hist[k][got.begin]
      BY <3>1, <3>2, <3>3, Zenon DEF Due, b
    <3> QED
      BY <2>5, <3>4, Zenon DEF got
  <2> QED
    BY <2>4, <2>5, Zenon
<1>2. Inv => PinnedReadsExact
  BY <1>1, Zenon DEF PinnedReadsExact
<1> QED
  BY <1>2, Invariance, PTL

-----------------------------------------------------------------------------
(* The map *)

\* What the refinement shows MvccMap of the chains and of the guards.
Store == [k \in Key |-> [t \in DOMAIN chains[k] |-> chains[k][t].val]]
Snap == [r \in Reader |-> IF reader[r].safe THEN reader[r].ts ELSE -1]

\* The first state of the memtable is one of the map.
LEMMA MapStart == Init => Abs!Init
<1> SUFFICES ASSUME Init PROVE Abs!Init
  OBVIOUS
<1>1. ASSUME NEW k \in Key
      PROVE  [t \in DOMAIN chains[k] |-> chains[k][t].val] = [t \in {} |-> "none"]
  <2>1. DOMAIN chains[k] = {}
    BY Zenon DEF Init, EmptyChain
  <2> QED
    BY <2>1, Zenon
<1>2. Store = [k \in Key |-> [t \in {} |-> "none"]]
  BY <1>1, Zenon DEF Store
<1>3. Snap = [r \in Reader |-> -1]
  BY Zenon DEF Init, Snap
<1>4. snapshot_ts = 0
  BY DEF Init, snapshot_ts
<1> QED
  BY <1>2, <1>3, <1>4, Zenon DEF Abs!Init, Abs!Empty, Abs!NoSnapshot, Init, Store, Snap

\* Making and dropping guards are steps of the readers of the map; a guard on
\* an unprotected timestamp shows it nothing.
LEMMA MapReaders ==
  ASSUME Inv, Readers
  PROVE  \/ \E r \in Reader : Abs!BeginRead(r) \/ Abs!EndRead(r)
         \/ \E r, q \in Reader : Abs!ShareRead(r, q)
         \/ UNCHANGED Abs!vars
<1>0. /\ reader \in [Reader -> [open : BOOLEAN, ts : Ts, safe : BOOLEAN]]
      /\ \A r \in Reader : reader[r].safe => reader[r].open
      /\ Ts \subseteq Nat
  BY TsFacts, Zenon DEF Inv, PinInv, ReaderOK
<1>1. Store' = Store /\ snapshot_ts' = snapshot_ts /\ UNCHANGED <<backend, since>>
  BY Zenon DEF Readers, memvars, gcvars, Store, snapshot_ts
<1>2. PICK r \in Reader : \/ begin_read(r)
                          \/ \E ts \in Ts : pin_snapshot(r, ts)
                          \/ unpin_snapshot(r)
  BY Zenon DEF Readers
<1>3. /\ \A q \in Reader : Snap[q] = IF reader[q].safe THEN reader[q].ts ELSE -1
      /\ \A q \in Reader : Snap[q] # -1 <=> reader[q].safe
  BY <1>0 DEF Snap
<1>4. CASE begin_read(r)
  <2>1. reader' = [reader EXCEPT ![r] = [open |-> TRUE, ts |-> snapshot_ts, safe |-> TRUE]]
    BY <1>4, Zenon DEF begin_read
  <2>2. Snap[r] = -1 /\ Snap' = [Snap EXCEPT ![r] = snapshot_ts]
    <3>1. ~reader[r].open /\ snapshot_ts \in Nat
      BY <1>4, SnapshotIsTs, Zenon DEF begin_read, Inv, PinInv
    <3>2. Snap[r] = -1
      BY <1>0, <1>3, <3>1, Zenon
    <3>3. Snap' = [Snap EXCEPT ![r] = snapshot_ts]
      BY <1>0, <2>1, <3>1, ZenonT(30) DEF Snap
    <3> QED
      BY <3>2, <3>3, Zenon
  <2>3. Abs!BeginRead(r)
    BY <1>1, <2>2, Zenon DEF Abs!BeginRead, Abs!NoSnapshot, Store, Snap
  <2> QED
    BY <2>3, Zenon
<1>5. ASSUME NEW ts \in Ts, pin_snapshot(r, ts)
      PROVE  (\E q \in Reader : Abs!ShareRead(r, q)) \/ UNCHANGED Abs!vars
  <2>0. ~reader[r].open
    BY <1>5, Zenon DEF pin_snapshot
  <2>1. CASE \E q \in Reader : reader[q].open /\ reader[q].safe /\ reader[q].ts = ts
    <3>1. PICK q \in Reader : reader[q].open /\ reader[q].safe /\ reader[q].ts = ts
      BY <2>1, Zenon
    <3>2. reader' = [reader EXCEPT ![r] = [open |-> TRUE, ts |-> ts, safe |-> TRUE]]
      BY <1>5, <2>1, Zenon DEF pin_snapshot
    <3>3. /\ Snap[r] = -1 /\ Snap[q] # -1 /\ Snap[q] = ts
          /\ Snap' = [Snap EXCEPT ![r] = ts]
      BY <1>0, <1>3, <2>0, <3>1, <3>2, ZenonT(40) DEF Snap
    <3>4. Abs!ShareRead(r, q)
      BY <1>1, <3>3, ZenonT(30) DEF Abs!ShareRead, Abs!NoSnapshot, Store, Snap
    <3> QED
      BY <3>4, Zenon
  <2>2. CASE ~\E q \in Reader : reader[q].open /\ reader[q].safe /\ reader[q].ts = ts
    <3>1. reader' = [reader EXCEPT ![r] = [open |-> TRUE, ts |-> ts, safe |-> FALSE]]
      BY <1>5, <2>2, Zenon DEF pin_snapshot
    <3>2. Snap' = Snap
      BY <1>0, <2>0, <3>1, Zenon DEF Snap
    <3> QED
      BY <1>1, <3>2, Zenon DEF Abs!vars, Store, Snap
  <2> QED
    BY <2>1, <2>2, Zenon
<1>6. CASE unpin_snapshot(r)
  <2>1. reader' = [reader EXCEPT ![r] = [open |-> FALSE, ts |-> 0, safe |-> FALSE]]
    BY <1>6, Zenon DEF unpin_snapshot
  <2>2. Snap' = [Snap EXCEPT ![r] = -1]
    BY <1>0, <2>1, Zenon DEF Snap
  <2>3. CASE reader[r].safe
    <3>1. Abs!EndRead(r)
      BY <1>1, <1>3, <2>2, <2>3, Zenon DEF Abs!EndRead, Abs!NoSnapshot, Store, Snap
    <3> QED
      BY <3>1, Zenon
  <2>4. CASE ~reader[r].safe
    <3>1. Snap' = Snap
      BY <1>0, <2>1, <2>4, Zenon DEF Snap
    <3> QED
      BY <1>1, <3>1, Zenon DEF Abs!vars, Store, Snap
  <2> QED
    BY <2>3, <2>4, Zenon
<1> QED
  BY <1>2, <1>4, <1>5, <1>6, Zenon

\* Applying mutations is applying writes of the latest commit.
LEMMA MapApply ==
  ASSUME Inv, ApplyUnderLock \/ ApplyOne
  PROVE  \E K \in SUBSET Key : \E writes \in [K -> Val] : Abs!Apply(writes)
<1>0. PICK K \in SUBSET Key : \E w \in [K -> Val] : Written(K, w)
  BY ApplyWrites, Zenon DEF Inv
<1>1. PICK w \in [K -> Val] : Written(K, w)
  BY <1>0, Zenon
<1>2. Snap' = Snap /\ snapshot_ts' = snapshot_ts /\ UNCHANGED <<backend, since>>
  BY <1>1, Zenon DEF Written, Snap, snapshot_ts
<1>3. ASSUME NEW k \in K
      PROVE  [t \in DOMAIN chains'[k] |-> chains'[k][t].val] =
             [t \in DOMAIN chains[k] \cup {snapshot_ts} |->
                IF t = snapshot_ts THEN w[k] ELSE chains[k][t].val]
  <2> DEFINE c == chains[k]
             d == chains'[k]
             ts == snapshot_ts
             v == w[k]
  <2>1. ts \in Nat \ {0} /\ ts < OpenEnded /\ d = ChainInsert(c, ts, v)
    BY <1>1, SnapshotIsTs, TsIsEarly, ZenonT(40) DEF Written, Inv, PinInv
  <2>2. IsChain(c) /\ \A t \in DOMAIN c : t <= ts
    BY <2>1 DEF Inv, ChainInv, KeyOK
  <2> HIDE DEF c, d, ts, v
  <2>3. /\ DOMAIN d = DOMAIN c \cup {ts} /\ d[ts].val = v
        /\ \A t \in DOMAIN c \ {ts} : d[t].val = c[t].val
    <3>1. WithVersion(d, c, ts, v)
      BY <2>1, <2>2, InsertKeepsChain, Zenon
    <3> QED
      BY <3>1, Zenon DEF WithVersion
  <2>4. [t \in DOMAIN d |-> d[t].val] =
        [t \in DOMAIN c \cup {ts} |-> IF t = ts THEN v ELSE c[t].val]
    BY <2>3, Zenon
  <2> QED
    BY <2>4, Zenon DEF c, d, ts, v
<1>4. ASSUME NEW k \in Key, k \notin K PROVE chains'[k] = chains[k]
  BY <1>1, <1>4, Zenon DEF Written
<1>5. DOMAIN w = K
  BY SMTT(30), Zenon
<1>6. Store' = [k \in Key |->
                  IF k \notin DOMAIN w THEN Store[k]
                  ELSE [t \in DOMAIN Store[k] \cup {snapshot_ts} |->
                          IF t = snapshot_ts THEN w[k] ELSE Store[k][t]]]
  <2>1. ASSUME NEW k \in Key
        PROVE  Store'[k] = IF k \notin DOMAIN w THEN Store[k]
                           ELSE [t \in DOMAIN Store[k] \cup {snapshot_ts} |->
                                   IF t = snapshot_ts THEN w[k] ELSE Store[k][t]]
    <3>0. /\ Store'[k] = [t \in DOMAIN chains'[k] |-> chains'[k][t].val]
          /\ Store[k] = [t \in DOMAIN chains[k] |-> chains[k][t].val]
          /\ DOMAIN Store[k] = DOMAIN chains[k]
          /\ \A t \in DOMAIN chains[k] : Store[k][t] = chains[k][t].val
      BY Zenon DEF Store
    <3>1. CASE k \in K
      <4>1. [t \in DOMAIN chains[k] \cup {snapshot_ts} |->
               IF t = snapshot_ts THEN w[k] ELSE chains[k][t].val] =
            [t \in DOMAIN Store[k] \cup {snapshot_ts} |->
               IF t = snapshot_ts THEN w[k] ELSE Store[k][t]]
        BY <3>0, Zenon
      <4>2. Store'[k] = [t \in DOMAIN Store[k] \cup {snapshot_ts} |->
                           IF t = snapshot_ts THEN w[k] ELSE Store[k][t]]
        BY <1>3, <3>0, <3>1, <4>1, ZenonT(30)
      <4> QED
        BY <1>5, <3>1, <4>2, Zenon
    <3>2. CASE k \notin K
      BY <1>4, <1>5, <3>0, <3>2, ZenonT(40)
    <3> QED
      BY <3>1, <3>2, Zenon
  <2> QED
    BY <2>1, ZenonT(30) DEF Store
<1>7. Abs!Apply(w)
  BY <1>2, <1>6, ZenonT(30) DEF Abs!Apply, Store, Snap
<1> QED
  BY <1>7, Zenon

\* A version with a newer one that every snapshot has passed is forgettable.
LEMMA MapForgets ==
  ASSUME Inv, NEW k \in Key, NEW t \in DOMAIN chains[k], NEW u \in DOMAIN chains[k],
         t < u, u <= gc.oldest, gc.pc # "idle"
  PROVE  Abs!Forgettable(k, t)
<1>1. gc.oldest \in Nat /\ Passed(gc.oldest) /\ u \in Nat /\ snapshot_ts \in Nat
  BY TsFacts, SnapshotIsTs, Zenon DEF Inv, StepInv, GcOK, ChainInv, KeyOK, IsChain, PinInv
<1>2. u <= snapshot_ts
  BY <1>1, SMTT(30) DEF Passed
<1>3. ASSUME NEW r \in Reader, Snap[r] # -1 PROVE u <= Snap[r]
  <2>1. reader[r].safe /\ Snap[r] = reader[r].ts
    BY <1>3, Zenon DEF Snap
  <2>2. reader[r].ts \in Nat /\ gc.oldest <= reader[r].ts
    BY <1>1, <2>1, TsFacts, ZenonT(30) DEF Passed, Inv, PinInv, ReaderOK
  <2> QED
    BY <1>1, <2>1, <2>2
<1>4. u \in DOMAIN Store[k]
  BY Zenon DEF Store
<1>5. \E x \in DOMAIN Store[k] : /\ t < x /\ x <= snapshot_ts
                                 /\ \A r \in Reader : Snap[r] # -1 => x <= Snap[r]
  BY <1>2, <1>3, <1>4, Zenon
<1> QED
  BY <1>5, Zenon DEF Abs!Forgettable, Abs!NoSnapshot, Store, Snap

\* A collection under the lock forgets only what it may.
LEMMA MapCollect ==
  ASSUME Inv, CollectUnderLock
  PROVE  Abs!Collect
<1>0. /\ Snap' = Snap /\ snapshot_ts' = snapshot_ts /\ UNCHANGED backend /\ since' = -1
      /\ gc.pc # "idle" /\ chains' = [k \in Key |-> ChainCollect(chains[k], gc.oldest)]
  BY SMTT(30), Zenon DEF CollectUnderLock, pinvars, Snap, snapshot_ts
<1>1. ASSUME NEW k \in Key PROVE Abs!Remains(k, Store'[k])
  <2> DEFINE c == chains[k]
             d == chains'[k]
             o == gc.oldest
  <2>1. o \in Nat /\ o < OpenEnded /\ d = ChainCollect(c, o) /\ IsChain(c)
    BY <1>0, TsFacts, TsIsEarly, Zenon DEF Inv, StepInv, GcOK, ChainInv, KeyOK
  <2>2. /\ DOMAIN d \subseteq DOMAIN c
        /\ \A t \in DOMAIN d : d[t] = c[t]
        /\ \A t \in DOMAIN c \ DOMAIN d : \E u \in DOMAIN d : t < u /\ u <= o
    <3> HIDE DEF c, d, o
    <3> QED
      BY <2>1, CollectKeepsChain, Zenon
  <2>3. \A t \in DOMAIN c \ DOMAIN d : Abs!Forgettable(k, t)
    BY <1>0, <2>2, MapForgets, Zenon
  <2>4. /\ DOMAIN Store[k] = DOMAIN c /\ DOMAIN Store'[k] = DOMAIN d
        /\ \A t \in DOMAIN d : Store'[k][t] = Store[k][t]
    BY <2>2, Zenon DEF Store
  <2>5. /\ DOMAIN Store'[k] \subseteq DOMAIN Store[k]
        /\ \A t \in DOMAIN Store[k] \ DOMAIN Store'[k] : Abs!Forgettable(k, t)
        /\ \A t \in DOMAIN Store'[k] : Store'[k][t] = Store[k][t]
    BY <2>2, <2>3, <2>4, Zenon
  <2> QED
    BY <2>5, ZenonT(30) DEF Abs!Remains, Store
<1>2. DOMAIN Store' = Key
  BY SMTT(30), Zenon DEF Store
<1> QED
  BY <1>0, <1>1, <1>2, ZenonT(30) DEF Abs!Collect, Store, Snap

\* A pruned copy forgets what it may, and loses what was applied meanwhile.
LEMMA MapStore ==
  ASSUME Inv, StoreChain
  PROVE  Abs!Collect
<1>0. /\ Snap' = Snap /\ snapshot_ts' = snapshot_ts /\ UNCHANGED backend
      /\ since' \in {-1, since} /\ gc.pc = "store"
  BY Zenon DEF StoreChain, pinvars, Snap, snapshot_ts
<1>1. PICK q \in gc.keys : chains' = chains \/ chains' = [chains EXCEPT ![q] = Kept]
  BY Zenon DEF StoreChain, Kept
<1>2. /\ q \in Key /\ KeyOK(q) /\ CopyOK(q) /\ backend = "SkipMap" /\ since \in Nat
      /\ chains = [k \in Key |-> chains[k]]
  BY <1>0, Zenon DEF Inv, StepInv, GcOK, ChainInv
<1>3. ASSUME NEW k \in Key, chains'[k] = chains[k] PROVE Abs!Remains(k, Store'[k])
  <2>1. Store'[k] = Store[k]
    BY <1>3, Zenon DEF Store
  <2> QED
    BY <2>1, ZenonT(30) DEF Abs!Remains, Store
<1>4. ASSUME chains'[q] = Kept PROVE Abs!Remains(q, Store'[q])
  <2> DEFINE c == chains[q]
             p == gc.copy
             d == Kept
  <2>1. /\ DOMAIN d \subseteq DOMAIN p
        /\ \A t \in DOMAIN d : d[t] = p[t]
        /\ \A t \in DOMAIN p \ DOMAIN d : \E u \in DOMAIN d : t < u /\ u <= gc.oldest
    BY <1>0, <1>2, PrunedCopy, Zenon DEF Kept, Inv, StepInv
  <2>2. /\ DOMAIN p \subseteq DOMAIN c
        /\ \A t \in DOMAIN p : p[t].val \in Val /\ (p[t].val = c[t].val \/ since <= t)
        /\ \A t \in DOMAIN c \ DOMAIN p : since <= t
        /\ DOMAIN c \subseteq Nat
    BY <1>2, Zenon DEF CopyOK, KeyOK, IsChain
  <2>3. \A t \in DOMAIN p \ DOMAIN d : Abs!Forgettable(q, t)
    BY <1>0, <1>2, <2>1, <2>2, MapForgets, ZenonT(40)
  <2>4. ASSUME NEW t \in Nat, since <= t PROVE Abs!Exposed(t)
    BY <1>2, <2>4 DEF Abs!Exposed
  <2>5. /\ DOMAIN Store[q] = DOMAIN c /\ DOMAIN Store'[q] = DOMAIN d
        /\ \A t \in DOMAIN d : Store'[q][t] = d[t].val /\ Store[q][t] = c[t].val
    BY <1>2, <1>4, <2>1, <2>2, Zenon DEF Store
  <2>6. \A t \in DOMAIN Store[q] \ DOMAIN Store'[q] : Abs!Forgettable(q, t) \/ Abs!Exposed(t)
    <3> HIDE DEF c, p, d
    <3> QED
      BY <2>2, <2>3, <2>4, <2>5, ZenonT(30)
  <2>7. \A t \in DOMAIN Store'[q] :
          Store'[q][t] = Store[q][t] \/ (Abs!Exposed(t) /\ Store'[q][t] \in Val)
    <3> HIDE DEF c, p, d
    <3> QED
      BY <2>1, <2>2, <2>4, <2>5, SMTT(30)
  <2>8. DOMAIN Store'[q] \subseteq DOMAIN Store[q]
    BY <2>1, <2>2, <2>5, Zenon
  <2> QED
    BY <2>6, <2>7, <2>8, ZenonT(30) DEF Abs!Remains, Store
<1>5. ASSUME NEW k \in Key PROVE Abs!Remains(k, Store'[k])
  <2>1. chains'[k] = chains[k] \/ (k = q /\ chains'[q] = Kept)
    BY <1>1, <1>2, Zenon
  <2> QED
    BY <1>3, <1>4, <2>1, Zenon
<1>6. DOMAIN Store' = Key
  BY Zenon DEF Store
<1> QED
  BY <1>0, <1>5, <1>6, Zenon DEF Abs!Collect, Store, Snap

\* Every step of the memtable is a step of the map, or shows it nothing.
LEMMA MapStep ==
  ASSUME Inv, [Next]_vars
  PROVE  [Abs!Next]_(Abs!vars)
<1>1. CASE Readers
  BY <1>1, MapReaders, Zenon DEF Abs!Next
<1>2. CASE TakeTimestamp
  <2>1. /\ Store' = Store /\ Snap' = Snap /\ UNCHANGED <<backend, since>>
        /\ snapshot_ts' = snapshot_ts + 1
    BY <1>2, SMTT(30) DEF TakeTimestamp, pinvars, gcvars, Store, Snap, snapshot_ts, Inv, PinInv, SeqOK
  <2>2. Abs!BeginCommit
    BY <2>1, Zenon DEF Abs!BeginCommit, Store, Snap
  <2> QED
    BY <2>2, Zenon DEF Abs!Next
<1>3. CASE ApplyUnderLock \/ ApplyOne
  BY <1>3, MapApply, Zenon DEF Abs!Next
<1>4. CASE StartCollect
  <2>1. /\ Store' = Store /\ Snap' = Snap /\ UNCHANGED backend
        /\ snapshot_ts' = snapshot_ts /\ since' = snapshot_ts
    BY <1>4, Zenon DEF StartCollect, memvars, pinvars, Store, Snap, snapshot_ts
  <2>2. Abs!BeginCollect
    BY <2>1, Zenon DEF Abs!BeginCollect, Store, Snap
  <2> QED
    BY <2>2, Zenon DEF Abs!Next
<1>5. CASE CollectUnderLock
  BY <1>5, MapCollect, Zenon DEF Abs!Next
<1>6. CASE StoreChain
  BY <1>6, MapStore, Zenon DEF Abs!Next
<1>7. CASE LoadChain \/ UNCHANGED vars
  <2>1. UNCHANGED <<chains, reader, commit_seq, backend, since>>
    BY <1>7, Zenon DEF LoadChain, vars, memvars, pinvars, gcvars
  <2> QED
    BY <2>1, Zenon DEF Abs!vars, snapshot_ts
<1> QED
  BY <1>1, <1>2, <1>3, <1>4, <1>5, <1>6, <1>7, ZenonT(40) DEF Next, Writer, Collector

\* The memtable implements the multi-version map: on either backend, whatever
\* interleaves, a version goes only when no snapshot in use or to come reads
\* it, or when it was applied while the SkipMap backend collected.
THEOREM MemtableImplementsMap == Spec => ImplementsMap
<1>1. Inv /\ [Next]_vars => [Abs!Next]_(Abs!vars)
  BY MapStep, Zenon
<1> QED
  BY <1>1, MapStart, Invariance, PTL DEF Spec, ImplementsMap, Abs!Spec
=============================================================================
