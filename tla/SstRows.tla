------------------------------- MODULE SstRows -------------------------------
(***************************************************************************)
(* Rows of an SST file and what the engine computes from them: the reads   *)
(* of crates/hatp-engine/src/vortex_sst.rs, the key index of key_index.rs, *)
(* and the merge and the row counts of lib.rs.                             *)
(*                                                                         *)
(* A row is a version of a key: [key, begin, end, val].  A file is the set *)
(* of its rows; FileOf is the order in which they are written.             *)
(***************************************************************************)
EXTENDS Integers, Sequences, FiniteSets

RowBefore(r, s) == r.key < s.key \/ (r.key = s.key /\ r.begin > s.begin)

\* Keys ascending, the versions of a key newest first: the order in which the
\* memtable is drained and a merge sorts.
FileOf(S) ==
  [i \in 1..Cardinality(S) |->
     CHOOSE r \in S : Cardinality({s \in S : RowBefore(s, r)}) = i - 1]

\* visible_at, which get, scan and scan_to_arrow_batches push into their filter.
Visible(r, ts) == r.begin <= ts /\ ts < r.end

\* get, at most one row, the first in the file that the filter lets through: a
\* tombstone is returned like any other version.
SstGet(S, k, ts) ==
  LET hits == {r \in S : r.key = k /\ Visible(r, ts)}
  IN  {r \in hits : \A s \in hits : s.begin <= r.begin}

\* KeyIndex::get, at most one row: binary search that stops at the first probe
\* with the key, whichever of its versions that is.
IndexGet(S, k) ==
  LET file == FileOf(S)
      Search[lo \in 0..Len(file), hi \in 0..Len(file)] ==
        IF lo >= hi THEN {}
        ELSE LET mid == lo + (hi - lo) \div 2
                 row == file[mid + 1]
             IN  IF row.key < k THEN Search[mid + 1, hi]
                 ELSE IF row.key > k THEN Search[lo, mid]
                 ELSE {row}
  IN  Search[0, Len(file)]

\* insert_newest for each of the rows of S: one row per key, the one with the
\* greatest begin.  What is kept of a row leaves its end out.
MergeNewest(acc, S) ==
  LET all == acc \cup {[key |-> r.key, begin |-> r.begin, val |-> r.val] : r \in S}
  IN  {r \in all : \A s \in all : s.key = r.key => s.begin <= r.begin}

\* Fault: a version that ends where the watermark is, plus one, is dropped.
DedupSuperseded_Early(S, watermark, open) ==
  LET Newer(r) == {s.begin : s \in {x \in S : x.key = r.key /\ x.begin > r.begin}}
      End(r) == IF Newer(r) = {} THEN open
                ELSE CHOOSE b \in Newer(r) : \A c \in Newer(r) : b <= c
  IN  {[key |-> r.key, begin |-> r.begin, end |-> End(r), val |-> r.val] :
         r \in {x \in S : Newer(x) = {} \/ End(x) > watermark + 1}}

\* dedup_superseded: the ends are recomputed from the begins; the newest
\* version of a key stays, older ones while they end after the watermark.
DedupSuperseded(S, watermark, open) ==
  LET Newer(r) == {s.begin : s \in {x \in S : x.key = r.key /\ x.begin > r.begin}}
      End(r) == IF Newer(r) = {} THEN open
                ELSE CHOOSE b \in Newer(r) : \A c \in Newer(r) : b <= c
  IN  {[key |-> r.key, begin |-> r.begin, end |-> End(r), val |-> r.val] :
         r \in {x \in S : Newer(x) = {} \/ End(x) > watermark}}

\* count_rows_by_prefix, for the keys of one table.
CountIn(S, keys) == Cardinality({r \in S : r.key \in keys})
=============================================================================
