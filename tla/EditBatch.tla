------------------------------ MODULE EditBatch ------------------------------
(***************************************************************************)
(* Batches of version edits, in crates/hatp-engine/src/manifest.rs: what   *)
(* one makes of a version set, and the one that rebuilds it.               *)
(***************************************************************************)
EXTENDS VersionSet, Sequences
LOCAL INSTANCE SequencesExt

\* applied: the edits of a batch, in order.
VsApplied(vs, edits) == FoldLeft(VsApply, vs, edits)

\* levels() in the order of its BTreeMap of BTreeSets.
VsListed(vs) ==
  SetToSortSeq(vs.levels,
               LAMBDA p, q : p[1] < q[1] \/ (p[1] = q[1] /\ p[2] < q[2]))

\* Fault: a rewrite forgets the dropped tables.
VsDropEdits_None(vs) == << >>

VsDropEdits(vs) ==
  [i \in 1..Len(SetToSeq(vs.dropped)) |-> DroppedPrefix(SetToSeq(vs.dropped)[i])]

\* to_edits: the batch that rebuilds the version set.  A file without metadata
\* is given the empty range.
VsToEdits(vs) ==
  LET listed == VsListed(vs)
      KeyRange(f) == IF f \in DOMAIN vs.meta THEN vs.meta[f]
                                          ELSE [min |-> 0, max |-> 0]
  IN  [i \in 1..Len(listed) |->
         AddFile(listed[i][2], listed[i][1],
                 KeyRange(listed[i][2]).min, KeyRange(listed[i][2]).max)]
        \o <<NextFileId(vs.next)>> \o VsDropEdits(vs)
=============================================================================
