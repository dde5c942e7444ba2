----------------------------- MODULE VersionSet -----------------------------
(***************************************************************************)
(* The version set of crates/hatp-engine/src/manifest.rs: which SST files  *)
(* are live, and at which level.  A version set is a record                *)
(*   levels   pairs <<level, file id>>                                     *)
(*   meta     file id -> its key range, what file_meta keeps of it here    *)
(*   next     the id to allocate next                                      *)
(*   dropped  prefixes of dropped tables                                   *)
(* levels and meta are separate maps in the code, and separate here.  The  *)
(* sorted vectors files_by_key and file_level are functions of them.       *)
(***************************************************************************)
EXTENDS Integers

VsDefault == [levels |-> {}, meta |-> << >>, next |-> 0, dropped |-> {}]

AddFile(f, l, lo, hi) ==
  [op |-> "AddFile", file |-> f, level |-> l, min |-> lo, max |-> hi]
DeleteFile(f, l) == [op |-> "DeleteFile", file |-> f, level |-> l]
NextFileId(f) == [op |-> "NextFileId", file |-> f]
DroppedPrefix(p) == [op |-> "DroppedPrefix", prefix |-> p]
UndroppedPrefix(p) == [op |-> "UndroppedPrefix", prefix |-> p]

Larger(m, n) == IF m < n THEN n ELSE m

\* Fault: listing a file leaves the next id alone, for NextFileId to move.
VsAdd_IdKept(vs, e) ==
  [vs EXCEPT !.levels = @ \cup {<<e.level, e.file>>},
             !.meta = [f \in DOMAIN @ \cup {e.file} |->
                         IF f = e.file THEN [min |-> e.min, max |-> e.max]
                                       ELSE @[f]]]

VsAdd(vs, e) ==
  [vs EXCEPT !.levels = @ \cup {<<e.level, e.file>>},
             !.meta = [f \in DOMAIN @ \cup {e.file} |->
                         IF f = e.file THEN [min |-> e.min, max |-> e.max]
                                       ELSE @[f]],
             !.next = Larger(@, e.file + 1)]

\* apply.  A delete forgets the file's metadata whatever level it names.
VsApply(vs, e) ==
  CASE e.op = "AddFile" -> VsAdd(vs, e)
    [] e.op = "DeleteFile" ->
         [vs EXCEPT !.levels = @ \ {<<e.level, e.file>>},
                    !.meta = [f \in DOMAIN @ \ {e.file} |-> @[f]]]
    [] e.op = "NextFileId" -> [vs EXCEPT !.next = Larger(@, e.file)]
    [] e.op = "DroppedPrefix" -> [vs EXCEPT !.dropped = @ \cup {e.prefix}]
    [] e.op = "UndroppedPrefix" -> [vs EXCEPT !.dropped = @ \ {e.prefix}]

\* applied, for the batch of a flush or a compaction: files added at a level
\* with their key ranges, NextFileId, and the deletion of what was merged.
VsInstalled(vs, level, ranges, next, merged) ==
  [vs EXCEPT !.levels = (@ \cup {<<level, f>> : f \in DOMAIN ranges}) \ merged,
             !.meta = [f \in (DOMAIN @ \cup DOMAIN ranges) \ {p[2] : p \in merged} |->
                         IF f \in DOMAIN ranges THEN ranges[f] ELSE @[f]],
             !.next = Larger(@, next)]

\* files
VsFiles(vs, l) == {p[2] : p \in {q \in vs.levels : q[1] = l}}

\* file_level_for: a level that lists f.
VsLevelFor(vs, f) ==
  CHOOSE l \in {p[1] : p \in vs.levels} : <<l, f>> \in vs.levels

\* Fault: the largest key of a file is taken for an exclusive bound.
VsCandidates_Exclusive(vs, k) ==
  {f \in DOMAIN vs.meta : vs.meta[f].min <= k /\ k < vs.meta[f].max}

\* candidate_files: the files whose range holds k.
VsCandidates(vs, k) ==
  {f \in DOMAIN vs.meta : vs.meta[f].min <= k /\ k <= vs.meta[f].max}
=============================================================================
