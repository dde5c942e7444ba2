----------------------------- MODULE MCLsmTree ------------------------------
(***************************************************************************)
(* Instances of LsmTree for TLC: two tables of one key each, of which one  *)
(* may be dropped.                                                         *)
(***************************************************************************)
EXTENDS LsmTree, EditBatch

MCTableOf == [k \in Key |-> IF k = 1 THEN "orders" ELSE "items"]
MCDroppable == {"items"}
MCWrites == {<<1, "put">>, <<2, "put">>, <<2, "del">>}
MCReads == {<<"get", 2>>, <<"range", {2}>>, <<"all", Key>>, <<"table", {2}>>,
            <<"delete", {2}>>}

\* The batch that a flush or a compaction appends to the manifest.
Batch(level, ranges, new, next, merged) ==
  [i \in 1..Len(new) |-> AddFile(new[i], level, ranges[new[i]].min, ranges[new[i]].max)]
    \o <<NextFileId(next)>>
    \o [i \in 1..Len(merged) |-> DeleteFile(merged[i][2], merged[i][1])]

\* VsInstalled is what applied makes of that batch, whatever the version set.
ASSUME InstalledAssumption ==
  \A levels \in SUBSET ({0, 1} \X {0, 1}), listed \in SUBSET {0, 1},
     new \in {<<2>>, <<2, 3>>}, level \in {0, 1},
     merged \in {<< >>, << <<0, 1>> >>, << <<0, 0>>, <<1, 1>> >>} :
       LET vs == [levels |-> levels, meta |-> [f \in listed |-> [min |-> 1, max |-> f]],
                  next |-> 2, dropped |-> {}]
           ranges == [f \in {new[i] : i \in 1..Len(new)} |-> [min |-> 0, max |-> f]]
       IN  VsInstalled(vs, level, ranges, Len(new) + 2, {merged[i] : i \in 1..Len(merged)})
             = VsApplied(vs, Batch(level, ranges, new, Len(new) + 2, merged))
=============================================================================
