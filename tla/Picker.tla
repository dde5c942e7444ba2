-------------------------------- MODULE Picker -------------------------------
(***************************************************************************)
(* The compaction picker of crates/hatp-engine/src/compaction.rs and the   *)
(* split of its jobs (split_by_size of lib.rs).  A file is its metadata:   *)
(* [id, level, min, max, bytes, created].  A job's priority and kind order *)
(* and label jobs; the worker runs the only one it has, and they are left  *)
(* out.  Saturation of 64-bit byte counts is out of reach and left out.    *)
(***************************************************************************)
EXTENDS Integers, FiniteSets
LOCAL INSTANCE FiniteSetsExt

CONSTANTS
  Policy,     \* "Leveled", "LazyLeveling" or "Tiered"
  L0Trigger,  \* l0_trigger
  MaxLevel    \* max_level

ASSUME PickerAssumption ==
  /\ Policy \in {"Leveled", "LazyLeveling", "Tiered"}
  /\ L0Trigger \in Nat /\ L0Trigger >= 2 /\ MaxLevel \in Nat /\ MaxLevel >= 2

\* The sum of the files' bytes, counted as a set of pairs.
Bytes(files) == Cardinality(UNION {{f.id} \X (1..f.bytes) : f \in files})
OnLevel(files, l) == {f \in files : f.level = l}

\* overlaps
Overlaps(f, g) == f.min <= g.max /\ g.min <= f.max

\* level_capacity
LevelCapacity(l) ==
  CASE Policy = "Leveled" -> 1
    [] Policy = "LazyLeveling" -> IF l <= 2 THEN 4 ELSE 1
    [] Policy = "Tiered" -> 4

\* overlap_ratio, scaled by 1000.
OverlapRatio(f, target) ==
  (Bytes({g \in target : Overlaps(f, g)}) * 1000) \div (IF f.bytes = 0 THEN 1 ELSE f.bytes)

\* choose_min_overlap: the lowest ratio, then the oldest, then the first listed.
ChooseMinOverlap(source, target) ==
  LET rank(f) == <<OverlapRatio(f, target), f.created, f.id>>
      before(a, b) == \/ a[1] < b[1]
                      \/ a[1] = b[1] /\ (a[2] < b[2] \/ (a[2] = b[2] /\ a[3] < b[3]))
  IN  CHOOSE f \in source : \A g \in source \ {f} : before(rank(f), rank(g))

Job(source, target, inputs) ==
  [source |-> source, target |-> target, inputs |-> {f.id : f \in inputs},
   bytes |-> Bytes(inputs)]

NothingToDo == [source |-> 0, target |-> 0, inputs |-> {}, bytes |-> 0]

\* build_l0_job: all of level 0, and what it overlaps of level 1.
L0Job(files) ==
  LET l0 == OnLevel(files, 0)
      lo == Min({f.min : f \in l0})
      hi == Max({f.max : f \in l0})
  IN  Job(0, 1, l0 \cup {f \in OnLevel(files, 1) : f.min <= hi /\ lo <= f.max})

\* Fault: a level is only relieved when it is two files over its capacity.
Crowded_ByTwo(files) ==
  {l \in 1..(MaxLevel - 1) : Cardinality(OnLevel(files, l)) > LevelCapacity(l) + 1}

\* The levels with more files than their capacity, but not the last one.
Crowded(files) ==
  {l \in 1..(MaxLevel - 1) : Cardinality(OnLevel(files, l)) > LevelCapacity(l)}

\* pick_inner
Pick(files) ==
  IF Cardinality(OnLevel(files, 0)) >= L0Trigger THEN L0Job(files)
  ELSE IF Crowded(files) = {} THEN NothingToDo
  ELSE LET l == Min(Crowded(files))
           target == OnLevel(files, l + 1)
           f == ChooseMinOverlap(OnLevel(files, l), target)
       IN  Job(l, l + 1, {f} \cup {g \in target : Overlaps(f, g)})

\* split_by_size: inputs in the order of their ids, cut wherever the chunk so far
\* would grow past max with the next one.
SplitBySize(inputs, max) ==
  LET ids == {f.id : f \in inputs}
      within(a, b) == {f \in inputs : a <= f.id /\ f.id <= b}
      is_cut(i, cuts) ==
        LET earlier == {c \in cuts : c < i}
        IN  earlier = {} \/ Bytes(within(Max(earlier), i)) > max
      cuts == CHOOSE C \in SUBSET ids : \A i \in ids : i \in C <=> is_cut(i, C)
  IN  {{f \in inputs : c <= f.id /\ ~\E d \in cuts : c < d /\ d <= f.id} : c \in cuts}
=============================================================================
