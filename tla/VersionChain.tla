---------------------------- MODULE VersionChain ----------------------------
(***************************************************************************)
(* MVCC version chains: crates/hatp-engine/src/version.rs.                 *)
(*                                                                         *)
(* A chain is a function from the begin timestamps it holds to the rest of *)
(* the version.  The code keeps the versions in a vector sorted by begin   *)
(* timestamp, newest first, and never two with the same one, so "the first *)
(* in the vector" is "the greatest in the domain".                         *)
(***************************************************************************)
EXTENDS Integers

CONSTANT OpenEnded  \* OPEN_ENDED_TS: later than every timestamp

ASSUME OpenEndedAssumption == OpenEnded \in Nat \ {0}

EmptyChain == [t \in {} |-> [val |-> "none", end |-> 0]]

NoVersion == [found |-> FALSE]

-----------------------------------------------------------------------------

\* visible_at: the version of c that began at b is visible at s.
Sees(c, b, s) == b <= s /\ s < c[b].end

Newer(c, b) == {t \in DOMAIN c : t > b}

\* No version of c lies strictly between t and b.
Adjacent(c, t, b) == t < b /\ \A u \in DOMAIN c : ~(t < u /\ u < b)

\* What insert gives the new version for its end: a version with the same
\* begin hands its own over, a newer neighbour's begin bounds it, and the
\* newest version is open.
EndAt(c, b) ==
  IF b \in DOMAIN c THEN c[b].end
  ELSE IF Newer(c, b) = {} THEN OpenEnded
  ELSE CHOOSE t \in Newer(c, b) : \A u \in Newer(c, b) : t <= u

\* insert: the version that was the newest before b ends at b.
ChainInsert(c, b, v) ==
  [t \in DOMAIN c \cup {b} |->
     IF t = b THEN [val |-> v, end |-> EndAt(c, b)]
     ELSE IF b \notin DOMAIN c /\ Adjacent(c, t, b) /\ c[t].end > b
     THEN [c[t] EXCEPT !.end = b]
     ELSE c[t]]

\* get: the newest version that the snapshot sees.
ChainGet(c, s) ==
  LET seen == {b \in DOMAIN c : Sees(c, b, s)}
  IN  IF seen = {} THEN NoVersion
      ELSE LET b == CHOOSE b \in seen : \A u \in seen : u <= b
           IN  [found |-> TRUE, begin |-> b, val |-> c[b].val]

\* Fault: versions that end at or after the oldest snapshot are dropped.
ChainCollect_Early(c, oldest) ==
  [t \in {b \in DOMAIN c : Newer(c, b) = {} \/ c[b].end > oldest + 1} |-> c[t]]

\* garbage_collect: the newest version and those still observable stay.
ChainCollect(c, oldest) ==
  [t \in {b \in DOMAIN c : Newer(c, b) = {} \/ c[b].end > oldest} |-> c[t]]
=============================================================================
