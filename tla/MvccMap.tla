------------------------------ MODULE MvccMap ------------------------------
(***************************************************************************)
(* What the in-memory store promises its readers: a multi-version map.     *)
(*                                                                         *)
(* Every key has the versions committed so far, each under its timestamp.  *)
(* A reader's snapshot reads the newest version not later than it.  A      *)
(* version may be forgotten once a newer one exists that every snapshot in *)
(* use, and every one taken from now on, reads instead.  A racy store may  *)
(* besides lose what is committed while it collects garbage.               *)
(***************************************************************************)
EXTENDS Integers, FiniteSets

CONSTANTS Key, Reader, Val

VARIABLES store,  \* key -> timestamp -> value
          seq,    \* latest commit timestamp handed out
          snap,   \* reader -> its snapshot, or NoSnapshot
          racy,   \* whether commits may be lost to garbage collection
          since   \* first commit that could be lost; -1 if none could

vars == <<store, seq, snap, racy, since>>

NoSnapshot == -1

Empty == [t \in {} |-> "none"]

Init == /\ store = [k \in Key |-> Empty]
        /\ seq = 0
        /\ snap = [r \in Reader |-> NoSnapshot]
        /\ racy \in BOOLEAN
        /\ since = -1

\* s reads, of the versions of k, the newest that is not later.
Reads(k, s, t) ==
  /\ t \in DOMAIN store[k] /\ t <= s
  /\ \A u \in DOMAIN store[k] : u <= s => u <= t

-----------------------------------------------------------------------------

BeginCommit == seq' = seq + 1 /\ UNCHANGED <<store, snap, racy, since>>

\* Writes of the latest commit become visible, some or all of them at a time.
Apply(writes) ==
  /\ store' = [k \in Key |->
                 IF k \notin DOMAIN writes THEN store[k]
                 ELSE [t \in DOMAIN store[k] \cup {seq} |->
                         IF t = seq THEN writes[k] ELSE store[k][t]]]
  /\ UNCHANGED <<seq, snap, racy, since>>

BeginRead(r) == /\ snap[r] = NoSnapshot
                /\ snap' = [snap EXCEPT ![r] = seq]
                /\ UNCHANGED <<store, seq, racy, since>>

\* A reader takes over the snapshot of another.
ShareRead(r, q) == /\ snap[r] = NoSnapshot /\ snap[q] # NoSnapshot
                   /\ snap' = [snap EXCEPT ![r] = snap[q]]
                   /\ UNCHANGED <<store, seq, racy, since>>

EndRead(r) == /\ snap[r] # NoSnapshot
              /\ snap' = [snap EXCEPT ![r] = NoSnapshot]
              /\ UNCHANGED <<store, seq, racy, since>>

\* Version t of k is read by no snapshot in use or to come.
Forgettable(k, t) ==
  \E u \in DOMAIN store[k] :
    /\ t < u /\ u <= seq
    /\ \A r \in Reader : snap[r] # NoSnapshot => u <= snap[r]

\* A write of version t may be undone by a collection under way.
Exposed(t) == racy /\ since >= 0 /\ t >= since

\* What garbage collection may leave of the versions of k.
Remains(k, left) ==
  /\ DOMAIN left \subseteq DOMAIN store[k]
  /\ \A t \in DOMAIN store[k] \ DOMAIN left : Forgettable(k, t) \/ Exposed(t)
  /\ \A t \in DOMAIN left : left[t] = store[k][t] \/ (Exposed(t) /\ left[t] \in Val)

\* A collection that starts can lose this commit or later ones.
BeginCollect == /\ since' \in {-1, seq}
                /\ UNCHANGED <<store, seq, snap, racy>>

Collect == /\ DOMAIN store' = Key
           /\ \A k \in Key : Remains(k, store'[k])
           /\ since' \in {-1, since}
           /\ UNCHANGED <<seq, snap, racy>>

Next == \/ BeginCommit
        \/ \E K \in SUBSET Key : \E writes \in [K -> Val] : Apply(writes)
        \/ \E r \in Reader : BeginRead(r) \/ EndRead(r)
        \/ \E r, q \in Reader : ShareRead(r, q)
        \/ BeginCollect
        \/ Collect

Spec == Init /\ [][Next]_vars
=============================================================================
