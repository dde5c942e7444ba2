-------------------------- MODULE DurabilityProofs --------------------------
(***************************************************************************)
(* What the log holds, under every crash and failed call that is modelled, *)
(* and what recovery reads of it; the order of the versions that flush and *)
(* recovery leave of a key; and what they keep of the writes that no flush *)
(* overlaps.  All of it is for any set of keys, any number of writes,      *)
(* flushes and crashes and any size of the log.                            *)
(***************************************************************************)
EXTENDS Durability, FiniteSetTheorems, TLAPS

-----------------------------------------------------------------------------
(* Naturals. *)

\* A set of naturals up to n that is not empty has a least element ...
LEMMA LeastOf ==
  ASSUME NEW S \in SUBSET Nat, S # {}
  PROVE  \E x \in S : \A y \in S : x <= y
<1>1. PICK m \in S : \A y \in S : ~(<<y, m>> \in OpToRel(<, Nat))
  BY NatLessThanWellFounded, WFMin, Zenon
<1>2. \A y \in S : ~(y < m)
  BY <1>1, Zenon DEF OpToRel
<1> QED
  BY <1>2

\* ... and one that is bounded a greatest, which MaxOf chooses.
LEMMA MaxOfIs ==
  ASSUME NEW S \in SUBSET Nat, S # {}, NEW n \in Nat, \A x \in S : x <= n
  PROVE  MaxOf(S) \in S /\ \A x \in S : x <= MaxOf(S)
<1> DEFINE T == {m \in Nat : \A x \in S : x <= m}
<1>1. PICK m \in T : \A y \in T : m <= y
  <2>1. n \in T /\ T \in SUBSET Nat
    BY Zenon
  <2> HIDE DEF T
  <2> QED
    BY <2>1, LeastOf, Zenon
<1>2. m \in S
  <2> SUFFICES ASSUME m \notin S PROVE FALSE
    BY Zenon
  <2>1. PICK x \in S : TRUE
    BY Zenon
  <2>2. \A y \in S : y \in Nat /\ y < m
    BY <1>1
  <2>3. m - 1 \in T
    BY <2>1, <2>2
  <2> QED
    BY <1>1, <2>3
<1> QED
  BY <1>1, <1>2, Zenon DEF MaxOf

-----------------------------------------------------------------------------
(* The log. *)

\* What a frame is.
LEMMA Frames ==
  ASSUME NEW x \in Frame
  PROVE  \/ x.op = "Put" /\ x.tx \in Nat /\ x.key \in Key /\ x.val \in Nat /\ x \notin Broken
         \/ x.op = "Commit" /\ x.tx \in Nat /\ x \notin Broken
         \/ x.op \in {"Stub", "Short", "Torn"} /\ x \in Broken
  BY Zenon DEF Frame, Broken

Puts(w) == {i \in 1..Len(w) : w[i].op = "Put"}
Commits(w) == {i \in 1..Len(w) : w[i].op = "Commit"}

\* A log of the writes iss: transactions and writes correspond, a commit marker
\* closes one transaction and comes after a frame for each of its keys.
LogOK(w, iss) ==
  /\ w \in Seq(Frame)
  /\ \A i \in Puts(w) : /\ w[i].tx \in 1..Len(iss) /\ w[i].val \in 1..Len(iss)
                        /\ w[i].key \in iss[w[i].val]
  /\ \A c \in Commits(w) : w[c].tx \in 1..Len(iss)
  /\ \A i, j \in Puts(w) : w[i].tx = w[j].tx <=> w[i].val = w[j].val
  /\ \A c, d \in Commits(w) : w[c].tx = w[d].tx => c = d
  /\ \A c \in Commits(w), i \in Puts(w) : w[i].tx = w[c].tx =>
       /\ i < c
       /\ \A k \in iss[w[i].val] :
            \E j \in Puts(w) : w[j].tx = w[c].tx /\ w[j].key = k

\* Such a log has a length.
LEMMA LogLength ==
  ASSUME NEW w, NEW iss, LogOK(w, iss)
  PROVE  w \in Seq(Frame) /\ Len(w) \in Nat
<1>1. w \in Seq(Frame)
  BY Zenon DEF LogOK
<1> QED
  BY <1>1

\* u is the first n frames of w, and nothing else that can be read.
Keeps(u, w, n) ==
  /\ u \in Seq(Frame) /\ n \in 0..Len(w) /\ n <= Len(u)
  /\ \A i \in 1..n : u[i] = w[i]
  /\ \A i \in (n + 1)..Len(u) : u[i] \in Broken

\* Where its frames are.
LEMMA KeepsFrames ==
  ASSUME NEW w \in Seq(Frame), NEW u, NEW n, Keeps(u, w, n)
  PROVE  /\ n \in Nat /\ Len(u) \in Nat /\ Len(w) \in Nat /\ n <= Len(w) /\ n <= Len(u)
         /\ \A i \in Puts(u) : i \in Puts(w) /\ i <= n /\ u[i] = w[i]
         /\ \A i \in Commits(u) : i \in Commits(w) /\ i <= n /\ u[i] = w[i]
         /\ \A i \in 1..n : /\ i \in Puts(w) => i \in Puts(u)
                            /\ i \in Commits(w) => i \in Commits(u)
<1>1. n \in Nat /\ Len(u) \in Nat /\ Len(w) \in Nat /\ n <= Len(w) /\ n <= Len(u)
  BY DEF Keeps
<1>2. /\ \A i \in Puts(u) : i \in Puts(w) /\ i <= n /\ u[i] = w[i]
      /\ \A i \in Commits(u) : i \in Commits(w) /\ i <= n /\ u[i] = w[i]
  <2> SUFFICES ASSUME NEW i \in 1..Len(u), u[i].op \in {"Put", "Commit"}
               PROVE  i \in 1..n
    BY <1>1 DEF Puts, Commits, Keeps
  <2>1. u[i] \notin Broken
    BY Zenon DEF Broken
  <2> QED
    BY <1>1, <2>1 DEF Keeps
<1>3. \A i \in 1..n : /\ i \in Puts(w) => i \in Puts(u)
                      /\ i \in Commits(w) => i \in Commits(u)
  BY <1>1 DEF Puts, Commits, Keeps
<1> QED
  BY <1>1, <1>2, <1>3, Zenon

\* The log of a crash or of an open is one.
LEMMA KeepsOK ==
  ASSUME NEW w, NEW iss, LogOK(w, iss), NEW u, NEW n, Keeps(u, w, n)
  PROVE  LogOK(u, iss)
<1>1. /\ n \in Nat /\ Len(w) \in Nat /\ n <= Len(w)
      /\ \A i \in Puts(u) : i \in Puts(w) /\ i <= n /\ u[i] = w[i]
      /\ \A i \in Commits(u) : i \in Commits(w) /\ i <= n /\ u[i] = w[i]
      /\ \A i \in 1..n : /\ i \in Puts(w) => i \in Puts(u)
                         /\ i \in Commits(w) => i \in Commits(u)
  BY KeepsFrames DEF LogOK
<1>2. /\ \A i \in Puts(u) : i \in Puts(w) /\ i <= n /\ u[i] = w[i]
      /\ \A i \in Commits(u) : i \in Commits(w) /\ i <= n /\ u[i] = w[i]
  BY <1>1, Zenon
<1>3. \A i \in 1..n : /\ i \in Puts(w) => i \in Puts(u)
                      /\ i \in Commits(w) => i \in Commits(u)
  BY <1>1, Zenon
<1>4. /\ \A i \in Puts(u) : /\ u[i].tx \in 1..Len(iss) /\ u[i].val \in 1..Len(iss)
                            /\ u[i].key \in iss[u[i].val]
      /\ \A c \in Commits(u) : u[c].tx \in 1..Len(iss)
  BY <1>2, Zenon DEF LogOK
<1>5. /\ \A i, j \in Puts(u) : u[i].tx = u[j].tx <=> u[i].val = u[j].val
      /\ \A c, d \in Commits(u) : u[c].tx = u[d].tx => c = d
  <2>1. ASSUME NEW i \in Puts(u), NEW j \in Puts(u)
        PROVE  u[i].tx = u[j].tx <=> u[i].val = u[j].val
    <3>1. i \in Puts(w) /\ j \in Puts(w) /\ u[i] = w[i] /\ u[j] = w[j]
      BY <1>2, Zenon
    <3>2. w[i].tx = w[j].tx <=> w[i].val = w[j].val
      BY <3>1, ZenonT(40) DEF LogOK
    <3> QED
      BY <3>1, <3>2, Zenon
  <2>2. ASSUME NEW c \in Commits(u), NEW d \in Commits(u), u[c].tx = u[d].tx
        PROVE  c = d
    <3>1. c \in Commits(w) /\ d \in Commits(w) /\ u[c] = w[c] /\ u[d] = w[d]
      BY <1>2, Zenon
    <3> QED
      BY <2>2, <3>1, Zenon DEF LogOK
  <2> QED
    BY <2>1, <2>2, Zenon
<1>6. ASSUME NEW c \in Commits(u), NEW i \in Puts(u), u[i].tx = u[c].tx
      PROVE  /\ i < c
             /\ \A k \in iss[u[i].val] :
                  \E j \in Puts(u) : u[j].tx = u[c].tx /\ u[j].key = k
  <2>1. c \in Commits(w) /\ i \in Puts(w) /\ u[c] = w[c] /\ u[i] = w[i] /\ c <= n
    BY <1>2, Zenon
  <2>2. i < c
    BY <1>6, <2>1, Zenon DEF LogOK
  <2>3. ASSUME NEW k \in iss[u[i].val]
        PROVE  \E j \in Puts(u) : u[j].tx = u[c].tx /\ u[j].key = k
    <3>1. PICK j \in Puts(w) : w[j].tx = w[c].tx /\ w[j].key = k
      BY <1>6, <2>1, <2>3 DEF LogOK
    <3>2. j < c
      BY <2>1, <3>1, Zenon DEF LogOK
    <3>3. j \in 1..n
      BY <1>1, <2>1, <3>1, <3>2 DEF Puts, Commits
    <3> QED
      BY <1>3, <2>1, <3>1, <3>3, Zenon DEF Keeps
  <2> QED
    BY <2>2, <2>3, Zenon
<1> QED
  BY <1>4, <1>5, <1>6, Zenon DEF LogOK, Keeps

\* Frames of write v, in transaction t: a commit marker among them is the last,
\* and then there is a frame for each key.
PartOK(p, t, v, keys) ==
  /\ p \in Seq(Frame)
  /\ \A i \in Puts(p) : p[i].tx = t /\ p[i].val = v /\ p[i].key \in keys
  /\ \A c \in Commits(p) : /\ p[c].tx = t /\ c = Len(p)
                           /\ \A k \in keys : \E j \in Puts(p) : p[j].key = k

\* Where the frames of an extended log come from.
LEMMA Extended ==
  ASSUME NEW w \in Seq(Frame), NEW p \in Seq(Frame)
  PROVE  /\ w \o p \in Seq(Frame) /\ Len(w \o p) = Len(w) + Len(p)
         /\ Len(w) \in Nat /\ Len(p) \in Nat
         /\ \A i \in 1..Len(w) : (w \o p)[i] = w[i]
         /\ \A i \in 1..Len(p) : (w \o p)[Len(w) + i] = p[i]
         /\ \A i \in Puts(w \o p) : i \in Puts(w) \/ (i > Len(w) /\ i - Len(w) \in Puts(p))
         /\ \A i \in Commits(w \o p) : i \in Commits(w) \/ (i > Len(w) /\ i - Len(w) \in Commits(p))
         /\ \A i \in Puts(w) : i \in Puts(w \o p)
         /\ \A i \in Commits(w) : i \in Commits(w \o p)
         /\ \A i \in Puts(p) : Len(w) + i \in Puts(w \o p)
         /\ \A i \in Commits(p) : Len(w) + i \in Commits(w \o p)
<1>1. /\ w \o p \in Seq(Frame) /\ Len(w \o p) = Len(w) + Len(p)
      /\ Len(w) \in Nat /\ Len(p) \in Nat
      /\ \A i \in 1..(Len(w) + Len(p)) :
           (w \o p)[i] = IF i <= Len(w) THEN w[i] ELSE p[i - Len(w)]
  OBVIOUS
<1>2. /\ \A i \in 1..Len(w) : (w \o p)[i] = w[i]
      /\ \A i \in 1..Len(p) : (w \o p)[Len(w) + i] = p[i]
  <2>1. ASSUME NEW i \in 1..Len(p) PROVE (w \o p)[Len(w) + i] = p[i]
    <3>1. /\ Len(w) + i \in 1..(Len(w) + Len(p)) /\ ~(Len(w) + i <= Len(w))
          /\ (Len(w) + i) - Len(w) = i
      BY <1>1
    <3> QED
      BY <1>1, <3>1, Zenon
  <2> QED
    BY <1>1, <2>1
<1> HIDE DEF Puts, Commits
<1>3. ASSUME NEW i \in 1..(Len(w) + Len(p)), i > Len(w)
      PROVE  i - Len(w) \in 1..Len(p) /\ (w \o p)[i] = p[i - Len(w)]
  BY <1>1, <1>3
<1>4. ASSUME NEW i \in 1..(Len(w) + Len(p)), ~(i > Len(w))
      PROVE  i \in 1..Len(w) /\ (w \o p)[i] = w[i]
  BY <1>1, <1>4
<1>5. /\ \A i \in Puts(w \o p) : i \in Puts(w) \/ (i > Len(w) /\ i - Len(w) \in Puts(p))
      /\ \A i \in Commits(w \o p) : i \in Commits(w) \/ (i > Len(w) /\ i - Len(w) \in Commits(p))
  BY <1>1, <1>3, <1>4, Zenon DEF Puts, Commits
<1>6. /\ \A i \in Puts(w) : i \in Puts(w \o p)
      /\ \A i \in Commits(w) : i \in Commits(w \o p)
  BY <1>1, <1>2 DEF Puts, Commits
<1>7. /\ \A i \in Puts(p) : Len(w) + i \in Puts(w \o p)
      /\ \A i \in Commits(p) : Len(w) + i \in Commits(w \o p)
  <2>1. \A i \in 1..Len(p) : Len(w) + i \in 1..(Len(w) + Len(p))
    BY <1>1
  <2> QED
    BY <1>1, <1>2, <2>1, Zenon DEF Puts, Commits
<1> QED
  BY <1>1, <1>2, <1>5, <1>6, <1>7, Zenon

\* A write that is given a fresh transaction id extends the log to one.
LEMMA ExtendsOK ==
  ASSUME NEW w, NEW iss \in Seq(SUBSET Key), LogOK(w, iss),
         NEW t \in 1..(Len(iss) + 1), NEW keys \in SUBSET Key, NEW p,
         PartOK(p, t, Len(iss) + 1, keys),
         \A i \in Puts(w) \cup Commits(w) : w[i].tx < t
  PROVE  LogOK(w \o p, Append(iss, keys))
<1> DEFINE x == w \o p
           n == Len(w)
           v == Len(iss) + 1
           jss == Append(iss, keys)
<1>1. w \in Seq(Frame) /\ p \in Seq(Frame)
  BY Zenon DEF LogOK, PartOK
<1>2. /\ x \in Seq(Frame) /\ n \in Nat /\ Len(p) \in Nat
      /\ \A i \in 1..n : x[i] = w[i]
      /\ \A i \in 1..Len(p) : x[n + i] = p[i]
      /\ \A i \in Puts(x) : i \in Puts(w) \/ (i > n /\ i - n \in Puts(p))
      /\ \A i \in Commits(x) : i \in Commits(w) \/ (i > n /\ i - n \in Commits(p))
      /\ \A i \in Puts(w) : i \in Puts(x)
      /\ \A i \in Puts(p) : n + i \in Puts(x)
  BY <1>1, Extended, Zenon
<1>3. /\ Len(jss) = Len(iss) + 1 /\ Len(iss) \in Nat /\ jss[v] = keys
      /\ \A u \in 1..Len(iss) : jss[u] = iss[u]
  OBVIOUS
<1> HIDE DEF x, n, jss
<1>4. ASSUME NEW i \in Puts(x)
      PROVE  \/ /\ i \in Puts(w) /\ i \in 1..n /\ x[i] = w[i] /\ x[i].tx < t /\ x[i].val < v
                /\ x[i].tx \in 1..Len(iss) /\ x[i].val \in 1..Len(iss) /\ x[i].key \in iss[x[i].val]
             \/ /\ i > n /\ i \in Int /\ x[i].tx = t /\ x[i].val = v /\ x[i].key \in keys
  <2>1. CASE i \in Puts(w)
    <3>1. i \in 1..n /\ x[i] = w[i]
      BY <1>2, <2>1, Zenon DEF Puts, n
    <3>2. /\ w[i].tx \in 1..Len(iss) /\ w[i].val \in 1..Len(iss)
          /\ w[i].key \in iss[w[i].val] /\ w[i].tx < t
      BY <2>1, Zenon DEF LogOK
    <3> QED
      BY <1>3, <2>1, <3>1, <3>2
  <2>2. CASE i > n /\ i - n \in Puts(p)
    <3>1. i - n \in 1..Len(p) /\ i \in Int
      BY <2>2 DEF Puts, x
    <3>2. x[i] = p[i - n]
      <4>1. x[n + (i - n)] = p[i - n] /\ n + (i - n) = i
        BY <1>2, <3>1
      <4> QED
        BY <4>1, Zenon
    <3> QED
      BY <2>2, <3>1, <3>2, ZenonT(40) DEF PartOK
  <2> QED
    BY <1>2, <2>1, <2>2, Zenon
<1>5. ASSUME NEW c \in Commits(x)
      PROVE  \/ /\ c \in Commits(w) /\ c \in 1..n /\ x[c] = w[c]
                /\ x[c].tx < t /\ x[c].tx \in 1..Len(iss)
             \/ /\ c = n + Len(p) /\ x[c].tx = t
                /\ \A k \in keys : \E j \in Puts(p) : p[j].key = k
  <2>1. CASE c \in Commits(w)
    <3>1. c \in 1..n /\ x[c] = w[c]
      BY <1>2, <2>1, Zenon DEF Commits, n
    <3> QED
      BY <2>1, <3>1, Zenon DEF LogOK
  <2>2. CASE c > n /\ c - n \in Commits(p)
    <3>1. c - n \in 1..Len(p) /\ c \in Int /\ c - n = Len(p) /\ p[c - n].tx = t
      <4>1. c - n \in 1..Len(p) /\ c - n = Len(p) /\ p[c - n].tx = t /\ c \in 1..Len(x)
        BY <2>2, Zenon DEF Commits, PartOK
      <4> QED
        BY <4>1
    <3>2. n + (c - n) = c /\ x[n + (c - n)] = p[c - n]
      BY <1>2, <3>1
    <3>3. c = n + Len(p)
      BY <1>2, <3>1
    <3> QED
      BY <2>2, <3>1, <3>2, <3>3, ZenonT(40) DEF PartOK
  <2> QED
    BY <1>2, <2>1, <2>2, Zenon
<1>6. /\ \A i \in Puts(x) : /\ x[i].tx \in 1..Len(jss) /\ x[i].val \in 1..Len(jss)
                            /\ x[i].key \in jss[x[i].val]
      /\ \A c \in Commits(x) : x[c].tx \in 1..Len(jss)
  <2>1. /\ \A u \in 1..Len(iss) : u \in 1..Len(jss)
        /\ t \in 1..Len(jss) /\ v \in 1..Len(jss)
    BY <1>3
  <2> HIDE DEF v
  <2> QED
    BY <1>3, <1>4, <1>5, <2>1, Zenon
<1>7. ASSUME NEW i \in Puts(x), NEW j \in Puts(x)
      PROVE  x[i].tx = x[j].tx <=> x[i].val = x[j].val
  <2>1. CASE i \in Puts(w) /\ x[i] = w[i] /\ j \in Puts(w) /\ x[j] = w[j]
    BY <2>1 DEF LogOK
  <2> QED
    BY <1>3, <1>4, <2>1
<1>8. ASSUME NEW c \in Commits(x), NEW d \in Commits(x), x[c].tx = x[d].tx
      PROVE  c = d
  <2>1. CASE c \in Commits(w) /\ x[c] = w[c] /\ d \in Commits(w) /\ x[d] = w[d]
    BY <1>8, <2>1, Zenon DEF LogOK
  <2> QED
    BY <1>3, <1>5, <1>8, <2>1
<1>9. ASSUME NEW c \in Commits(x), NEW i \in Puts(x), x[i].tx = x[c].tx
      PROVE  /\ i < c
             /\ \A k \in jss[x[i].val] :
                  \E j \in Puts(x) : x[j].tx = x[c].tx /\ x[j].key = k
  <2>1. CASE c \in Commits(w) /\ x[c] = w[c] /\ x[c].tx < t /\ x[c].tx \in 1..Len(iss)
    <3>1. i \in Puts(w) /\ x[i] = w[i] /\ x[i].val \in 1..Len(iss)
      BY <1>3, <1>4, <1>9, <2>1
    <3>2. i < c /\ \A k \in iss[w[i].val] : \E j \in Puts(w) : w[j].tx = w[c].tx /\ w[j].key = k
      BY <1>9, <2>1, <3>1, ZenonT(40) DEF LogOK
    <3>3. \A j \in Puts(w) : j \in Puts(x) /\ x[j] = w[j]
      BY <1>2, Zenon DEF Puts, n
    <3>4. jss[x[i].val] = iss[w[i].val]
      BY <1>3, <3>1, Zenon
    <3>5. ASSUME NEW k \in iss[w[i].val]
          PROVE  \E j \in Puts(x) : x[j].tx = x[c].tx /\ x[j].key = k
      <4>1. PICK j \in Puts(w) : w[j].tx = w[c].tx /\ w[j].key = k
        BY <3>2, Zenon
      <4> QED
        BY <2>1, <3>3, <4>1, Zenon
    <3> QED
      BY <3>2, <3>4, <3>5, Zenon
  <2>2. CASE /\ c = n + Len(p) /\ x[c].tx = t
             /\ \A k \in keys : \E j \in Puts(p) : p[j].key = k
    <3>1. i > n /\ i \in Int /\ x[i].val = v /\ i \notin Puts(w)
      <4>1. x[i].tx = t
        BY <1>9, <2>2, Zenon
      <4>2. i > n /\ i \in Int /\ x[i].val = v
        BY <1>3, <1>4, <4>1
      <4> QED
        BY <1>2, <4>2 DEF Puts, n
    <3>2. i < c
      <4>1. i - n \in Puts(p) /\ c \in Commits(x)
        BY <1>2, <3>1, Zenon
      <4>2. i - n \in 1..Len(p)
        BY <4>1, Zenon DEF Puts
      <4>3. i # c
        BY <1>9, Zenon DEF Puts, Commits
      <4> QED
        BY <1>2, <2>2, <3>1, <4>2, <4>3
    <3>3. ASSUME NEW k \in keys
          PROVE  \E j \in Puts(x) : x[j].tx = x[c].tx /\ x[j].key = k
      <4>1. PICK j \in Puts(p) : p[j].key = k
        BY <2>2, Zenon
      <4>2. n + j \in Puts(x) /\ x[n + j] = p[j] /\ p[j].tx = t
        BY <1>2, <4>1, Zenon DEF Puts, PartOK
      <4> QED
        BY <2>2, <4>1, <4>2, Zenon
    <3> QED
      BY <1>3, <3>1, <3>2, <3>3, Zenon
  <2> QED
    BY <1>5, <2>1, <2>2, ZenonT(40)
<1> QED
  BY <1>2, <1>6, <1>7, <1>8, <1>9, Zenon DEF LogOK, x, jss

\* What encode_mutations makes of a batch: one frame per key, then the marker.
LEMMA Encoded ==
  ASSUME NEW t \in Nat, NEW v \in Nat, NEW keys \in SUBSET Key, NEW s \in Nat,
         NEW frames \in Encodings(t, [tx |-> t, val |-> v, keys |-> keys, ts |-> s])
  PROVE  LET n == Cardinality(keys)
         IN  /\ n \in Nat /\ PartOK(frames, t, v, keys) /\ Len(frames) = n + 1
             /\ Puts(frames) = 1..n /\ Commits(frames) = {n + 1}
<1> DEFINE n == Cardinality(keys)
<1>1. IsFiniteSet(keys) /\ n \in Nat
  BY KeyAssumption, FS_Subset, FS_CardinalityType, Zenon DEF KeyAssumption
<1>2. PICK order \in [1..n -> keys] :
        /\ \A i, j \in 1..n : order[i] = order[j] => i = j
        /\ frames = Append([i \in 1..n |-> [op |-> "Put", tx |-> t, key |-> order[i], val |-> v]],
                           [op |-> "Commit", tx |-> t])
  BY ZenonT(30) DEF Encodings
<1>3. \A k \in keys : \E i \in 1..n : order[i] = k
  <2>1. IsFiniteSet(1..n) /\ Cardinality(1..n) = n
    BY <1>1, FS_Interval, SMTT(30)
  <2>2. order \in Injection(1..n, keys)
    BY <1>2, Zenon DEF Injection, IsInjective
  <2>3. order \in Surjection(1..n, keys)
    BY <1>1, <2>1, <2>2, FS_Injection, Zenon
  <2> QED
    BY <2>3, Zenon DEF Surjection
<1> DEFINE puts == [i \in 1..n |-> [op |-> "Put", tx |-> t, key |-> order[i], val |-> v]]
           end == [op |-> "Commit", tx |-> t]
<1>4. puts \in Seq(Frame) /\ Len(puts) = n /\ end \in Frame
  <2>1. \A k \in Key : [op |-> "Put", tx |-> t, key |-> k, val |-> v] \in Frame
    BY Zenon DEF Frame
  <2>2. end \in Frame
    BY Zenon DEF Frame
  <2>3. \A i \in 1..n : order[i] \in Key
    BY <1>2, Zenon
  <2>4. puts \in [1..n -> Frame]
    BY <2>1, <2>3, Zenon
  <2> HIDE DEF puts, end
  <2> QED
    BY <1>1, <2>2, <2>4
<1>5. /\ frames = Append(puts, end) /\ frames \in Seq(Frame) /\ Len(frames) = n + 1
      /\ \A i \in 1..n : frames[i] = puts[i]
      /\ frames[n + 1] = end
  <2>1. frames = Append(puts, end)
    BY <1>2, Zenon
  <2> HIDE DEF puts, end
  <2> QED
    BY <1>1, <1>4, <2>1
<1>6. \A i \in 1..n : /\ puts[i].op = "Put" /\ puts[i].tx = t
                      /\ puts[i].key = order[i] /\ puts[i].val = v
  BY Zenon
<1>7. end.op = "Commit" /\ end.tx = t
  BY Zenon
<1> HIDE DEF puts, end, n
<1>8. Puts(frames) = 1..n /\ Commits(frames) = {n + 1}
  <2>1. 1..Len(frames) = (1..n) \cup {n + 1}
    BY <1>1, <1>5
  <2>2. \A i \in 1..n : i # n + 1 /\ frames[i].op = "Put"
    BY <1>1, <1>5, <1>6
  <2>3. frames[n + 1].op = "Commit"
    BY <1>5, <1>7, Zenon
  <2> QED
    BY <2>1, <2>2, <2>3, Zenon DEF Puts, Commits
<1>9. PartOK(frames, t, v, keys)
  <2>1. \A i \in 1..n : frames[i].tx = t /\ frames[i].val = v /\ frames[i].key = order[i]
    BY <1>5, <1>6, Zenon
  <2>2. frames[n + 1].tx = t
    BY <1>5, <1>7, Zenon
  <2>3. \A k \in keys : \E j \in Puts(frames) : frames[j].key = k
    BY <1>3, <1>8, <2>1, ZenonT(40)
  <2>4. \A i \in Puts(frames) : order[i] \in keys
    BY <1>2, <1>8, Zenon
  <2> QED
    BY <1>5, <1>8, <2>1, <2>2, <2>3, <2>4, Zenon DEF PartOK
<1> QED
  BY <1>1, <1>5, <1>8, <1>9, Zenon DEF n

\* What is left of a log when only its first n frames are complete.
LEMMA Cuts ==
  ASSUME NEW w \in Seq(Frame), NEW n \in Int, n <= Len(w), NEW u \in Cut(w, n)
  PROVE  \E m \in 0..Len(w) : Keeps(u, w, m) /\ n <= m /\ Len(u) <= m + 1 /\ (0 <= n => m = n)
<1> DEFINE m == IF n < 0 THEN 0 ELSE n
           pre == SubSeq(w, 1, n)
<1>1. m \in 0..Len(w) /\ n <= m /\ Len(w) \in Nat /\ (0 <= n => m = n)
  OBVIOUS
<1>2. pre \in Seq(Frame) /\ Len(pre) = m /\ \A i \in 1..m : pre[i] = w[i]
  <2>1. \A i \in 1..n : w[i] \in Frame
    OBVIOUS
  <2>2. /\ pre \in Seq(Frame) /\ Len(pre) = IF 1 <= n THEN n - 1 + 1 ELSE 0
        /\ \A i \in 1..(n - 1 + 1) : pre[i] = w[1 + i - 1]
    BY <2>1
  <2>3. \A i \in 1..m : i \in 1..(n - 1 + 1) /\ 1 + i - 1 = i
    OBVIOUS
  <2> HIDE DEF pre
  <2> QED
    BY <2>2, <2>3
<1>3. ASSUME u = pre PROVE Keeps(u, w, m) /\ Len(u) <= m + 1
  <2> HIDE DEF pre, m
  <2> QED
    BY <1>1, <1>2, <1>3 DEF Keeps
<1>4. ASSUME NEW b \in Broken, u = Append(pre, b) PROVE Keeps(u, w, m) /\ Len(u) <= m + 1
  <2> HIDE DEF pre, m
  <2>1. b \in Frame
    BY Zenon DEF Frame
  <2>2. /\ u \in Seq(Frame) /\ Len(u) = m + 1 /\ u[m + 1] = b
        /\ \A i \in 1..m : u[i] = w[i]
    BY <1>1, <1>2, <1>4, <2>1
  <2> QED
    BY <1>1, <2>2 DEF Keeps
<1>5. u = pre \/ \E b \in Broken : u = Append(pre, b)
  BY Zenon DEF Cut
<1> QED
  BY <1>1, <1>3, <1>4, <1>5, Zenon

\* The frames that decode_all returns: all before the first broken one.
LEMMA Decodes ==
  ASSUME NEW w \in Seq(Frame)
  PROVE  \E n \in 0..Len(w) :
           /\ Keeps(ValidPrefix(w), w, n) /\ Len(ValidPrefix(w)) = n
           /\ \A i \in 1..n : w[i] \notin Broken
           /\ n < Len(w) => w[n + 1] \in Broken
<1> DEFINE P(n) == /\ \A i \in 1..n : w[i] \notin Broken
                   /\ n < Len(w) => w[n + 1] \in Broken
           B == {i \in 1..Len(w) : w[i] \in Broken}
<1>1. \E n \in 0..Len(w) : P(n)
  <2>1. CASE B = {}
    BY <2>1
  <2>2. CASE B # {}
    <3>1. PICK b \in B : \A y \in B : b <= y
      <4>1. B \in SUBSET Nat
        OBVIOUS
      <4> HIDE DEF B
      <4> QED
        BY <2>2, <4>1, LeastOf, Zenon
    <3>2. b - 1 \in 0..Len(w) /\ \A i \in 1..(b - 1) : i \in 1..Len(w) /\ ~(b <= i)
      OBVIOUS
    <3>3. P(b - 1)
      BY <3>1, <3>2
    <3> QED
      BY <3>2, <3>3, Zenon
  <2> QED
    BY <2>1, <2>2, Zenon
<1> DEFINE n == CHOOSE n \in 0..Len(w) : P(n)
<1>2. n \in 0..Len(w) /\ P(n)
  <2> HIDE DEF P
  <2> QED
    BY <1>1, Zenon
<1>3. ValidPrefix(w) = SubSeq(w, 1, n)
  BY Zenon DEF ValidPrefix
<1> HIDE DEF n
<1>4. /\ SubSeq(w, 1, n) \in Seq(Frame) /\ Len(SubSeq(w, 1, n)) = n
      /\ \A i \in 1..n : SubSeq(w, 1, n)[i] = w[i]
  BY <1>2
<1> QED
  BY <1>2, <1>3, <1>4 DEF Keeps

-----------------------------------------------------------------------------
(* Replay. *)

\* The batch that a commit marker closes is all of its transaction.
LEMMA PendingIs ==
  ASSUME NEW w, NEW iss, LogOK(w, iss), NEW c \in Commits(w)
  PROVE  Pending(w, c) = {j \in Puts(w) : w[j].tx = w[c].tx}
<1>1. c \in 1..Len(w) /\ Len(w) \in Nat /\ w[c].op = "Commit"
  BY DEF LogOK, Commits
<1>2. ASSUME NEW j \in Puts(w), w[j].tx = w[c].tx PROVE j \in Pending(w, c)
  <2>1. j \in 1..(c - 1) /\ w[j].op = "Put"
    BY <1>1, <1>2 DEF LogOK, Puts
  <2>2. ASSUME NEW m \in (j + 1)..(c - 1), w[m] = w[c] PROVE FALSE
    <3>1. m \in Commits(w) /\ m # c
      BY <1>1, <2>1, <2>2 DEF Commits
    <3> QED
      BY <2>2, <3>1, ZenonT(30) DEF LogOK
  <2> QED
    BY <1>2, <2>1, <2>2, ZenonT(40) DEF Pending
<1>3. ASSUME NEW j \in Pending(w, c) PROVE j \in Puts(w) /\ w[j].tx = w[c].tx
  BY <1>1 DEF Pending, Puts
<1> QED
  BY <1>2, <1>3, Zenon

\* The markers that replay counts, and the timestamp of the batch it closes.
Closing(w) == {c \in 1..Len(w) : ClosesBatch(w, c)}
Ts(w, base, c) == base + Cardinality({j \in 1..(c - 1) : ClosesBatch(w, j)})

\* It has every key that was given to the write.
LEMMA WholeBatch ==
  ASSUME NEW w, NEW iss, LogOK(w, iss), NEW c \in Commits(w), NEW i \in Puts(w),
         w[i].tx = w[c].tx, NEW k \in iss[w[i].val]
  PROVE  \E j \in Puts(w) : w[j].tx = w[c].tx /\ w[j].key = k /\ w[j].val = w[i].val
<1>1. PICK j \in Puts(w) : w[j].tx = w[c].tx /\ w[j].key = k
  BY DEF LogOK
<1>2. w[j].val = w[i].val
  BY <1>1 DEF LogOK
<1> QED
  BY <1>1, <1>2, Zenon

\* The markers that close a batch are those with rows of their transaction.
LEMMA ClosingIs ==
  ASSUME NEW w, NEW iss, LogOK(w, iss), NEW c
  PROVE  c \in Closing(w) <=> c \in Commits(w) /\ \E j \in Puts(w) : w[j].tx = w[c].tx
  BY PendingIs DEF Closing, ClosesBatch, Commits

\* What replay puts into the memtable.
LEMMA Replayed ==
  ASSUME NEW w, NEW iss, LogOK(w, iss), NEW base, NEW r
  PROVE  r \in Replay(w, base) <=>
           \E c \in Closing(w), j \in Puts(w) :
             w[j].tx = w[c].tx /\ r = [key |-> w[j].key, ts |-> Ts(w, base, c), val |-> w[j].val]
<1>1. \A c \in Closing(w) : c \in Commits(w)
  BY ClosingIs, Zenon
<1>2. \A c \in Closing(w) : Pending(w, c) = {j \in Puts(w) : w[j].tx = w[c].tx}
  BY <1>1, PendingIs, Zenon
<1>3. Replay(w, base) =
        UNION {{[key |-> w[j].key, ts |-> Ts(w, base, c), val |-> w[j].val] : j \in Pending(w, c)} :
               c \in Closing(w)}
  BY Zenon DEF Replay, Ts, Closing
<1> QED
  BY <1>2, <1>3

\* The rows of a write that replay brings back have all its keys.
LEMMA WholeBatches ==
  ASSUME NEW w, NEW iss, LogOK(w, iss), NEW base, NEW r \in Replay(w, base)
  PROVE  {s.key : s \in {x \in Replay(w, base) : x.val = r.val}} = iss[r.val]
<1>1. PICK c \in Closing(w), j \in Puts(w) :
        w[j].tx = w[c].tx /\ r = [key |-> w[j].key, ts |-> Ts(w, base, c), val |-> w[j].val]
  BY Replayed
<1>2. r.val = w[j].val /\ c \in Commits(w)
  BY <1>1, ClosingIs, Zenon
<1>3. ASSUME NEW s \in Replay(w, base), s.val = r.val
      PROVE  s.key \in iss[r.val]
  <2>1. PICK d \in Closing(w), i \in Puts(w) :
          w[i].tx = w[d].tx /\ s = [key |-> w[i].key, ts |-> Ts(w, base, d), val |-> w[i].val]
    BY Replayed
  <2>2. s.key = w[i].key /\ s.val = w[i].val
    BY <2>1, Zenon
  <2> QED
    BY <1>3, <2>2 DEF LogOK
<1>4. ASSUME NEW k \in iss[r.val]
      PROVE  \E s \in Replay(w, base) : s.val = r.val /\ s.key = k
  <2>1. PICK i \in Puts(w) : w[i].tx = w[c].tx /\ w[i].key = k
    BY <1>1, <1>2, <1>4, SMTT(30) DEF LogOK
  <2>2. w[i].val = r.val
    BY <1>1, <1>2, <2>1, SMTT(30) DEF LogOK
  <2> DEFINE s == [key |-> w[i].key, ts |-> Ts(w, base, c), val |-> w[i].val]
  <2>3. s \in Replay(w, base)
    BY <1>1, <2>1, Replayed, Zenon
  <2>4. s.key = k /\ s.val = r.val
    BY <2>1, <2>2, Zenon
  <2> QED
    BY <2>3, <2>4, Zenon
<1> QED
  BY <1>3, <1>4

\* Timestamps follow the log.
LEMMA TsOrder ==
  ASSUME NEW w, NEW iss, LogOK(w, iss), NEW base \in Nat
  PROVE  /\ Cardinality(Closing(w)) \in Nat
         /\ \A c \in Closing(w) : /\ Ts(w, base, c) \in Nat /\ base <= Ts(w, base, c)
                                  /\ Ts(w, base, c) < base + Cardinality(Closing(w))
         /\ \A c, d \in Closing(w) : c < d => Ts(w, base, c) < Ts(w, base, d)
<1> DEFINE Before(c) == {j \in 1..(c - 1) : ClosesBatch(w, j)}
<1>1. Len(w) \in Nat
  BY DEF LogOK
<1>2. IsFiniteSet(Closing(w)) /\ Cardinality(Closing(w)) \in Nat
  <2>1. IsFiniteSet(1..Len(w))
    BY <1>1, FS_Interval
  <2>2. Closing(w) \in SUBSET (1..Len(w))
    BY Zenon DEF Closing
  <2> QED
    BY <2>1, <2>2, FS_Subset, FS_CardinalityType, Zenon
<1>3. ASSUME NEW S, IsFiniteSet(S), NEW T \in SUBSET S, NEW x \in S, x \notin T
      PROVE  Cardinality(T) \in Nat /\ Cardinality(S) \in Nat /\ Cardinality(T) < Cardinality(S)
  <2>1. /\ IsFiniteSet(T) /\ Cardinality(T) <= Cardinality(S)
        /\ (Cardinality(S) = Cardinality(T) => S = T)
    BY <1>3, FS_Subset, Zenon
  <2>2. Cardinality(T) \in Nat /\ Cardinality(S) \in Nat
    BY <1>3, <2>1, FS_CardinalityType, Zenon
  <2>3. S # T
    BY <1>3, Zenon
  <2> QED
    BY <2>1, <2>2, <2>3
<1>4. ASSUME NEW c \in Closing(w)
      PROVE  /\ Before(c) \in SUBSET Closing(w) /\ c \notin Before(c) /\ IsFiniteSet(Before(c))
             /\ Cardinality(Before(c)) \in Nat
             /\ Cardinality(Before(c)) < Cardinality(Closing(w))
  <2>1. Before(c) \in SUBSET Closing(w) /\ c \notin Before(c)
    BY <1>1 DEF Closing
  <2> HIDE DEF Before
  <2>2. IsFiniteSet(Before(c))
    BY <1>2, <2>1, FS_Subset, Zenon
  <2> QED
    BY <1>2, <1>3, <2>1, <2>2, Zenon
<1>5. ASSUME NEW c \in Closing(w), NEW d \in Closing(w), c < d
      PROVE  Cardinality(Before(c)) < Cardinality(Before(d))
  <2>1. Before(c) \in SUBSET Before(d) /\ c \in Before(d) /\ c \notin Before(c)
    BY <1>1, <1>5 DEF Closing
  <2>2. IsFiniteSet(Before(d))
    BY <1>4, Zenon
  <2> HIDE DEF Before
  <2> QED
    BY <1>3, <2>1, <2>2, Zenon
<1>6. \A c \in Closing(w) : Ts(w, base, c) = base + Cardinality(Before(c))
  BY Zenon DEF Ts
<1> HIDE DEF Before
<1> QED
  BY <1>2, <1>4, <1>5, <1>6, SMTT(30)

-----------------------------------------------------------------------------
(* The log is always one, under every failure that is modelled. *)

IsBatch(b) == /\ b = [tx |-> b.tx, val |-> b.val, keys |-> b.keys, ts |-> b.ts]
              /\ b.keys \in SUBSET Key

LogInv ==
  /\ running \in BOOLEAN /\ synced \in Nat /\ IsBatch(batch)
  /\ writes \in Nat /\ issued \in Seq(SUBSET Key) /\ Len(issued) = writes
  /\ LogOK(wal, issued)
  /\ running => /\ next_tx_id \in 1..(writes + 1)
                /\ \A i \in Puts(wal) \cup Commits(wal) : wal[i].tx < next_tx_id

\* An empty log is one.
LEMMA EmptyLog ==
  ASSUME NEW iss
  PROVE  LogOK(<< >>, iss) /\ Puts(<< >>) = {} /\ Commits(<< >>) = {}
<1>1. << >> \in Seq(Frame) /\ Len(<< >>) = 0
  OBVIOUS
<1>2. Puts(<< >>) = {} /\ Commits(<< >>) = {}
  BY <1>1, SMTT(30) DEF Puts, Commits
<1> QED
  BY <1>1, <1>2, Zenon DEF LogOK

\* A new log is one.
LEMMA LogInit == Init => LogInv
  BY EmptyLog DEF Init, LogInv, NoBatch, IsBatch

\* Steps that leave the log alone.
LEMMA LogKept ==
  ASSUME LogInv, UNCHANGED <<wal, issued, writes, next_tx_id, running>>,
         synced' \in Nat, IsBatch(batch)'
  PROVE  LogInv'
  BY Zenon DEF LogInv

\* What a crash leaves of the log: all of it, but for the write_all that a dead
\* process was in.
LEMMA CrashEffect ==
  ASSUME LogInv, NEW kind \in Crashes, Crash(kind)
  PROVE  /\ ~running' /\ running' \in BOOLEAN /\ synced' = Len(wal') /\ batch' = NoBatch
         /\ UNCHANGED <<issued, writes>>
         /\ Cardinality(batch.keys) \in Nat
         /\ \E m \in 0..Len(wal) :
              /\ Keeps(wal', wal, m) /\ Len(wal') <= m + 1
              /\ kind = "process" =>
                   \/ m = Len(wal)
                   \/ wpc = "sync" /\ Len(wal) - (Cardinality(batch.keys) + 1) <= m
<1> DEFINE card == Cardinality(batch.keys)
           kept == CASE kind = "machine" -> synced
                     [] kind = "process" /\ wpc = "sync" /\ Len(wal) > synced ->
                          Len(wal) - (card + 1)
                     [] OTHER -> Len(wal)
<1>1. card \in Nat
  BY KeyAssumption, FS_Subset, FS_CardinalityType, Zenon DEF KeyAssumption, LogInv, IsBatch
<1>2. wal \in Seq(Frame) /\ Len(wal) \in Nat /\ synced \in Nat
  BY DEF LogInv, LogOK
<1>3. kind \in {"process", "machine"}
  BY ModeAssumption, Zenon DEF ModeAssumption
<1>4. PICK n \in kept..Len(wal) : wal' \in Cut(wal, n)
  BY Zenon DEF Crash
<1> HIDE DEF card
<1>5. /\ kept \in Int
      /\ (kind = "process" => kept = Len(wal) \/ (wpc = "sync" /\ kept = Len(wal) - (card + 1)))
  BY <1>1, <1>2, <1>3
<1> HIDE DEF kept
<1>6. n \in Int /\ kept <= n /\ n <= Len(wal)
  BY <1>2, <1>4, <1>5
<1>7. PICK m \in 0..Len(wal) : Keeps(wal', wal, m) /\ n <= m /\ Len(wal') <= m + 1
  BY <1>2, <1>4, <1>6, Cuts, Zenon
<1>8. kind = "process" => m = Len(wal) \/ (wpc = "sync" /\ Len(wal) - (card + 1) <= m)
  BY <1>1, <1>2, <1>5, <1>6, <1>7
<1>9. /\ ~running' /\ running' \in BOOLEAN /\ synced' = Len(wal') /\ batch' = NoBatch
      /\ UNCHANGED <<issued, writes>>
  BY ZenonT(30) DEF Crash, history
<1> QED
  BY <1>1, <1>7, <1>8, <1>9, Zenon DEF card

\* What open_with_hook keeps of it.
LEMMA OpenEffect ==
  ASSUME LogInv, Open
  PROVE  /\ running' /\ running' \in BOOLEAN /\ UNCHANGED <<issued, writes, batch>>
         /\ LogOK(wal', issued) /\ synced' \in Nat
         /\ \E n \in 0..Len(wal) :
              /\ Keeps(wal', wal, n) /\ Len(wal') = n
              /\ \A i \in 1..n : wal[i] \notin Broken
              /\ n < Len(wal) => wal[n + 1] \in Broken
         /\ next_tx_id' \in 1..(writes + 1)
         /\ \A i \in Puts(wal') \cup Commits(wal') : wal'[i].tx < next_tx_id'
<1>1. /\ running' /\ running' \in BOOLEAN /\ UNCHANGED <<issued, writes, batch>>
      /\ wal' = ValidPrefix(wal) /\ synced' = Len(wal')
      /\ next_tx_id' = HighestTx(wal') + 1
  BY SMTT(30), Zenon DEF Open, history, wvars
<1>2. wal \in Seq(Frame) /\ LogOK(wal, issued) /\ writes \in Nat /\ Len(issued) = writes
  BY Zenon DEF LogInv, LogOK
<1>3. PICK n \in 0..Len(wal) :
        /\ Keeps(wal', wal, n) /\ Len(wal') = n
        /\ \A i \in 1..n : wal[i] \notin Broken
        /\ n < Len(wal) => wal[n + 1] \in Broken
  BY <1>1, <1>2, Decodes, Zenon
<1>4. LogOK(wal', issued)
  BY <1>2, <1>3, KeepsOK, Zenon
<1>5. wal' \in Seq(Frame) /\ Len(wal') \in Nat /\ synced' \in Nat
  BY <1>1, <1>4, SMTT(30) DEF LogOK
<1> DEFINE S == {0} \cup {wal'[i].tx : i \in 1..Len(wal')}
<1>6. \A i \in 1..Len(wal') : i \in Puts(wal') \cup Commits(wal') /\ wal'[i].tx \in 1..writes
  <2> TAKE i \in 1..Len(wal')
  <2>1. wal'[i] \in Frame /\ wal'[i] \notin Broken
    BY <1>3, <1>5 DEF Keeps
  <2>2. wal'[i].op \in {"Put", "Commit"}
    BY <2>1, Frames, Zenon
  <2> QED
    BY <1>2, <1>4, <1>5, <2>2, Zenon DEF Puts, Commits, LogOK
<1>7. S \in SUBSET Nat /\ S # {} /\ \A x \in S : x <= writes
  BY <1>2, <1>6
<1>8. HighestTx(wal') = MaxOf(S)
  BY Zenon DEF HighestTx
<1>9. MaxOf(S) \in S /\ \A x \in S : x <= MaxOf(S)
  <2> HIDE DEF S
  <2> QED
    BY <1>2, <1>7, MaxOfIs, Zenon
<1>10. MaxOf(S) \in 0..writes
  BY <1>2, <1>7, <1>9
<1>11. \A i \in Puts(wal') \cup Commits(wal') : wal'[i].tx \in S /\ wal'[i].tx \in Nat
  BY <1>2, <1>6, SMTT(30) DEF Puts, Commits
<1> HIDE DEF S
<1>12. /\ next_tx_id' \in 1..(writes + 1)
       /\ \A i \in Puts(wal') \cup Commits(wal') : wal'[i].tx < next_tx_id'
  BY <1>1, <1>2, <1>8, <1>9, <1>10, <1>11
<1> QED
  BY <1>1, <1>3, <1>4, <1>5, <1>12, Zenon

\* A write adds its frames, all of them or some.
LEMMA ExtendStep ==
  ASSUME LogInv, running, NEW keys \in SUBSET Key, NEW p,
         PartOK(p, next_tx_id, writes + 1, keys), wal' = wal \o p,
         issued' = Append(issued, keys), writes' = writes + 1, next_tx_id' = next_tx_id + 1,
         UNCHANGED <<running, synced>>, IsBatch(batch)'
  PROVE  LogInv'
<1>1. /\ LogOK(wal, issued) /\ issued \in Seq(SUBSET Key) /\ Len(issued) = writes /\ writes \in Nat
      /\ next_tx_id \in 1..(writes + 1)
      /\ \A i \in Puts(wal) \cup Commits(wal) : wal[i].tx < next_tx_id
  BY Zenon DEF LogInv
<1>2. LogOK(wal', issued')
  BY <1>1, ExtendsOK, Zenon
<1>3. issued' \in Seq(SUBSET Key) /\ Len(issued') = writes'
  BY <1>1
<1>4. \A i \in Puts(wal') \cup Commits(wal') : wal'[i].tx < next_tx_id'
  <2> TAKE i \in Puts(wal') \cup Commits(wal')
  <2>1. wal \in Seq(Frame) /\ p \in Seq(Frame)
    BY <1>1, Zenon DEF LogOK, PartOK
  <2>2. CASE i \in Puts(wal) \cup Commits(wal)
    <3>1. wal'[i] = wal[i]
      BY <2>1, <2>2, Extended, SMTT(30) DEF Puts, Commits
    <3>2. wal[i].tx < next_tx_id /\ wal[i].tx \in Nat
      BY <1>1, <2>2, SMTT(30) DEF LogOK
    <3> QED
      BY <1>1, <3>1, <3>2, SMTT(30)
  <2>3. CASE i > Len(wal) /\ i - Len(wal) \in Puts(p) \cup Commits(p)
    <3>1. p[i - Len(wal)].tx = next_tx_id /\ i - Len(wal) \in 1..Len(p)
      BY <2>3, Zenon DEF PartOK, Puts, Commits
    <3>2. wal'[Len(wal) + (i - Len(wal))] = p[i - Len(wal)] /\ Len(wal) \in Nat
      BY <2>1, <3>1, Extended, Zenon
    <3>3. i \in Int
      BY DEF Puts, Commits
    <3>4. Len(wal) + (i - Len(wal)) = i
      BY <3>2, <3>3
    <3>5. wal'[i].tx = next_tx_id
      BY <3>1, <3>2, <3>4, Zenon
    <3>6. next_tx_id < next_tx_id'
      BY <1>1
    <3> QED
      BY <3>5, <3>6, Zenon
  <2> QED
    BY <2>1, <2>2, <2>3, Extended, ZenonT(30)
<1>5. next_tx_id' \in 1..(writes' + 1) /\ writes' \in Nat
  BY <1>1
<1>6. running' /\ running' \in BOOLEAN /\ synced' \in Nat
  BY Zenon DEF LogInv
<1> QED
  BY <1>2, <1>3, <1>4, <1>5, <1>6, ZenonT(30) DEF LogInv

\* The frames of a write that is handed to write_all.
LEMMA WriteEffect ==
  ASSUME LogInv, NEW keys \in SUBSET Key, WalWrite(keys)
  PROVE  /\ LogInv'
         /\ \E p : LET n == Cardinality(keys)
                   IN  /\ n \in Nat /\ PartOK(p, next_tx_id, writes + 1, keys)
                       /\ wal' = wal \o p /\ Len(p) = n + 1
                       /\ Puts(p) = 1..n /\ Commits(p) = {n + 1}
<1>1. writes \in Nat /\ next_tx_id \in Nat /\ running
  BY DEF LogInv, WalWrite
<1>2. PICK p \in Encodings(next_tx_id,
                           [tx |-> next_tx_id, val |-> writes + 1, keys |-> keys, ts |-> 0]) :
        wal' = wal \o p
  BY Zenon DEF WalWrite
<1>3. LET n == Cardinality(keys)
      IN  /\ n \in Nat /\ PartOK(p, next_tx_id, writes + 1, keys) /\ Len(p) = n + 1
          /\ Puts(p) = 1..n /\ Commits(p) = {n + 1}
  BY <1>1, Encoded, SMTT(30)
<1>4. /\ issued' = Append(issued, keys) /\ writes' = writes + 1 /\ next_tx_id' = next_tx_id + 1
      /\ UNCHANGED <<running, synced>> /\ IsBatch(batch)'
  BY Zenon DEF WalWrite, engine, IsBatch
<1>5. LogInv'
  BY <1>1, <1>2, <1>3, <1>4, ExtendStep, Zenon
<1> QED
  BY <1>2, <1>3, <1>5, Zenon

\* One that fails half way has no marker.
LEMMA WriteFailsStep ==
  ASSUME LogInv, NEW keys \in SUBSET Key, WalWriteFails(keys)
  PROVE  LogInv'
<1>1. /\ writes + 1 \in Nat /\ next_tx_id \in Nat /\ 0 \in Nat
      /\ running /\ IsBatch(batch)
  BY DEF LogInv, WalWriteFails
<1>a. PICK frames \in Encodings(next_tx_id,
                                [tx |-> next_tx_id, val |-> writes + 1, keys |-> keys, ts |-> 0]) :
        \E n \in 0..(Len(frames) - 1) : \E p \in Cut(frames, n) : wal' = wal \o p
  BY Zenon DEF WalWriteFails
<1>b. PICK n \in 0..(Len(frames) - 1) : \E p \in Cut(frames, n) : wal' = wal \o p
  BY <1>a, Zenon
<1>2. PICK p \in Cut(frames, n) : wal' = wal \o p
  BY <1>b, Zenon
<1>3. LET c == Cardinality(keys)
      IN  /\ c \in Nat /\ PartOK(frames, next_tx_id, writes + 1, keys) /\ Len(frames) = c + 1
          /\ Puts(frames) = 1..c /\ Commits(frames) = {c + 1}
  BY <1>1, Encoded
<1>4. frames \in Seq(Frame) /\ n \in Int /\ 0 <= n /\ n < Len(frames) /\ Len(frames) \in Nat
  BY <1>3 DEF PartOK
<1>5. Keeps(p, frames, n)
  BY <1>4, Cuts, SMTT(30)
<1>6. /\ \A i \in Puts(p) : i \in Puts(frames) /\ p[i] = frames[i]
      /\ \A i \in Commits(p) : i \in Commits(frames) /\ i <= n
  BY <1>4, <1>5, KeepsFrames, Zenon
<1>7. Commits(p) = {}
  BY <1>3, <1>4, <1>6
<1>8. PartOK(p, next_tx_id, writes + 1, keys)
  <2>1. p \in Seq(Frame)
    BY <1>5, ZenonT(30) DEF Keeps
  <2>2. \A i \in Puts(p) : p[i].tx = next_tx_id /\ p[i].val = writes + 1 /\ p[i].key \in keys
    BY <1>3, <1>6, SMTT(30) DEF PartOK
  <2> QED
    BY <1>7, <2>1, <2>2, Zenon DEF PartOK
<1>9. /\ issued' = Append(issued, keys) /\ writes' = writes + 1 /\ next_tx_id' = next_tx_id + 1
      /\ UNCHANGED <<running, synced>> /\ IsBatch(batch)'
  BY <1>1, Zenon DEF WalWriteFails, engine, wvars, IsBatch
<1> QED
  BY <1>1, <1>2, <1>8, <1>9, ExtendStep, Zenon

\* The writer's and the flushers' other steps.
LEMMA LogQuiet ==
  ASSUME LogInv,
         \/ WalSync \/ WalSyncFails \/ Apply \/ BackgroundSync \/ UNCHANGED vars
         \/ \E f \in Flusher : \/ Drain(f) \/ WriteSst(f) \/ WriteSstFails(f)
                               \/ AppendManifest(f) \/ ClearMemtable(f)
  PROVE  LogInv'
<1> USE DEF vars, engine, walvars, wvars, history
<1>1. UNCHANGED <<wal, issued, writes, next_tx_id, running>>
  BY Zenon DEF WalSync, WalSyncFails, Apply, BackgroundSync, Drain, WriteSst, WriteSstFails,
         AppendManifest, ClearMemtable
<1>2. synced' \in {synced, Len(wal)} /\ Len(wal) \in Nat /\ synced \in Nat
  BY SMTT(30) DEF WalSync, WalSyncFails, Apply, BackgroundSync, Drain, WriteSst, WriteSstFails,
         AppendManifest, ClearMemtable, LogInv, LogOK
<1>3. batch' \in {batch, NoBatch} \/ WalSync
  BY ZenonT(30) DEF WalSyncFails, Apply, BackgroundSync, Drain, WriteSst, WriteSstFails,
         AppendManifest, ClearMemtable
<1>4. IsBatch(batch)'
  <2>1. CASE WalSync
    <3> DEFINE b == [tx |-> batch.tx, val |-> batch.val, keys |-> batch.keys, ts |-> commit_seq]
    <3>1. batch' = b /\ batch.keys \in SUBSET Key
      BY <2>1, Zenon DEF WalSync, LogInv, IsBatch
    <3> QED
      BY <3>1, Zenon DEF IsBatch
  <2> QED
    BY <1>3, <2>1 DEF NoBatch, LogInv, IsBatch
<1> QED
  BY <1>1, <1>2, <1>4, LogKept, Zenon

\* Every step keeps it one.
LEMMA LogStep == LogInv /\ [Next]_vars => LogInv'
<1> SUFFICES ASSUME LogInv, [Next]_vars PROVE LogInv'
  BY Zenon
<1>1. ASSUME NEW kind \in Crashes, Crash(kind) PROVE LogInv'
  <2>1. /\ ~running' /\ running' \in BOOLEAN /\ synced' = Len(wal') /\ batch' = NoBatch
        /\ UNCHANGED <<issued, writes>>
    BY <1>1, CrashEffect, Zenon
  <2>2. PICK m : Keeps(wal', wal, m)
    BY <1>1, CrashEffect, Zenon
  <2>3. LogOK(wal', issued)
    BY <2>2, KeepsOK, Zenon DEF LogInv
  <2>4. Len(wal') \in Nat /\ IsBatch(batch)'
    BY <2>1, <2>3, SMTT(30) DEF LogOK, NoBatch, IsBatch
  <2> QED
    BY <2>1, <2>3, <2>4, Zenon DEF LogInv
<1>2. CASE Open
  <2>1. /\ running' /\ running' \in BOOLEAN /\ UNCHANGED <<issued, writes, batch>>
        /\ LogOK(wal', issued) /\ synced' \in Nat
        /\ next_tx_id' \in 1..(writes + 1)
        /\ \A i \in Puts(wal') \cup Commits(wal') : wal'[i].tx < next_tx_id'
    BY <1>2, OpenEffect, Zenon
  <2> QED
    BY <2>1, Zenon DEF LogInv
<1>3. ASSUME NEW f \in Flusher, ResetWal(f) PROVE LogInv'
  <2>1. CASE UNCHANGED walvars
    BY <1>3, <2>1, LogKept, Zenon DEF ResetWal, LogInv, engine, walvars, wvars, history
  <2>2. CASE wal' = << >> /\ synced' = 0
    <3>1. UNCHANGED <<issued, writes, next_tx_id, running, batch>>
      BY <1>3, Zenon DEF ResetWal, engine, wvars, history
    <3> QED
      BY <2>2, <3>1, EmptyLog, Zenon DEF LogInv
  <2> QED
    BY <1>3, <2>1, <2>2, Zenon DEF ResetWal
<1> QED
  BY <1>1, <1>2, <1>3, WriteEffect, WriteFailsStep, LogQuiet, Zenon DEF Next

\* The rows that recovery brings back of a write have all the keys of its batch:
\* no crash, and no append or sync that fails half way, leaves a part of a batch
\* that a later marker closes.
THEOREM ReplayAlwaysAtomic == Spec => AtomicReplay
<1>1. LogInv /\ [Next]_vars =>
        [(~running /\ running') =>
           \A r \in memtable' :
             {s.key : s \in {x \in memtable' : x.val = r.val}} = issued[r.val]]_vars
  <2> SUFFICES ASSUME LogInv, Next, ~running, running', NEW r \in memtable'
               PROVE  {s.key : s \in {x \in memtable' : x.val = r.val}} = issued[r.val]
    BY Zenon
  <2>1. Open
    BY ZenonT(30)
    DEF Next, Crash, WalWrite, WalWriteFails, WalSync, WalSyncFails, Apply, BackgroundSync,
        Drain, WriteSst, WriteSstFails, AppendManifest, ClearMemtable, ResetWal
  <2>2. LogOK(wal', issued)
    BY <2>1, OpenEffect, Zenon
  <2>3. memtable' = Replay(wal', SstMaxCommit + 1)
    BY <2>1, Zenon DEF Open
  <2> QED
    BY <2>2, <2>3, WholeBatches
<1> QED
  BY <1>1, LogInit, LogStep, PTL DEF Spec, AtomicReplay

-----------------------------------------------------------------------------
(* What a log holds, as it grows and is cut. *)

\* The log holds write v, and its Commit marker.
Complete(w, v) == \E c \in Commits(w), i \in Puts(w) : w[i].tx = w[c].tx /\ w[i].val = v

\* The batches of a log do not overlap, and come in the order of their writes.
InOrder(w) ==
  \A c \in Commits(w), i, j \in Puts(w) :
    (w[i].tx = w[c].tx /\ w[i].val < w[j].val) => c < j

\* Only a crash breaks a frame, the last one.
TornAtEnd(w, open) == \A i \in 1..Len(w) : w[i] \in Broken => ~open /\ i = Len(w)

\* Of the frames of an extended log, the new ones are those of the new write.
Grown(x, w, t, n) ==
  /\ \A i \in Puts(x) :
       \/ /\ i \in Puts(w) /\ x[i] = w[i] /\ i <= Len(w)
          /\ x[i].val \in Nat /\ x[i].val <= n /\ x[i].tx < t
       \/ i > Len(w) /\ x[i].val = n + 1 /\ x[i].tx = t
  /\ \A c \in Commits(x) :
       \/ c \in Commits(w) /\ x[c] = w[c] /\ c <= Len(w) /\ x[c].tx < t
       \/ c > Len(w) /\ x[c].tx = t

\* A batch, or what is left of it, extends a log so.
LEMMA ExtendedIs ==
  ASSUME NEW w, NEW iss \in Seq(SUBSET Key), LogOK(w, iss), NEW t \in Nat, NEW keys, NEW p,
         PartOK(p, t, Len(iss) + 1, keys),
         \A i \in Puts(w) \cup Commits(w) : w[i].tx < t
  PROVE  Grown(w \o p, w, t, Len(iss))
<1> DEFINE x == w \o p
<1>1. w \in Seq(Frame) /\ p \in Seq(Frame) /\ Len(w) \in Nat /\ Len(iss) \in Nat
  BY SMTT(30) DEF LogOK, PartOK
<1>2. /\ \A i \in 1..Len(w) : x[i] = w[i]
      /\ \A i \in 1..Len(p) : x[Len(w) + i] = p[i]
      /\ \A i \in Puts(x) : i \in Puts(w) \/ (i > Len(w) /\ i - Len(w) \in Puts(p))
      /\ \A i \in Commits(x) : i \in Commits(w) \/ (i > Len(w) /\ i - Len(w) \in Commits(p))
  BY <1>1, Extended, Zenon
<1>3. \A i \in Puts(x) \cup Commits(x) : i \in Nat
  BY DEF Puts, Commits
<1> HIDE DEF x
<1>4. ASSUME NEW i \in Puts(x)
      PROVE  \/ /\ i \in Puts(w) /\ x[i] = w[i] /\ i <= Len(w)
                /\ x[i].val \in Nat /\ x[i].val <= Len(iss) /\ x[i].tx < t
             \/ i > Len(w) /\ x[i].val = Len(iss) + 1 /\ x[i].tx = t
  <2>1. CASE i \in Puts(w)
    <3>1. i \in 1..Len(w) /\ w[i].val \in 1..Len(iss) /\ w[i].tx < t
      BY <2>1, Zenon DEF Puts, LogOK
    <3> QED
      BY <1>1, <1>2, <2>1, <3>1, SMTT(30)
  <2>2. CASE i > Len(w) /\ i - Len(w) \in Puts(p)
    <3>1. i - Len(w) \in 1..Len(p) /\ p[i - Len(w)].val = Len(iss) + 1 /\ p[i - Len(w)].tx = t
      BY <2>2, Zenon DEF Puts, PartOK
    <3>2. Len(w) + (i - Len(w)) = i
      BY <1>1, <1>3
    <3> QED
      BY <1>2, <2>2, <3>1, <3>2, Zenon
  <2> QED
    BY <1>2, <2>1, <2>2, ZenonT(30)
<1>5. ASSUME NEW c \in Commits(x)
      PROVE  \/ c \in Commits(w) /\ x[c] = w[c] /\ c <= Len(w) /\ x[c].tx < t
             \/ c > Len(w) /\ x[c].tx = t
  <2>1. CASE c \in Commits(w)
    <3>1. c \in 1..Len(w) /\ w[c].tx < t
      BY <2>1, ZenonT(30) DEF Commits, LogOK
    <3> QED
      BY <1>1, <1>2, <2>1, <3>1, SMTT(30)
  <2>2. CASE c > Len(w) /\ c - Len(w) \in Commits(p)
    <3>1. c - Len(w) \in 1..Len(p) /\ p[c - Len(w)].tx = t
      BY <2>2, ZenonT(30) DEF Commits, PartOK
    <3>2. Len(w) + (c - Len(w)) = c
      BY <1>1, <1>3
    <3> QED
      BY <1>2, <2>2, <3>1, <3>2, Zenon
  <2> QED
    BY <1>2, <2>1, <2>2, ZenonT(30)
<1> QED
  BY <1>4, <1>5, ZenonT(30) DEF Grown, x

\* A log keeps what it holds when it is extended, and what it keeps of a crash.
LEMMA CompleteMore ==
  ASSUME NEW w \in Seq(Frame), NEW p \in Seq(Frame), NEW v, Complete(w, v)
  PROVE  Complete(w \o p, v)
<1>1. PICK c \in Commits(w), i \in Puts(w) : w[i].tx = w[c].tx /\ w[i].val = v
  BY Zenon DEF Complete
<1>2. c \in Commits(w \o p) /\ i \in Puts(w \o p) /\ (w \o p)[c] = w[c] /\ (w \o p)[i] = w[i]
  <2>1. c \in 1..Len(w) /\ w[c].op = "Commit" /\ i \in 1..Len(w) /\ w[i].op = "Put"
    BY SMTT(30), Zenon DEF Puts, Commits
  <2>2. (w \o p)[c] = w[c] /\ (w \o p)[i] = w[i] /\ c \in 1..Len(w \o p) /\ i \in 1..Len(w \o p)
    BY <2>1, Extended, SMTT(30)
  <2> QED
    BY <2>1, <2>2, ZenonT(30) DEF Puts, Commits
<1> QED
  BY <1>1, <1>2, Zenon DEF Complete

\* What a crash or an open keeps up to the marker of a write, holds it.
LEMMA CompleteKept ==
  ASSUME NEW w, NEW iss, LogOK(w, iss), NEW u, NEW n, Keeps(u, w, n), NEW v, Complete(w, v),
         \A c \in Commits(w), i \in Puts(w) : (w[i].tx = w[c].tx /\ w[i].val = v) => c <= n
  PROVE  Complete(u, v)
<1>1. PICK c \in Commits(w), i \in Puts(w) : w[i].tx = w[c].tx /\ w[i].val = v
  BY SMTT(30), Zenon DEF Complete
<1>2. i < c /\ c <= n
  BY <1>1, ZenonT(30) DEF LogOK
<1>3. c \in 1..Len(w) /\ i \in 1..Len(w) /\ Len(w) \in Nat /\ n \in Nat
  BY DEF Commits, Puts, LogOK, Keeps
<1>4. c \in 1..n /\ i \in 1..n
  BY <1>2, <1>3
<1>5. c \in Commits(u) /\ i \in Puts(u)
  BY <1>4, KeepsFrames, ZenonT(30) DEF LogOK
<1>6. u[c] = w[c] /\ u[i] = w[i]
  BY <1>4, ZenonT(30) DEF Keeps
<1> QED
  BY <1>1, <1>5, <1>6, Zenon DEF Complete

\* ... and stays in order.
LEMMA InOrderKept ==
  ASSUME NEW w, NEW iss, LogOK(w, iss), NEW u, NEW n, Keeps(u, w, n), InOrder(w)
  PROVE  InOrder(u)
<1>1. /\ \A i \in Puts(u) : i \in Puts(w) /\ u[i] = w[i]
      /\ \A i \in Commits(u) : i \in Commits(w) /\ u[i] = w[i]
  BY KeepsFrames, SMTT(30) DEF LogOK
<1> QED
  BY <1>1, Zenon DEF InOrder

\* ... and so does one that a batch extends.
LEMMA InOrderMore ==
  ASSUME NEW w, NEW iss \in Seq(SUBSET Key), LogOK(w, iss), NEW t \in Nat, NEW keys, NEW p,
         PartOK(p, t, Len(iss) + 1, keys),
         \A i \in Puts(w) \cup Commits(w) : w[i].tx < t,
         InOrder(w)
  PROVE  InOrder(w \o p)
<1> DEFINE x == w \o p
<1>1. /\ \A i \in Puts(x) :
           \/ /\ i \in Puts(w) /\ x[i] = w[i] /\ i <= Len(w)
              /\ x[i].val \in Nat /\ x[i].val <= Len(iss) /\ x[i].tx < t
           \/ i > Len(w) /\ x[i].val = Len(iss) + 1 /\ x[i].tx = t
      /\ \A c \in Commits(x) :
           \/ c \in Commits(w) /\ x[c] = w[c] /\ c <= Len(w) /\ x[c].tx < t
           \/ c > Len(w) /\ x[c].tx = t
  <2>1. Grown(x, w, t, Len(iss))
    BY ExtendedIs, Zenon
  <2> QED
    BY <2>1, Zenon DEF Grown
<1>2. /\ \A i \in Puts(x) : i \in Nat
      /\ \A i \in Commits(x) : i \in Nat
      /\ Len(w) \in Nat /\ Len(iss) \in Nat
  BY SMTT(30) DEF Puts, Commits, LogOK
<1>3. ASSUME NEW c \in Commits(x), NEW i \in Puts(x), NEW j \in Puts(x),
             x[i].tx = x[c].tx, x[i].val < x[j].val
      PROVE  c < j
  <2> HIDE DEF x
  <2>1. CASE c > Len(w)
    <3>1. x[i].val = Len(iss) + 1
      BY <1>1, <1>2, <1>3, <2>1, SMTT(30)
    <3>2. x[j].val \in Nat /\ x[j].val <= Len(iss) + 1
      BY <1>1, <1>2, SMTT(30)
    <3> QED
      BY <1>2, <1>3, <3>1, <3>2, SMTT(30)
  <2>2. CASE c \in Commits(w) /\ x[c] = w[c] /\ c <= Len(w) /\ x[c].tx < t
    <3>1. i \in Puts(w) /\ x[i] = w[i]
      BY <1>1, <1>3, <2>2, SMTT(30)
    <3>2. CASE j > Len(w)
      BY <1>2, <2>2, <3>2, SMTT(30)
    <3>3. CASE j \in Puts(w) /\ x[j] = w[j]
      BY <1>3, <2>2, <3>1, <3>3, Zenon DEF InOrder
    <3> QED
      BY <1>1, <3>2, <3>3, Zenon
  <2> QED
    BY <1>1, <2>1, <2>2, Zenon
<1> QED
  BY <1>3, Zenon DEF InOrder

\* Recovery reads what the log holds.
LEMMA PrefixHolds ==
  ASSUME NEW w, NEW iss, LogOK(w, iss), NEW open, TornAtEnd(w, open), NEW v, Complete(w, v)
  PROVE  Complete(ValidPrefix(w), v) /\ LogOK(ValidPrefix(w), iss)
<1>1. w \in Seq(Frame) /\ Len(w) \in Nat
  <2>1. w \in Seq(Frame)
    BY Zenon DEF LogOK
  <2> QED
    BY <2>1
<1>2. PICK n \in 0..Len(w) : /\ Keeps(ValidPrefix(w), w, n)
                             /\ n < Len(w) => w[n + 1] \in Broken
  BY <1>1, Decodes, Zenon
<1>3. \A c \in Commits(w) : c <= n
  <2> SUFFICES ASSUME NEW c \in Commits(w), ~(c <= n) PROVE FALSE
    BY SMTT(30), Zenon
  <2>1. c \in 1..Len(w) /\ w[c] \notin Broken
    BY Zenon DEF Commits, Broken
  <2>2. n + 1 \in 1..Len(w) /\ w[n + 1] \in Broken
    BY <1>1, <1>2, <2>1, SMTT(30)
  <2>3. n + 1 = Len(w)
    BY <2>2, Zenon DEF TornAtEnd
  <2>4. c = n + 1
    BY <1>1, <1>2, <2>1, <2>3
  <2> QED
    BY <2>1, <2>2, <2>4, Zenon
<1> QED
  BY <1>2, <1>3, CompleteKept, KeepsOK, Zenon

-----------------------------------------------------------------------------
(* The flushers. *)

\* The flusher past its SST has the guard, so that the file it wrote is still
\* the one it will list.
FlushInv ==
  /\ faults \in Nat
  /\ manifest \subseteq Nat /\ \E m \in Nat : \A g \in manifest : g <= m
  /\ fpc \in [Flusher -> {"idle", "drained", "written", "listed", "cleared"}]
  /\ rows = [f \in Flusher |-> rows[f]]
  /\ \A f \in Flusher : fpc[f] = "idle" => rows[f] = {}
  /\ \A f \in Flusher : fpc[f] \in {"written", "listed", "cleared"} => compaction_guard = f
  /\ \A f \in Flusher : fpc[f] = "written" =>
       NextFileId \in DOMAIN ssts /\ ssts[NextFileId] = rows[f]
  /\ ~running => /\ memtable = {} /\ wpc = "idle"
                 /\ \A f \in Flusher : fpc[f] = "idle"

\* The next file id is above every listed file.
LEMMA NextIdNew ==
  ASSUME FlushInv
  PROVE  NextFileId \in Nat /\ NextFileId \notin manifest /\ \A g \in manifest : g < NextFileId
<1>1. PICK m \in Nat : \A g \in manifest : g <= m
  BY Zenon DEF FlushInv
<1> DEFINE S == {0} \cup manifest
<1>2. S \in SUBSET Nat /\ S # {} /\ \A x \in S : x <= m
  BY <1>1 DEF FlushInv
<1> HIDE DEF S
<1>3. MaxOf(S) \in Nat /\ \A x \in S : x <= MaxOf(S)
  BY <1>2, MaxOfIs, Zenon
<1>4. \A g \in manifest : g \in S /\ g \in Nat
  BY Zenon DEF S, FlushInv
<1>5. NextFileId = MaxOf(S) + 1
  BY Zenon DEF NextFileId, S
<1> QED
  BY <1>3, <1>4, <1>5

\* It holds when the database is new.
LEMMA FlushInit == Init => FlushInv
<1> SUFFICES ASSUME Init PROVE FlushInv
  BY Zenon
<1>1. manifest = {} /\ faults = 0 /\ running = TRUE
  BY Zenon DEF Init
<1>2. fpc = [f \in Flusher |-> "idle"] /\ rows = [f \in Flusher |-> {}]
  BY Zenon DEF Init
<1>3. manifest \subseteq Nat /\ \E m \in Nat : \A g \in manifest : g <= m
  BY <1>1, Zenon
<1> QED
  BY <1>1, <1>2, <1>3, Zenon DEF FlushInv

\* The steps of flush itself.
LEMMA FlusherStep ==
  ASSUME FlushInv, NEW f \in Flusher,
         \/ Drain(f) \/ WriteSst(f) \/ WriteSstFails(f)
         \/ AppendManifest(f) \/ ClearMemtable(f) \/ ResetWal(f)
  PROVE  FlushInv'
<1> USE DEF engine, walvars, diskvars, wvars, fvars, history
<1>1. /\ running /\ running' /\ faults \in Nat
      /\ fpc \in [Flusher -> {"idle", "drained", "written", "listed", "cleared"}]
      /\ rows = [g \in Flusher |-> rows[g]]
      /\ \A g \in Flusher : fpc[g] = "idle" => rows[g] = {}
      /\ \A g \in Flusher : fpc[g] \in {"written", "listed", "cleared"} => compaction_guard = g
      /\ \A g \in Flusher : fpc[g] = "written" =>
           NextFileId \in DOMAIN ssts /\ ssts[NextFileId] = rows[g]
  BY Zenon DEF FlushInv, Drain, WriteSst, WriteSstFails, AppendManifest, ClearMemtable, ResetWal
<1>2. faults' \in Nat
  BY <1>1 DEF Drain, WriteSst, WriteSstFails, AppendManifest, ClearMemtable, ResetWal
<1>3. manifest' \subseteq Nat /\ \E m \in Nat : \A g \in manifest' : g <= m
  <2>1. CASE manifest' = manifest
    BY <2>1, Zenon DEF FlushInv
  <2>2. CASE AppendManifest(f)
    <3>1. manifest' = manifest \cup {NextFileId} /\ manifest \subseteq Nat
      BY <2>2, Zenon DEF AppendManifest, FlushInv
    <3>2. NextFileId \in Nat /\ \A g \in manifest : g <= NextFileId
      BY <3>1, NextIdNew, SMTT(30)
    <3> QED
      BY <3>1, <3>2
  <2> QED
    BY <2>1, <2>2, Zenon DEF Drain, WriteSst, WriteSstFails, ClearMemtable, ResetWal
<1>4. /\ fpc' \in [Flusher -> {"idle", "drained", "written", "listed", "cleared"}]
      /\ \A g \in Flusher : g # f => fpc'[g] = fpc[g]
      /\ \/ Drain(f) /\ fpc'[f] = "drained"
         \/ WriteSst(f) /\ fpc'[f] = "written"
         \/ WriteSstFails(f) /\ fpc'[f] = "idle"
         \/ AppendManifest(f) /\ fpc'[f] = "listed"
         \/ ClearMemtable(f) /\ fpc'[f] = "cleared"
         \/ ResetWal(f) /\ fpc'[f] = "idle"
  BY <1>1, Zenon DEF Drain, WriteSst, WriteSstFails, AppendManifest, ClearMemtable, ResetWal
<1>5. /\ rows' = [g \in Flusher |-> rows'[g]]
      /\ \A g \in Flusher : g # f => rows'[g] = rows[g]
      /\ fpc'[f] = "idle" => rows'[f] = {}
      /\ fpc'[f] \in {"written", "listed", "cleared"} => rows'[f] = rows[f]
  BY <1>1, <1>4, Zenon DEF Drain, WriteSst, WriteSstFails, AppendManifest, ClearMemtable, ResetWal
<1>6. \A g \in Flusher : fpc'[g] = "idle" => rows'[g] = {}
  BY <1>1, <1>4, <1>5, Zenon
<1>7. ASSUME NEW g \in Flusher, fpc'[g] \in {"written", "listed", "cleared"}
      PROVE  compaction_guard' = g
  <2>1. CASE compaction_guard' = compaction_guard
    BY <1>1, <1>4, <1>7, <2>1, Zenon DEF Drain, WriteSst, WriteSstFails, AppendManifest,
       ClearMemtable, ResetWal
  <2>2. CASE WriteSst(f)
    BY <1>1, <1>4, <1>7, <2>2, GuardAssumption, Zenon DEF WriteSst, GuardAssumption
  <2>3. CASE ResetWal(f)
    BY <1>1, <1>4, <1>7, <2>3, Zenon DEF ResetWal
  <2> QED
    BY <2>1, <2>2, <2>3, Zenon DEF Drain, WriteSstFails, AppendManifest, ClearMemtable
<1>8. ASSUME NEW g \in Flusher, fpc'[g] = "written"
      PROVE  NextFileId' \in DOMAIN ssts' /\ ssts'[NextFileId'] = rows'[g]
  <2>1. CASE WriteSst(f)
    <3>1. g = f
      BY <1>1, <1>4, <1>8, <2>1, GuardAssumption, Zenon DEF WriteSst, GuardAssumption
    <3>2. NextFileId' = NextFileId
      BY <2>1, Zenon DEF WriteSst, NextFileId
    <3> QED
      BY <1>5, <1>8, <3>1, <3>2, <2>1, Zenon DEF WriteSst
  <2>2. CASE ~WriteSst(f)
    <3>1. g # f /\ fpc[g] = "written"
      BY <1>4, <1>8, <2>2, Zenon
    <3>2. ~AppendManifest(f)
      BY <1>1, <3>1, Zenon DEF AppendManifest
    <3>3. UNCHANGED <<manifest, ssts>>
      BY <2>2, <3>2, Zenon DEF Drain, WriteSstFails, ClearMemtable, ResetWal
    <3>4. NextFileId' = NextFileId
      BY <3>3, Zenon DEF NextFileId
    <3> QED
      BY <1>1, <1>5, <3>1, <3>3, <3>4, Zenon
  <2> QED
    BY <2>1, <2>2, Zenon
<1> QED
  BY <1>1, <1>2, <1>3, <1>4, <1>5, <1>6, <1>7, <1>8, Zenon DEF FlushInv

\* ... and of everything else.
LEMMA FlushStep == FlushInv /\ [Next]_vars => FlushInv'
<1> SUFFICES ASSUME FlushInv, [Next]_vars PROVE FlushInv'
  BY Zenon
<1> USE DEF engine, walvars, diskvars, wvars, fvars, history
<1>1. ASSUME NEW kind \in Crashes, Crash(kind) PROVE FlushInv'
  <2>1. /\ manifest' = manifest /\ running' = FALSE /\ faults' \in Nat
        /\ memtable' = {} /\ wpc' = "idle"
        /\ fpc' = [f \in Flusher |-> "idle"] /\ rows' = [f \in Flusher |-> {}]
    BY <1>1 DEF Crash, FlushInv
  <2>2. manifest' \subseteq Nat /\ \E m \in Nat : \A g \in manifest' : g <= m
    BY <2>1, Zenon DEF FlushInv
  <2> QED
    BY <2>1, <2>2, Zenon DEF FlushInv
<1>2. ASSUME UNCHANGED <<manifest, ssts, fpc, rows, compaction_guard>>, faults' \in Nat,
             running' \/ UNCHANGED <<running, memtable, wpc>>
      PROVE  FlushInv'
  <2>1. NextFileId' = NextFileId
    BY <1>2, Zenon DEF NextFileId
  <2> QED
    BY <1>2, <2>1 DEF FlushInv
<1>3. CASE Open
  BY <1>2, <1>3, Zenon DEF Open, FlushInv
<1>4. ASSUME NEW keys \in SUBSET Key, WalWrite(keys) \/ WalWriteFails(keys) PROVE FlushInv'
  BY <1>2, <1>4 DEF WalWrite, WalWriteFails, FlushInv
<1>5. CASE WalSync \/ WalSyncFails \/ Apply \/ BackgroundSync \/ UNCHANGED vars
  BY <1>2, <1>5 DEF WalSync, WalSyncFails, Apply, BackgroundSync, vars, FlushInv
<1> QED
  BY <1>1, <1>3, <1>4, <1>5, FlusherStep, Zenon DEF Next

-----------------------------------------------------------------------------
(* Timestamps. *)

\* The rows in memory, in each flusher's hands and in each listed SST.
Groups == {memtable} \cup {rows[f] : f \in Flusher}
            \cup {ssts[g] : g \in manifest \cap DOMAIN ssts}

\* A row with a higher timestamp than a later write of its key is in the
\* company of a row that is later still and no older by timestamp.
Ranked(G) ==
  /\ UNION G \subseteq Row
  /\ \E m \in Nat : \A a \in UNION G : a.ts <= m
  /\ \A a, b \in UNION G : a.ts = b.ts => a.val = b.val
  /\ \A S \in G : \A b \in S, a \in UNION G :
       (a.key = b.key /\ a.ts < b.ts /\ b.val < a.val) =>
         \E c \in S : c.key = b.key /\ a.val <= c.val /\ b.ts <= c.ts

\* A row is of a write that was issued, and that the log holds if it holds
\* anything of it or of an earlier one.
Traced(a, w, iss) ==
  /\ a.val \in 1..Len(iss) /\ a.key \in iss[a.val]
  /\ (\E i \in Puts(w) : w[i].val <= a.val) => Complete(w, a.val)

\* The write in progress: nothing of it is stored before it has its timestamp,
\* and until then the frames a crash may cut off are its own.
Current ==
  /\ wpc \in {"idle", "sync", "apply"}
  /\ wpc # "idle" =>
       /\ batch.val = writes /\ writes >= 1 /\ batch.keys = issued[writes]
       /\ Puts(wal) # {} => Complete(wal, writes)
  /\ wpc = "sync" =>
       /\ \A a \in UNION Groups : a.val # writes
       /\ \A c \in Commits(wal), i \in Puts(wal) :
            (wal[i].tx = wal[c].tx /\ wal[i].val # writes) =>
              c <= Len(wal) - (Cardinality(batch.keys) + 1)
  /\ wpc = "apply" =>
       /\ batch.ts = commit_seq - 1 /\ commit_seq >= 1
       /\ todo \subseteq batch.keys
       /\ \A a \in UNION Groups : a.ts = batch.ts => a.val = writes

OrderInv ==
  /\ Ranked(Groups)
  /\ \A a \in UNION Groups : Traced(a, wal, issued)
  /\ InOrder(wal)
  /\ TornAtEnd(wal, running)
  /\ commit_seq \in Nat
  /\ running => \A a \in UNION Groups : a.ts < commit_seq
  /\ Current

MildInv == Mild => OrderInv

-----------------------------------------------------------------------------
(* The groups. *)

\* Groups that disappear or move change nothing.
LEMMA RankedFewer ==
  ASSUME NEW G, NEW H, Ranked(G), H \subseteq G \cup {{}}
  PROVE  Ranked(H)
<1>1. UNION H \subseteq UNION G /\ \A S \in H : S \in G \/ S = {}
  BY Zenon
<1> QED
  BY <1>1, Zenon DEF Ranked

\* A row of the last write joins one of them.
LEMMA RankedOneMore ==
  ASSUME NEW G, Ranked(G), NEW S \in G, NEW r \in Row,
         \A a \in UNION G : a.ts <= r.ts /\ a.val <= r.val /\ (a.ts = r.ts => a.val = r.val)
  PROVE  Ranked(G \cup {S \cup {r}})
<1> DEFINE H == G \cup {S \cup {r}}
<1>1. UNION H = (UNION G) \cup {r}
  BY Zenon
<1>2. UNION H \subseteq Row /\ \A a \in UNION H : a.ts \in Nat /\ a.val \in Nat
  BY <1>1, Zenon DEF Ranked, Row
<1>3. \A a \in UNION H : a.ts <= r.ts /\ a.val <= r.val /\ (a.ts = r.ts => a.val = r.val)
  BY <1>1, <1>2
<1>4. r \in UNION H /\ r.ts \in Nat
  BY <1>1, <1>2, Zenon
<1>5. \A a, b \in UNION H : a.ts = b.ts => a.val = b.val
  BY <1>1, <1>3, Zenon DEF Ranked
<1>6. ASSUME NEW T \in H, NEW b \in T, NEW a \in UNION H,
             a.key = b.key, a.ts < b.ts, b.val < a.val
      PROVE  \E c \in T : c.key = b.key /\ a.val <= c.val /\ b.ts <= c.ts
  <2>1. b \in UNION H
    BY <1>6, Zenon
  <2>2. a # r
    BY <1>2, <1>3, <1>4, <1>6, <2>1
  <2>3. b # r
    BY <1>2, <1>3, <1>4, <1>6, <2>1
  <2>4. a \in UNION G /\ \E U \in G : b \in U /\ U \subseteq T
    BY <1>1, <1>6, <2>2, <2>3, Zenon
  <2> QED
    BY <1>6, <2>4, Zenon DEF Ranked
<1> HIDE DEF H
<1>7. Ranked(H)
  BY <1>2, <1>3, <1>4, <1>5, <1>6, Zenon DEF Ranked
<1> QED
  BY <1>7, Zenon DEF H

\* The rows of recovery join those of the SSTs: they all have higher
\* timestamps, and the log has the later writes that the SSTs have.
LEMMA RankedReplay ==
  ASSUME NEW G, Ranked(G), NEW w, NEW iss, LogOK(w, iss), InOrder(w),
         NEW base \in Nat, \A a \in UNION G : a.ts < base /\ Traced(a, w, iss)
  PROVE  Ranked(G \cup {Replay(w, base)})
<1> DEFINE M == Replay(w, base)
           H == G \cup {M}
           n == Cardinality(Closing(w))
<1>1. /\ n \in Nat
      /\ \A c \in Closing(w) : /\ Ts(w, base, c) \in Nat /\ base <= Ts(w, base, c)
                               /\ Ts(w, base, c) < base + n
      /\ \A c, d \in Closing(w) : c < d => Ts(w, base, c) < Ts(w, base, d)
  BY TsOrder, Zenon
<1>2. \A r \in M : \E c \in Closing(w), j \in Puts(w) :
        w[j].tx = w[c].tx /\ r = [key |-> w[j].key, ts |-> Ts(w, base, c), val |-> w[j].val]
  BY Replayed
<1>3. \A c \in Closing(w) : c \in Commits(w) /\ c \in Nat
  BY ClosingIs DEF Closing
<1>4. \A j \in Puts(w) : w[j].key \in Key /\ w[j].val \in Nat /\ j \in Nat
  <2> TAKE j \in Puts(w)
  <2>1. w[j] \in Frame /\ w[j].op = "Put" /\ j \in Nat
    BY SMTT(30) DEF LogOK, Puts
  <2> QED
    BY <2>1, Frames, Zenon
<1>5. \A r \in M : r \in Row /\ base <= r.ts /\ r.ts < base + n
  <2> TAKE r \in M
  <2>1. PICK c \in Closing(w), j \in Puts(w) :
          w[j].tx = w[c].tx /\ r = [key |-> w[j].key, ts |-> Ts(w, base, c), val |-> w[j].val]
    BY <1>2, Zenon
  <2> QED
    BY <1>1, <1>4, <2>1, Zenon DEF Row
<1>6. UNION H = (UNION G) \cup M
  BY Zenon
<1> HIDE DEF n, M
<1>7. UNION G \subseteq Row /\ UNION H \subseteq Row
  BY <1>5, <1>6, Zenon DEF Ranked
<1>8. /\ \A a \in Row : a.ts \in Nat /\ a.val \in Nat
      /\ \A a \in UNION G : a.ts \in Nat /\ a.ts < base
      /\ \A a \in M : a.ts \in Nat /\ base <= a.ts /\ a.ts < base + n
  BY <1>5, <1>7, Zenon DEF Row
\* Timestamps order the replayed rows as their writes.
<1>9. \A a, b \in M : a.val < b.val => a.ts < b.ts
  <2> SUFFICES ASSUME NEW a \in M, NEW b \in M, a.val < b.val PROVE a.ts < b.ts
    BY Zenon
  <2>1. PICK c \in Closing(w), i \in Puts(w) :
          w[i].tx = w[c].tx /\ a = [key |-> w[i].key, ts |-> Ts(w, base, c), val |-> w[i].val]
    BY <1>2, Zenon
  <2>2. PICK d \in Closing(w), j \in Puts(w) :
          w[j].tx = w[d].tx /\ b = [key |-> w[j].key, ts |-> Ts(w, base, d), val |-> w[j].val]
    BY <1>2, Zenon
  <2>3. c < j
    BY <1>3, <2>1, <2>2, Zenon DEF InOrder
  <2>4. j < d
    BY <1>3, <2>2, Zenon DEF LogOK
  <2>5. c < d
    BY <1>3, <1>4, <2>3, <2>4, SMTT(30)
  <2> QED
    BY <1>1, <2>1, <2>2, <2>5, Zenon
<1>10. \A a, b \in M : a.ts = b.ts => a.val = b.val
  <2> SUFFICES ASSUME NEW a \in M, NEW b \in M, a.ts = b.ts PROVE a.val = b.val
    BY Zenon
  <2>1. a.val \in Nat /\ b.val \in Nat /\ a.ts \in Nat /\ b.ts \in Nat
    BY <1>5, <1>8, Zenon
  <2>2. ~(a.val < b.val) /\ ~(b.val < a.val)
    BY <1>9, <2>1, SMTT(30)
  <2> QED
    BY <2>1, <2>2
\* A later write that an SST has is replayed too.
<1>11. ASSUME NEW b \in M, NEW a \in UNION G, a.key = b.key, b.val < a.val
       PROVE  \E c \in M : c.key = b.key /\ c.val = a.val
  <2>1. PICK i \in Puts(w) : w[i].val = b.val
    BY <1>2
  <2>2. Complete(w, a.val) /\ a.key \in iss[a.val]
    <3>1. b.val <= a.val
      BY <1>5, <1>7, <1>8, <1>11, SMTT(30)
    <3> QED
      BY <2>1, <3>1, Zenon DEF Traced
  <2>3. PICK c \in Commits(w), j \in Puts(w) : w[j].tx = w[c].tx /\ w[j].val = a.val
    BY <2>2, Zenon DEF Complete
  <2>4. PICK m \in Puts(w) : w[m].tx = w[c].tx /\ w[m].key = a.key /\ w[m].val = a.val
    BY <2>2, <2>3, WholeBatch, SMTT(30)
  <2>5. c \in Closing(w)
    BY <2>3, ClosingIs, Zenon
  <2>6. [key |-> w[m].key, ts |-> Ts(w, base, c), val |-> w[m].val] \in M
    BY <2>4, <2>5, Replayed, Zenon DEF M
  <2> QED
    BY <1>11, <2>4, <2>5, <2>6, Zenon
<1>12. \A a, b \in UNION H : a.ts = b.ts => a.val = b.val
  <2> SUFFICES ASSUME NEW a \in UNION H, NEW b \in UNION H, a.ts = b.ts PROVE a.val = b.val
    BY Zenon
  <2>1. CASE a \in M /\ b \in M
    BY <1>10, <2>1, Zenon
  <2>2. CASE a \in UNION G /\ b \in UNION G
    BY <2>2, Zenon DEF Ranked
  <2>3. ~(a \in M /\ b \in UNION G) /\ ~(b \in M /\ a \in UNION G)
    BY <1>8
  <2> QED
    BY <1>6, <2>1, <2>2, <2>3, Zenon
<1>13. ASSUME NEW T \in H, NEW b \in T, NEW a \in UNION H,
              a.key = b.key, a.ts < b.ts, b.val < a.val
       PROVE  \E c \in T : c.key = b.key /\ a.val <= c.val /\ b.ts <= c.ts
  <2>1. CASE T \in G
    <3>1. a \in UNION G
      BY <1>6, <1>8, <1>13, <2>1
    <3> QED
      BY <1>13, <2>1, <3>1, Zenon DEF Ranked
  <2>2. CASE T = M
    <3>1. a \notin M
      BY <1>8, <1>9, <1>13, <2>2, SMTT(30)
    <3>2. PICK c \in M : c.key = b.key /\ c.val = a.val
      BY <1>6, <1>11, <1>13, <2>2, <3>1, Zenon
    <3>3. b.ts < c.ts /\ b.ts \in Nat /\ c.ts \in Nat /\ c.val \in Nat
      BY <1>5, <1>8, <1>9, <1>13, <2>2, <3>2, Zenon
    <3> QED
      BY <2>2, <3>2, <3>3
  <2> QED
    BY <2>1, <2>2, Zenon
<1>14. base + n \in Nat /\ \A a \in UNION H : a.ts <= base + n
  BY <1>1, <1>6, <1>8
<1> HIDE DEF H
<1>15. Ranked(H)
  BY <1>7, <1>12, <1>13, <1>14, Zenon DEF Ranked
<1> QED
  BY <1>15, Zenon DEF H, M

-----------------------------------------------------------------------------
(* The steps. *)

\* flush moves groups of rows, and drops some.
LEMMA FlushGroups ==
  ASSUME FlushInv, NEW f \in Flusher,
         \/ Drain(f) \/ WriteSst(f) \/ AppendManifest(f) \/ ClearMemtable(f) \/ ResetWal(f)
  PROVE  Groups' \subseteq Groups \cup {{}}
<1> USE DEF engine, walvars, diskvars, wvars, fvars, history
<1>1. rows = [g \in Flusher |-> rows[g]] /\ NextFileId \notin manifest
  BY NextIdNew, Zenon DEF FlushInv
<1>2. memtable' \in {memtable, {}}
  BY Zenon DEF Drain, WriteSst, AppendManifest, ClearMemtable, ResetWal
<1>3. ASSUME NEW g \in Flusher PROVE rows'[g] \in {rows[g], memtable, {}}
  BY <1>1, Zenon DEF Drain, WriteSst, AppendManifest, ClearMemtable, ResetWal
<1>4. ASSUME NEW g \in manifest' \cap DOMAIN ssts' PROVE ssts'[g] \in Groups
  <2>1. CASE WriteSst(f)
    BY <1>1, <1>4, <2>1, Zenon DEF WriteSst, Groups
  <2>2. CASE AppendManifest(f)
    <3>1. ssts' = ssts /\ manifest' = manifest \cup {NextFileId} /\ fpc[f] = "written"
      BY <2>2, Zenon DEF AppendManifest
    <3>2. ssts[NextFileId] = rows[f]
      BY <3>1, Zenon DEF FlushInv
    <3> QED
      BY <1>4, <3>1, <3>2, Zenon DEF Groups
  <2> QED
    BY <1>4, <2>1, <2>2, Zenon DEF Drain, ClearMemtable, ResetWal, Groups
<1> QED
  BY <1>2, <1>3, <1>4, Zenon DEF Groups

\* ... and so does a crash.
LEMMA CrashGroups ==
  ASSUME NEW kind, Crash(kind)
  PROVE  Groups' \subseteq Groups \cup {{}}
<1>1. memtable' = {} /\ rows' = [f \in Flusher |-> {}] /\ manifest' = manifest
  BY Zenon DEF Crash
<1>2. PICK lost : ssts' = [f \in DOMAIN ssts \ lost |-> ssts[f]]
  BY Zenon DEF Crash
<1>3. ASSUME NEW g \in manifest' \cap DOMAIN ssts' PROVE ssts'[g] \in Groups
  BY <1>1, <1>2, <1>3, Zenon DEF Groups
<1> QED
  BY <1>1, <1>3, Zenon DEF Groups

\* Steps that leave the log and the writer alone.
LEMMA OrderKept ==
  ASSUME OrderInv, Groups' \subseteq Groups \cup {{}},
         UNCHANGED <<running, wal, commit_seq, wpc, batch, todo, writes, issued>>
  PROVE  OrderInv'
<1>1. Ranked(Groups') /\ UNION Groups' \subseteq UNION Groups
  BY RankedFewer, Zenon DEF OrderInv
<1>2. \A a \in UNION Groups' : Traced(a, wal', issued')
  BY <1>1, Zenon DEF OrderInv
<1>3. InOrder(wal') /\ TornAtEnd(wal', running') /\ commit_seq' \in Nat
  BY Zenon DEF OrderInv
<1>4. running' => \A a \in UNION Groups' : a.ts < commit_seq'
  BY <1>1, Zenon DEF OrderInv
<1>5. Current'
  BY <1>1, Zenon DEF OrderInv, Current
<1> QED
  BY <1>1, <1>2, <1>3, <1>4, <1>5, Zenon DEF OrderInv

\* The reset of the log.
LEMMA OrderReset ==
  ASSUME OrderInv, Groups' \subseteq Groups \cup {{}}, wal' = << >>,
         UNCHANGED <<running, commit_seq, wpc, batch, todo, writes, issued>>
  PROVE  OrderInv'
<1>1. Ranked(Groups') /\ UNION Groups' \subseteq UNION Groups
  BY RankedFewer, Zenon DEF OrderInv
<1>2. Puts(wal') = {} /\ Commits(wal') = {} /\ Len(wal') = 0
  BY EmptyLog, Zenon
<1>3. \A a \in UNION Groups' : Traced(a, wal', issued')
  BY <1>1, <1>2, Zenon DEF OrderInv, Traced
<1>4. InOrder(wal') /\ TornAtEnd(wal', running') /\ commit_seq' \in Nat
  BY <1>2 DEF OrderInv, InOrder, TornAtEnd
<1>5. running' => \A a \in UNION Groups' : a.ts < commit_seq'
  BY <1>1, Zenon DEF OrderInv
<1>6. Current'
  BY <1>1, <1>2, Zenon DEF OrderInv, Current
<1> QED
  BY <1>1, <1>3, <1>4, <1>5, <1>6, Zenon DEF OrderInv

\* The write gets its timestamp, above all others.
LEMMA OrderSync ==
  ASSUME LogInv, OrderInv, WalSync
  PROVE  OrderInv'
<1> USE DEF engine, walvars, diskvars, wvars, fvars, history
<1>1. /\ running /\ wpc = "sync" /\ wpc' = "apply" /\ commit_seq' = commit_seq + 1
      /\ todo' = batch.keys /\ UNCHANGED <<running, wal, writes, issued>>
  BY Zenon DEF WalSync
<1>2. batch' = [batch EXCEPT !.ts = commit_seq]
  BY Zenon DEF WalSync
<1>3. batch'.ts = commit_seq /\ batch'.val = batch.val /\ batch'.keys = batch.keys
  BY <1>2, Zenon DEF LogInv, IsBatch
<1>4. Groups' = Groups
  BY Zenon DEF WalSync, Groups
<1>5. \A a \in UNION Groups : a.ts \in Nat /\ a.ts < commit_seq
  BY <1>1, Zenon DEF OrderInv, Ranked, Row
<1>6. commit_seq \in Nat /\ commit_seq' \in Nat
  BY <1>1 DEF OrderInv
<1>7. \A a \in UNION Groups' : a.ts < commit_seq' /\ a.ts # batch'.ts
  BY <1>1, <1>3, <1>4, <1>5, <1>6, SMTT(30)
<1>8. batch'.ts = commit_seq' - 1 /\ commit_seq' >= 1
  BY <1>1, <1>3, <1>6, SMTT(30)
<1>9. Current'
  BY <1>1, <1>3, <1>7, <1>8, Zenon DEF OrderInv, Current
<1> QED
  BY <1>1, <1>4, <1>6, <1>7, <1>9, ZenonT(30) DEF OrderInv

\* The write reaches the memtable, row by row.
LEMMA OrderApply ==
  ASSUME LogInv, OrderInv, Apply
  PROVE  OrderInv'
<1> USE DEF engine, walvars, diskvars, wvars, fvars, history
<1>1. /\ running /\ wpc = "apply" /\ UNCHANGED <<running, wal, commit_seq, writes, issued>>
      /\ UNCHANGED <<rows, manifest, ssts>>
  BY Zenon DEF Apply
<1>2. PICK k \in todo :
        /\ memtable' = memtable \cup {[key |-> k, ts |-> batch.ts, val |-> batch.val]}
        /\ todo' = todo \ {k}
        /\ \/ wpc' = "idle"
           \/ UNCHANGED <<wpc, batch>>
  BY SMTT(30), Zenon DEF Apply
<1> DEFINE r == [key |-> k, ts |-> batch.ts, val |-> batch.val]
<1>3. /\ batch.val = writes /\ writes >= 1 /\ writes \in Nat /\ batch.keys = issued[writes]
      /\ batch.ts = commit_seq - 1 /\ commit_seq >= 1 /\ commit_seq \in Nat
      /\ todo \subseteq batch.keys /\ batch.keys \subseteq Key
      /\ Puts(wal) # {} => Complete(wal, writes)
      /\ \A a \in UNION Groups : a.ts = batch.ts => a.val = writes
  BY <1>1, Zenon DEF OrderInv, Current, LogInv, IsBatch
<1>4. r \in Row /\ r.ts = batch.ts /\ r.val = writes /\ r.key \in issued[writes]
  BY <1>2, <1>3, SMTT(30) DEF Row
<1> HIDE DEF r
<1>5. Groups' \subseteq Groups \cup {memtable \cup {r}} /\ memtable \in Groups
  BY <1>1, <1>2, Zenon DEF Groups, r
<1>6. UNION Groups' \subseteq (UNION Groups) \cup {r}
  BY <1>5, Zenon
<1>7. \A a \in UNION Groups : a.ts \in Nat /\ a.ts < commit_seq /\ a.val \in 1..writes
  BY <1>1, Zenon DEF OrderInv, Ranked, Row, Traced, LogInv
<1>8. \A a \in UNION Groups : a.ts <= r.ts /\ a.val <= r.val /\ (a.ts = r.ts => a.val = r.val)
  BY <1>3, <1>4, <1>7, SMTT(30)
<1>9. Ranked(Groups')
  <2>1. Ranked(Groups)
    BY Zenon DEF OrderInv
  <2>2. Ranked(Groups \cup {memtable \cup {r}})
    BY <1>4, <1>5, <1>8, <2>1, RankedOneMore, Zenon
  <2> QED
    BY <1>5, <2>2, RankedFewer, Zenon
<1>10. \A a \in UNION Groups' : Traced(a, wal', issued')
  <2>1. Traced(r, wal, issued)
    BY <1>3, <1>4, SMTT(30) DEF Traced, LogInv
  <2> QED
    BY <1>1, <1>6, <2>1, Zenon DEF OrderInv
<1>11. \A a \in UNION Groups' : a.ts < commit_seq'
  BY <1>1, <1>3, <1>4, <1>6, <1>7, SMTT(30)
<1>12. Current'
  <2>1. CASE wpc' = "idle"
    BY <2>1, Zenon DEF Current
  <2>2. CASE UNCHANGED <<wpc, batch>>
    <3>1. todo' \subseteq batch'.keys
      BY <1>2, <1>3, <2>2, Zenon
    <3>2. \A a \in UNION Groups' : a.ts = batch'.ts => a.val = writes'
      BY <1>1, <1>3, <1>4, <1>6, <2>2, Zenon
    <3> QED
      BY <1>1, <1>3, <2>2, <3>1, <3>2, Zenon DEF Current
  <2> QED
    BY <1>2, <2>1, <2>2, Zenon
<1> QED
  BY <1>1, <1>9, <1>10, <1>11, <1>12, ZenonT(30) DEF OrderInv

\* A new write: the log has it, above everything that is stored.
LEMMA OrderWrite ==
  ASSUME LogInv, OrderInv, NEW keys \in SUBSET Key, keys # {}, WalWrite(keys)
  PROVE  OrderInv'
<1> USE DEF engine, walvars, diskvars, wvars, fvars, history
<1>1. /\ running /\ wpc' = "sync" /\ writes' = writes + 1 /\ issued' = Append(issued, keys)
      /\ UNCHANGED <<running, commit_seq>>
      /\ batch'.val = writes + 1 /\ batch'.keys = keys
  BY SMTT(30), Zenon DEF WalWrite
<1>2. Groups' = Groups
  BY Zenon DEF WalWrite, Groups
<1>3. PICK p : LET n == Cardinality(keys)
               IN  /\ n \in Nat /\ PartOK(p, next_tx_id, writes + 1, keys)
                   /\ wal' = wal \o p /\ Len(p) = n + 1
                   /\ Puts(p) = 1..n /\ Commits(p) = {n + 1}
  BY WriteEffect, ZenonT(30)
<1> DEFINE n == Cardinality(keys)
<1>4. /\ n \in Nat /\ PartOK(p, next_tx_id, writes + 1, keys) /\ wal' = wal \o p
      /\ Len(p) = n + 1 /\ Puts(p) = 1..n /\ Commits(p) = {n + 1}
  BY <1>3, Zenon
<1> HIDE DEF n
<1>5. /\ LogOK(wal, issued) /\ issued \in Seq(SUBSET Key) /\ Len(issued) = writes /\ writes \in Nat
      /\ next_tx_id \in Nat /\ \A i \in Puts(wal) \cup Commits(wal) : wal[i].tx < next_tx_id
  BY <1>1, SMTT(30) DEF LogInv
<1>6. wal \in Seq(Frame) /\ p \in Seq(Frame)
  BY <1>4, <1>5, ZenonT(40) DEF LogOK, PartOK
<1>7. /\ Len(wal') = Len(wal) + n + 1 /\ Len(wal) \in Nat
      /\ \A i \in 1..Len(wal) : wal'[i] = wal[i]
      /\ \A i \in 1..Len(p) : wal'[Len(wal) + i] = p[i]
      /\ \A i \in Puts(p) : Len(wal) + i \in Puts(wal')
      /\ \A i \in Commits(p) : Len(wal) + i \in Commits(wal')
  <2>1. wal' = wal \o p
    BY <1>4, Zenon
  <2>2. /\ Len(wal') = Len(wal) + Len(p) /\ Len(wal) \in Nat
        /\ \A i \in 1..Len(wal) : wal'[i] = wal[i]
        /\ \A i \in 1..Len(p) : wal'[Len(wal) + i] = p[i]
        /\ \A i \in Puts(p) : Len(wal) + i \in Puts(wal')
        /\ \A i \in Commits(p) : Len(wal) + i \in Commits(wal')
    BY <1>6, <2>1, Extended, Zenon
  <2> QED
    BY <1>4, <2>2
<1>8. Grown(wal', wal, next_tx_id, writes)
  <2>1. PartOK(p, next_tx_id, Len(issued) + 1, keys)
    BY <1>4, <1>5, Zenon
  <2>2. Grown(wal \o p, wal, next_tx_id, Len(issued))
    BY <1>5, <2>1, ExtendedIs, ZenonT(30)
  <2> QED
    BY <1>4, <1>5, <2>2, Zenon
<1>9. Complete(wal', writes')
  <2>1. PICK k \in keys : TRUE
    BY SMTT(30), Zenon
  <2>2. n + 1 \in Commits(p) /\ p[n + 1].tx = next_tx_id
    BY <1>4, Zenon DEF PartOK
  <2>3. PICK j \in Puts(p) : p[j].key = k
    BY <1>4, <2>1, <2>2, Zenon DEF PartOK
  <2>4. p[j].tx = next_tx_id /\ p[j].val = writes + 1 /\ j \in 1..Len(p) /\ n + 1 \in 1..Len(p)
    BY <1>4, <2>2, Zenon DEF PartOK, Puts, Commits
  <2>5. /\ Len(wal) + j \in Puts(wal') /\ wal'[Len(wal) + j] = p[j]
        /\ Len(wal) + (n + 1) \in Commits(wal') /\ wal'[Len(wal) + (n + 1)] = p[n + 1]
    BY <1>7, <2>2, <2>4, Zenon
  <2> QED
    BY <1>1, <2>2, <2>4, <2>5, Zenon DEF Complete
<1>10. \A a \in UNION Groups : a.val \in 1..writes
  BY <1>5, Zenon DEF OrderInv, Traced
<1>11. ASSUME NEW a \in UNION Groups PROVE Traced(a, wal', issued')
  <2>1. a.val \in 1..writes /\ a.val \in 1..Len(issued') /\ issued'[a.val] = issued[a.val]
    BY <1>1, <1>5, <1>10, SMTT(30)
  <2>2. a.key \in issued[a.val]
    BY Zenon DEF OrderInv, Traced
  <2>3. ASSUME NEW i \in Puts(wal'), wal'[i].val <= a.val PROVE Complete(wal', a.val)
    <3>1. i \in Puts(wal) /\ wal'[i] = wal[i]
      BY <1>5, <1>8, <2>1, <2>3, SMTT(30) DEF Grown
    <3>2. Complete(wal, a.val)
      BY <2>3, <3>1, Zenon DEF OrderInv, Traced
    <3> QED
      BY <1>4, <1>6, <3>2, CompleteMore, ZenonT(40)
  <2> QED
    BY <2>1, <2>2, <2>3, ZenonT(40) DEF Traced
<1>12. InOrder(wal')
  BY <1>4, <1>5, InOrderMore, ZenonT(30) DEF OrderInv
<1>13. TornAtEnd(wal', running')
  <2> SUFFICES ASSUME NEW i \in 1..Len(wal') PROVE wal'[i] \notin Broken
    BY SMTT(30), Zenon DEF TornAtEnd
  <2>1. CASE i <= Len(wal)
    <3>1. i \in 1..Len(wal)
      BY <1>7, <2>1, SMTT(30)
    <3> QED
      BY <1>1, <1>7, <3>1, Zenon DEF OrderInv, TornAtEnd
  <2>2. CASE i > Len(wal)
    <3>1. i - Len(wal) \in 1..Len(p) /\ Len(wal) + (i - Len(wal)) = i
      BY <1>4, <1>7, <2>2
    <3>2. i - Len(wal) \in Puts(p) \cup Commits(p)
      BY <1>4, <3>1, SMTT(30)
    <3>3. p[i - Len(wal)].op \in {"Put", "Commit"} /\ wal'[i] = p[i - Len(wal)]
      BY <1>7, <3>1, <3>2, Zenon DEF Puts, Commits
    <3> QED
      BY <3>3, Zenon DEF Broken
  <2> QED
    BY <1>7, <2>1, <2>2, SMTT(30)
<1>14. ASSUME NEW c \in Commits(wal'), NEW i \in Puts(wal'),
              wal'[i].tx = wal'[c].tx, wal'[i].val # writes'
       PROVE  c <= Len(wal') - (Cardinality(batch'.keys) + 1)
  <2>1. wal'[i].tx < next_tx_id
    BY <1>1, <1>8, <1>14, ZenonT(40) DEF Grown
  <2>2. c <= Len(wal) /\ c \in Nat
    <3> DEFINE t == wal'[c].tx
    <3>1. t < next_tx_id
      BY <1>14, <2>1, Zenon
    <3>2. t # next_tx_id
      <4> HIDE DEF t
      <4> QED
        BY <1>5, <3>1
    <3>3. c \in 1..Len(wal)
      BY <1>8, <3>2, Zenon DEF Grown, Commits
    <3> QED
      BY <3>3
  <2>3. Len(wal') - (Cardinality(batch'.keys) + 1) = Len(wal)
    <3>1. /\ Len(wal') = Len(wal) + n + 1 /\ Len(wal) \in Nat /\ n \in Nat
          /\ Cardinality(batch'.keys) = n
      BY <1>1, <1>4, <1>7, Zenon DEF n
    <3> DEFINE a == Len(wal)
               b == Len(wal')
               e == Cardinality(batch'.keys)
    <3>2. b = a + n + 1 /\ a \in Nat /\ n \in Nat /\ e = n
      BY <3>1, Zenon
    <3> HIDE DEF a, b, e
    <3>3. b - (e + 1) = a
      BY <3>2
    <3> QED
      BY <3>3, Zenon DEF a, b, e
  <2> QED
    BY <2>2, <2>3, Zenon
<1>15. batch'.val = writes' /\ writes' >= 1 /\ batch'.keys = issued'[writes']
  <2>1. batch'.val = writes' /\ batch'.keys = keys /\ writes' = writes + 1
    BY <1>1, Zenon
  <2>2. writes + 1 >= 1 /\ Append(issued, keys)[writes + 1] = keys
    BY <1>5
  <2> QED
    BY <1>1, <2>1, <2>2, Zenon
<1>16. \A a \in UNION Groups' : a.val # writes'
  BY <1>1, <1>2, <1>5, <1>10, SMTT(30)
<1>17. Current'
  BY <1>1, <1>9, <1>14, <1>15, <1>16, ZenonT(30) DEF Current
<1>18. Ranked(Groups') /\ commit_seq' \in Nat /\ \A a \in UNION Groups' : a.ts < commit_seq'
  BY <1>1, <1>2, ZenonT(30) DEF OrderInv
<1> QED
  BY <1>2, <1>11, <1>12, <1>13, <1>17, <1>18, ZenonT(40) DEF OrderInv

\* The process dies: the log keeps all that is stored.
LEMMA OrderCrash ==
  ASSUME LogInv, FlushInv, OrderInv, NEW kind \in Crashes, Crash(kind), faults' = 0
  PROVE  OrderInv'
<1>1. kind = "process"
  <2>1. CASE kind = "machine"
    BY <2>1 DEF Crash, FlushInv
  <2> QED
    BY <2>1, ModeAssumption, Zenon DEF ModeAssumption
<1>2. /\ running /\ ~running' /\ running' \in BOOLEAN /\ UNCHANGED <<issued, writes>>
      /\ commit_seq' = 1 /\ wpc' = "idle"
  BY ZenonT(30) DEF Crash, history
<1>3. PICK m \in 0..Len(wal) :
        /\ Keeps(wal', wal, m) /\ Len(wal') <= m + 1
        /\ \/ m = Len(wal)
           \/ wpc = "sync" /\ Len(wal) - (Cardinality(batch.keys) + 1) <= m
  BY <1>1, CrashEffect, ZenonT(40)
<1>4. /\ Cardinality(batch.keys) \in Nat /\ LogOK(wal, issued) /\ Len(wal) \in Nat
      /\ writes \in Nat /\ Len(issued) = writes
  <2>1. Cardinality(batch.keys) \in Nat
    BY CrashEffect, Zenon
  <2>2. LogOK(wal, issued) /\ writes \in Nat /\ Len(issued) = writes
    BY <1>2, Zenon DEF LogInv
  <2>3. Len(wal) \in Nat
    BY <2>2, LogLength, Zenon
  <2> QED
    BY <2>1, <2>2, <2>3, Zenon
<1>5. Ranked(Groups') /\ UNION Groups' \subseteq UNION Groups
  BY CrashGroups, RankedFewer, Zenon DEF OrderInv
<1>6. ASSUME NEW a \in UNION Groups PROVE Traced(a, wal', issued')
  <2>1. Traced(a, wal, issued)
    BY Zenon DEF OrderInv
  <2>2. ASSUME NEW i \in Puts(wal'), wal'[i].val <= a.val PROVE Complete(wal', a.val)
    <3>1. i \in Puts(wal) /\ wal'[i] = wal[i]
      BY <1>3, <1>4, KeepsFrames, SMTT(30) DEF LogOK
    <3>2. Complete(wal, a.val)
      BY <2>1, <2>2, <3>1, Zenon DEF Traced
    <3>3. ASSUME NEW c \in Commits(wal), NEW j \in Puts(wal), wal[j].tx = wal[c].tx,
                 wal[j].val = a.val
          PROVE  c <= m
      <4>1. c \in 1..Len(wal)
        BY Zenon DEF Commits
      <4>2. CASE m = Len(wal)
        BY <1>4, <4>1, <4>2, SMTT(30)
      <4>3. CASE wpc = "sync" /\ Len(wal) - (Cardinality(batch.keys) + 1) <= m
        <5>1. a.val # writes
          BY <4>3, ZenonT(30) DEF OrderInv, Current
        <5>2. c <= Len(wal) - (Cardinality(batch.keys) + 1)
          BY <3>3, <4>3, <5>1, ZenonT(30) DEF OrderInv, Current
        <5> QED
          BY <1>3, <1>4, <4>1, <4>3, <5>2, SMTT(30)
      <4> QED
        BY <1>3, <4>2, <4>3, Zenon
    <3> QED
      BY <1>3, <1>4, <3>2, <3>3, CompleteKept, ZenonT(30)
  <2> QED
    BY <1>2, <2>1, <2>2, Zenon DEF Traced
<1>7. InOrder(wal')
  BY <1>3, <1>4, InOrderKept, Zenon DEF OrderInv
<1>8. ASSUME NEW i \in 1..Len(wal'), wal'[i] \in Broken PROVE i = Len(wal')
  <2>1. ~(i <= m)
    <3> SUFFICES ASSUME i <= m PROVE FALSE
      BY Zenon
    <3>1. i \in 1..m /\ i \in 1..Len(wal)
      BY <1>3, <1>4, SMTT(30)
    <3>2. wal[i] \in Broken
      BY <1>3, <1>8, <3>1, Zenon DEF Keeps
    <3> QED
      BY <1>2, <3>1, <3>2, Zenon DEF OrderInv, TornAtEnd
  <2>2. Len(wal') \in Nat
    BY <1>3, SMTT(30) DEF Keeps
  <2> QED
    BY <1>3, <1>4, <2>1, <2>2, SMTT(30)
<1>9. TornAtEnd(wal', running') /\ Current' /\ commit_seq' \in Nat
  BY <1>2, <1>8, Zenon DEF TornAtEnd, Current
<1> QED
  BY <1>2, <1>5, <1>6, <1>7, <1>9, Zenon DEF OrderInv

\* Recovery: nothing but the broken frame is cut off, and what is replayed gets
\* timestamps above those of the SSTs.
LEMMA OrderOpen ==
  ASSUME LogInv, FlushInv, OrderInv, Open
  PROVE  OrderInv'
<1>1. /\ ~running /\ running' /\ UNCHANGED <<issued, writes, wpc, rows, ssts, manifest>>
      /\ memtable' = Replay(wal', SstMaxCommit + 1)
      /\ commit_seq' = SstMaxCommit + 1 + Cardinality(Closing(wal'))
  BY Zenon DEF Open, diskvars, wvars, fvars, history, Closing
<1>2. LogOK(wal', issued) /\ LogOK(wal, issued) /\ Len(wal) \in Nat
  <2>1. LogOK(wal', issued) /\ LogOK(wal, issued)
    BY OpenEffect, Zenon DEF LogInv
  <2>2. wal \in Seq(Frame)
    BY <2>1, ZenonT(30) DEF LogOK
  <2> QED
    BY <2>1, <2>2
<1>3. PICK n \in 0..Len(wal) : /\ Keeps(wal', wal, n) /\ Len(wal') = n
                               /\ \A i \in 1..n : wal[i] \notin Broken
                               /\ n < Len(wal) => wal[n + 1] \in Broken
  BY OpenEffect, Zenon
<1>4. memtable = {} /\ wpc = "idle" /\ \A f \in Flusher : rows[f] = {}
  BY <1>1, Zenon DEF FlushInv
<1>5. UNION Groups = SstRows
  BY <1>4, Zenon DEF Groups, SstRows
<1>6. /\ SstMaxCommit \in Nat
      /\ \A a \in UNION Groups : a.ts \in Nat /\ a.ts < SstMaxCommit + 1
  <2>1. PICK m \in Nat : \A a \in UNION Groups : a.ts <= m
    BY SMTT(30), Zenon DEF OrderInv, Ranked
  <2>2. \A a \in UNION Groups : a.ts \in Nat
    BY Zenon DEF OrderInv, Ranked, Row
  <2> DEFINE S == {0} \cup {r.ts : r \in SstRows}
  <2>3. S \in SUBSET Nat /\ S # {} /\ (\A x \in S : x <= m) /\ SstMaxCommit = MaxOf(S)
    BY <1>5, <2>1, <2>2, SMTT(30) DEF SstMaxCommit
  <2>4. \A a \in UNION Groups : a.ts \in S
    BY <1>5, Zenon
  <2> HIDE DEF S
  <2>5. MaxOf(S) \in Nat /\ \A x \in S : x <= MaxOf(S)
    BY <2>3, MaxOfIs, ZenonT(30)
  <2> QED
    BY <2>2, <2>3, <2>4, <2>5, SMTT(30)
<1> DEFINE base == SstMaxCommit + 1
<1>7. /\ base \in Nat /\ memtable' = Replay(wal', base)
      /\ commit_seq' = base + Cardinality(Closing(wal'))
      /\ \A a \in UNION Groups : a.ts \in Nat /\ a.ts < base
  BY <1>1, <1>6, SMTT(30)
<1> HIDE DEF base
<1>8. Groups' \subseteq Groups \cup {Replay(wal', base)}
  BY <1>1, <1>7, Zenon DEF Groups
<1>9. UNION Groups' \subseteq (UNION Groups) \cup Replay(wal', base)
  BY <1>8, Zenon
<1>10. ASSUME NEW v, Complete(wal, v) PROVE Complete(wal', v)
  <2>1. wal' = ValidPrefix(wal)
    BY SMTT(30), Zenon DEF Open
  <2> QED
    BY <1>2, <1>10, <2>1, PrefixHolds, Zenon DEF OrderInv
<1>11. \A a \in UNION Groups : Traced(a, wal', issued)
  <2> TAKE a \in UNION Groups
  <2>1. Traced(a, wal, issued)
    BY Zenon DEF OrderInv
  <2>2. \A i \in Puts(wal') : i \in Puts(wal) /\ wal'[i] = wal[i]
    <3>1. wal \in Seq(Frame) /\ Keeps(wal', wal, n)
      BY <1>2, <1>3, ZenonT(30) DEF LogOK
    <3> QED
      BY <3>1, KeepsFrames, ZenonT(30)
  <2> QED
    BY <1>10, <2>1, <2>2, ZenonT(30) DEF Traced
<1>12. InOrder(wal')
  BY <1>2, <1>3, InOrderKept, Zenon DEF OrderInv
<1>13. Ranked(Groups')
  <2>1. Ranked(Groups \cup {Replay(wal', base)})
    <3>1. Ranked(Groups) /\ \A a \in UNION Groups : a.ts < base /\ Traced(a, wal', issued)
      BY <1>7, <1>11, Zenon DEF OrderInv
    <3> QED
      BY <1>2, <1>7, <1>12, <3>1, RankedReplay, Zenon
  <2> QED
    BY <1>8, <2>1, RankedFewer, Zenon
<1>14. ASSUME NEW r \in Replay(wal', base)
       PROVE  Traced(r, wal', issued) /\ r.ts < base + Cardinality(Closing(wal'))
  <2>1. PICK c \in Closing(wal'), j \in Puts(wal') :
          /\ wal'[j].tx = wal'[c].tx
          /\ r = [key |-> wal'[j].key, ts |-> Ts(wal', base, c), val |-> wal'[j].val]
    BY <1>2, Replayed, SMTT(30)
  <2>2. c \in Commits(wal')
    BY <1>2, ClosingIs, Zenon
  <2>3. Complete(wal', r.val)
    BY <2>1, <2>2, Zenon DEF Complete
  <2>4. r.val \in 1..Len(issued) /\ r.key \in issued[r.val]
    BY <1>2, <2>1, ZenonT(30) DEF LogOK
  <2>5. Ts(wal', base, c) < base + Cardinality(Closing(wal'))
    BY <1>2, <1>7, TsOrder, Zenon
  <2>6. Traced(r, wal', issued)
    BY <2>3, <2>4, ZenonT(30) DEF Traced
  <2> QED
    BY <2>1, <2>5, <2>6, Zenon
<1>15. Cardinality(Closing(wal')) \in Nat
  BY <1>2, <1>7, TsOrder, Zenon
<1>16. commit_seq' \in Nat
  BY <1>7, <1>15
<1>17. ASSUME NEW a \in UNION Groups' PROVE Traced(a, wal', issued') /\ a.ts < commit_seq'
  <2>1. CASE a \in UNION Groups
    <3>1. a.ts \in Nat /\ a.ts < base
      BY <1>7, <2>1, Zenon
    <3>2. a.ts < commit_seq'
      BY <1>7, <1>15, <3>1, SMTT(30)
    <3> QED
      BY <1>1, <1>11, <2>1, <3>2, Zenon
  <2>2. CASE a \in Replay(wal', base)
    BY <1>1, <1>7, <1>14, <2>2, Zenon
  <2> QED
    BY <1>9, <2>1, <2>2, Zenon
<1>18. TornAtEnd(wal', running')
  <2>1. \A i \in 1..Len(wal') : wal'[i] \notin Broken
    BY <1>3, Zenon DEF Keeps
  <2> QED
    BY <2>1, Zenon DEF TornAtEnd
<1>19. Current'
  BY <1>1, <1>4, Zenon DEF Current
<1> QED
  BY <1>12, <1>13, <1>16, <1>17, <1>18, <1>19, Zenon DEF OrderInv

\* An empty database is in order.
LEMMA MildInit == Init => MildInv
<1> SUFFICES ASSUME Init PROVE OrderInv
  BY Zenon DEF MildInv
<1>1. /\ memtable = {} /\ rows = [f \in Flusher |-> {}] /\ manifest = {} /\ wpc = "idle"
      /\ wal = << >> /\ commit_seq = 1
  BY SMTT(30), Zenon DEF Init
<1>2. UNION Groups = {} /\ \A S \in Groups : S = {}
  BY <1>1, Zenon DEF Groups
<1>3. Ranked(Groups)
  BY <1>2, Zenon DEF Ranked
<1>4. InOrder(wal) /\ TornAtEnd(wal, running)
  BY <1>1, EmptyLog DEF InOrder, TornAtEnd
<1> QED
  BY <1>1, <1>2, <1>3, <1>4, Zenon DEF OrderInv, Current

\* Faults are not forgotten.
LEMMA StaysMild ==
  ASSUME FlushInv, [Next]_vars, faults' = 0
  PROVE  faults = 0
<1> USE DEF engine, walvars, diskvars, wvars, fvars, history
<1>1. faults \in Nat
  BY Zenon DEF FlushInv
<1>2. faults' \in {faults, faults + 1}
  BY ZenonT(30) DEF Next, Crash, Open, WalWrite, WalWriteFails, WalSync, WalSyncFails, Apply,
         BackgroundSync, Drain, WriteSst, WriteSstFails, AppendManifest, ClearMemtable,
         ResetWal, vars
<1> QED
  BY <1>1, <1>2, SMTT(30)

\* Every step keeps it in order, until a call to the disk fails.
LEMMA MildStep == LogInv /\ FlushInv /\ MildInv /\ [Next]_vars => MildInv'
<1> SUFFICES ASSUME LogInv, FlushInv, MildInv, [Next]_vars, faults' = 0
             PROVE  OrderInv'
  BY Zenon DEF MildInv, Mild
<1> USE DEF engine, walvars, diskvars, wvars, fvars, history
<1>1. OrderInv
  <2>3. faults = 0
    BY StaysMild, Zenon
  <2> QED
    BY <2>3, Zenon DEF MildInv, Mild
<1>2. ASSUME NEW kind \in Crashes, Crash(kind) PROVE OrderInv'
  BY <1>1, <1>2, OrderCrash, Zenon
<1>3. CASE Open
  BY <1>1, <1>3, OrderOpen, Zenon
<1>4. ASSUME NEW keys \in (SUBSET Key) \ {{}}, WalWrite(keys) PROVE OrderInv'
  BY <1>1, <1>4, OrderWrite, Zenon
<1>5. ASSUME NEW keys \in (SUBSET Key) \ {{}}, WalWriteFails(keys) PROVE FALSE
  BY <1>5, SMTT(30) DEF WalWriteFails, FlushInv
<1>6. ~WalSyncFails
  BY DEF WalSyncFails, FlushInv
<1>7. CASE BackgroundSync \/ UNCHANGED vars
  <2>1. /\ UNCHANGED <<running, wal, commit_seq, wpc, batch, todo, writes, issued>>
        /\ UNCHANGED <<memtable, rows, manifest, ssts>>
    BY <1>7, Zenon DEF BackgroundSync, vars
  <2>2. Groups' = Groups
    BY <2>1, Zenon DEF Groups
  <2> QED
    BY <1>1, <2>1, <2>2, OrderKept, Zenon
<1>8. ASSUME NEW f \in Flusher, WriteSstFails(f) PROVE FALSE
  BY <1>8, SMTT(30) DEF WriteSstFails, FlushInv
<1>9. ASSUME NEW f \in Flusher,
             Drain(f) \/ WriteSst(f) \/ AppendManifest(f) \/ ClearMemtable(f)
      PROVE  OrderInv'
  <2>1. UNCHANGED <<running, wal, commit_seq, wpc, batch, todo, writes, issued>>
    BY <1>9, Zenon DEF Drain, WriteSst, AppendManifest, ClearMemtable
  <2> QED
    BY <1>1, <1>9, <2>1, FlushGroups, OrderKept, Zenon
<1>10. ASSUME NEW f \in Flusher, ResetWal(f) PROVE OrderInv'
  <2>1. /\ UNCHANGED <<running, commit_seq, wpc, batch, todo, writes, issued>>
        /\ wal' = wal \/ wal' = << >>
    BY <1>10, Zenon DEF ResetWal
  <2>2. Groups' \subseteq Groups \cup {{}}
    BY <1>10, FlushGroups, Zenon
  <2>3. CASE wal' = wal
    BY <1>1, <2>1, <2>2, <2>3, OrderKept, Zenon
  <2>4. CASE wal' = << >>
    BY <1>1, <2>1, <2>2, <2>4, OrderReset, Zenon
  <2> QED
    BY <2>1, <2>3, <2>4, Zenon
<1> QED
  BY <1>1, <1>2, <1>3, <1>4, <1>5, <1>6, <1>7, <1>8, <1>9, <1>10, OrderSync, OrderApply, SMTT(30)
  DEF Next

\* Replay gives the batches of the log new timestamps, above those of every
\* listed SST, also for rows that an SST has already.  The newest version of a
\* key is nevertheless never one that a stored later write should hide: for any
\* number of flushers, flushes, log resets and deaths of the process, as long as
\* no call to the disk fails.
THEOREM NewestAlwaysWins == Spec => []NewestWins
<1>1. MildInv => NewestWins
  <2> SUFFICES ASSUME OrderInv, NEW k \in Key, NEW r \in Stored, NEW s \in Stored,
                      Newest(k, r), s.key = k
               PROVE  s.val <= r.val
    BY Zenon DEF MildInv, NewestWins
  <2>1. Ranked(Groups)
    BY SMTT(30), Zenon DEF OrderInv
  <2>2. \A a \in Stored : \E S \in Groups : a \in S /\ S \subseteq Stored
    BY SMTT(30), Zenon DEF Stored, SstRows, Groups
  <2>3. \A a \in Stored : a \in UNION Groups /\ a.ts \in Nat /\ a.val \in Nat
    BY <2>1, <2>2, SMTT(30) DEF Ranked, Row
  <2>4. r.key = k /\ s.ts <= r.ts /\ \A c \in Stored : c.key = k => c.ts <= r.ts
    BY Zenon DEF Newest
  <2> SUFFICES ASSUME r.val < s.val PROVE FALSE
    BY <2>3, SMTT(30)
  <2>5. s.ts < r.ts
    BY <2>1, <2>3, <2>4, SMTT(30) DEF Ranked
  <2>6. PICK S \in Groups : r \in S /\ S \subseteq Stored
    BY <2>2, Zenon
  <2>7. PICK c \in S : c.key = k /\ s.val <= c.val /\ r.ts <= c.ts
    BY <2>1, <2>3, <2>4, <2>5, <2>6, SMTT(30) DEF Ranked
  <2>8. c \in Stored /\ c.ts = r.ts
    BY <2>3, <2>4, <2>6, <2>7, SMTT(30)
  <2>9. c.val = r.val
    BY <2>1, <2>3, <2>8, Zenon DEF Ranked
  <2> QED
    BY <2>3, <2>7, <2>8, <2>9, SMTT(30)
<1> QED
  BY <1>1, LogInit, LogStep, FlushInit, FlushStep, MildInit, MildStep, PTL DEF Spec

-----------------------------------------------------------------------------
Stores(S, k, v) == \E r \in S : r.key = k /\ r.val = v

AllIdle == \A f \in Flusher : fpc[f] = "idle"

\* Such a write is in the log or in a listed SST.  In the running engine each
\* of its rows is moreover in one place that the next step of flush respects:
\* in the memtable only between flushes, in the flusher's hands only until the
\* file with them is listed.
QuietInv ==
  /\ acked \subseteq 1..writes
  /\ wpc # "idle" => writes \notin acked
  /\ (wpc # "idle" /\ writes \notin overlapped) =>
       /\ AllIdle /\ Complete(wal, writes)
       /\ wpc = "apply" => \A k \in batch.keys \ todo : Stores(memtable, k, writes)
  /\ \A v \in acked \ overlapped : \A k \in issued[v] :
       /\ Complete(wal, v) \/ Stores(SstRows, k, v)
       /\ running => \/ Stores(SstRows, k, v)
                     \/ AllIdle /\ Stores(memtable, k, v)
                     \/ \E f \in Flusher : /\ fpc[f] \in {"drained", "written"}
                                           /\ Stores(rows[f], k, v)

Placed(v, k) == \/ Stores(SstRows, k, v)
                \/ AllIdle /\ Stores(memtable, k, v)
                \/ \E f \in Flusher : /\ fpc[f] \in {"drained", "written"}
                                      /\ Stores(rows[f], k, v)

\* What is listed stays listed.
LEMMA SstKept ==
  ASSUME FlushInv, NEW f \in Flusher,
         \/ Drain(f) \/ WriteSst(f) \/ AppendManifest(f) \/ ClearMemtable(f) \/ ResetWal(f)
  PROVE  SstRows \subseteq SstRows'
<1>1. NextFileId \notin manifest
  BY NextIdNew, Zenon
<1>2. ASSUME NEW g \in manifest \cap DOMAIN ssts
      PROVE  g \in manifest' \cap DOMAIN ssts' /\ ssts'[g] = ssts[g]
  <2>1. CASE WriteSst(f)
    BY <1>1, <1>2, <2>1, Zenon DEF WriteSst
  <2> QED
    BY <1>2, <2>1, Zenon DEF Drain, AppendManifest, ClearMemtable, ResetWal, diskvars
<1> QED
  BY <1>2, Zenon DEF SstRows

\* The steps of flush carry the rows from place to place, and the log is reset
\* when they are in the SST.
LEMMA QuietFlush ==
  ASSUME \A f, g \in Flusher : f = g, FlushInv, QuietInv, NEW f \in Flusher,
         \/ Drain(f) \/ WriteSst(f) \/ AppendManifest(f) \/ ClearMemtable(f) \/ ResetWal(f)
  PROVE  QuietInv'
<1> USE DEF engine, walvars, diskvars, wvars, fvars, history
<1>1. running /\ UNCHANGED <<running, wpc, batch, todo, writes, issued, acked, overlapped>>
  BY Zenon DEF Drain, WriteSst, AppendManifest, ClearMemtable, ResetWal
<1>2. ~(wpc # "idle" /\ writes \notin overlapped)
  <2> SUFFICES ASSUME wpc # "idle", writes \notin overlapped PROVE FALSE
    BY Zenon
  <2>1. fpc[f] = "idle"
    BY Zenon DEF QuietInv, AllIdle
  <2> QED
    BY <2>1, Zenon DEF Drain, WriteSst, AppendManifest, ClearMemtable, ResetWal
<1>3. /\ fpc \in [Flusher -> {"idle", "drained", "written", "listed", "cleared"}]
      /\ rows = [g \in Flusher |-> rows[g]]
  BY Zenon DEF FlushInv
<1>4. ASSUME NEW v \in acked \ overlapped, NEW k \in issued[v]
      PROVE  (Complete(wal', v) \/ Stores(SstRows', k, v)) /\ Placed(v, k)'
  <2>1. (Complete(wal, v) \/ Stores(SstRows, k, v)) /\ Placed(v, k)
    BY <1>1, Zenon DEF QuietInv, Placed
  <2>2. Stores(SstRows, k, v) => Stores(SstRows', k, v)
    BY SstKept, Zenon DEF Stores
  <2>3. CASE Stores(SstRows, k, v)
    BY <2>2, <2>3, Zenon DEF Placed
  <2>4. CASE ~Stores(SstRows, k, v)
    <3>1. Complete(wal, v)
      BY <2>1, <2>4, Zenon
    <3>2. \/ fpc[f] = "idle" /\ Stores(memtable, k, v)
          \/ fpc[f] \in {"drained", "written"} /\ Stores(rows[f], k, v)
      BY <2>1, <2>4, Zenon DEF Placed, AllIdle
    <3>3. CASE Drain(f)
      <4>1. wal' = wal /\ fpc'[f] = "drained" /\ rows'[f] = memtable /\ fpc[f] = "idle"
        BY <1>3, <3>3, Zenon DEF Drain
      <4> QED
        BY <3>1, <3>2, <4>1, Zenon DEF Placed
    <3>4. CASE WriteSst(f)
      <4>1. wal' = wal /\ fpc'[f] = "written" /\ rows'[f] = rows[f] /\ fpc[f] = "drained"
        BY <1>3, <3>4, Zenon DEF WriteSst
      <4> QED
        BY <3>1, <3>2, <4>1, Zenon DEF Placed
    <3>5. CASE AppendManifest(f)
      <4>1. /\ wal' = wal /\ ssts' = ssts /\ manifest' = manifest \cup {NextFileId}
            /\ fpc[f] = "written"
        BY <3>5, Zenon DEF AppendManifest
      <4>2. NextFileId \in DOMAIN ssts /\ ssts[NextFileId] = rows[f] /\ Stores(rows[f], k, v)
        BY <3>2, <4>1, Zenon DEF FlushInv
      <4>3. rows[f] \subseteq SstRows'
        BY <4>1, <4>2, Zenon DEF SstRows
      <4> QED
        BY <4>2, <4>3, Zenon DEF Placed, Stores
    <3>6. CASE ClearMemtable(f) \/ ResetWal(f)
      BY <3>2, <3>6, Zenon DEF ClearMemtable, ResetWal
    <3> QED
      BY <3>3, <3>4, <3>5, <3>6, Zenon
  <2> QED
    BY <2>3, <2>4, Zenon
<1> QED
  BY <1>1, <1>2, <1>4, Zenon DEF QuietInv, Placed

\* The steps of the writer.
LEMMA QuietWrite ==
  ASSUME LogInv, OrderInv, OrderInv', QuietInv, NEW keys \in SUBSET Key, keys # {}, WalWrite(keys)
  PROVE  QuietInv'
<1> USE DEF engine, walvars, diskvars, wvars, fvars, history
<1>1. /\ wpc = "idle" /\ wpc' = "sync" /\ writes' = writes + 1 /\ issued' = Append(issued, keys)
      /\ overlapped' = overlapped \cup
           IF \E f \in Flusher : fpc[f] # "idle" THEN {writes + 1} ELSE {}
      /\ UNCHANGED <<running, memtable, ssts, manifest, fpc, rows, acked>>
  BY Zenon DEF WalWrite
<1>2. /\ LogOK(wal, issued) /\ issued \in Seq(SUBSET Key) /\ Len(issued) = writes /\ writes \in Nat
  BY Zenon DEF LogInv
<1>3. acked \subseteq 1..writes
  BY Zenon DEF QuietInv
<1>4. acked' \subseteq 1..writes' /\ writes' \notin acked'
  BY <1>1, <1>2, <1>3
<1>5. AllIdle' <=> AllIdle
  BY <1>1, Zenon DEF AllIdle
<1>6. writes' \notin overlapped' => AllIdle'
  BY <1>1, Zenon DEF AllIdle
<1>7. PICK p : PartOK(p, next_tx_id, writes + 1, keys) /\ wal' = wal \o p /\ Commits(p) # {}
  BY WriteEffect, Zenon
<1>8. wal \in Seq(Frame) /\ p \in Seq(Frame)
  BY <1>2, <1>7, Zenon DEF LogOK, PartOK
<1>9. Complete(wal', writes')
  <2>1. Puts(wal') # {}
    <3>1. PICK c \in Commits(p), k \in keys : TRUE
      BY <1>7, Zenon
    <3>2. PICK j \in Puts(p) : p[j].key = k
      BY <1>7, <3>1, Zenon DEF PartOK
    <3> QED
      BY <1>7, <1>8, <3>2, Extended, Zenon
  <2> QED
    BY <1>1, <2>1, Zenon DEF OrderInv, Current
<1>10. ASSUME NEW v \in acked' \ overlapped', NEW k \in issued'[v]
       PROVE  /\ Complete(wal', v) \/ Stores(SstRows', k, v)
              /\ running' => Placed(v, k)'
  <2>1. v \in acked \ overlapped /\ v \in 1..writes
    BY <1>1, <1>3, <1>10, Zenon
  <2>2. issued'[v] = issued[v]
    BY <1>1, <1>2, <2>1
  <2>3. (Complete(wal, v) \/ Stores(SstRows, k, v)) /\ (running => Placed(v, k))
    BY <1>10, <2>1, <2>2, Zenon DEF QuietInv, Placed
  <2>4. Complete(wal, v) => Complete(wal', v)
    BY <1>7, <1>8, CompleteMore, Zenon
  <2>5. SstRows' = SstRows
    BY <1>1, Zenon DEF SstRows
  <2>6. Placed(v, k) => Placed(v, k)'
    BY <1>1, <1>5, <2>5, Zenon DEF Placed
  <2> QED
    BY <1>1, <2>3, <2>4, <2>5, <2>6, Zenon
<1> QED
  BY <1>1, <1>4, <1>6, <1>9, <1>10, ZenonT(30) DEF QuietInv, Placed

\* Neither a sync nor the timestamp of the write moves rows.
LEMMA QuietSync ==
  ASSUME QuietInv, LogInv,
         \/ WalSync \/ BackgroundSync \/ UNCHANGED vars
  PROVE  QuietInv'
<1> USE DEF engine, walvars, diskvars, wvars, fvars, history
<1>1. UNCHANGED <<running, wal, memtable, ssts, manifest, fpc, rows, writes, issued, acked,
                  overlapped>>
  BY Zenon DEF WalSync, BackgroundSync, vars
<1>2. SstRows' = SstRows /\ (AllIdle' <=> AllIdle)
  BY <1>1, Zenon DEF SstRows, AllIdle
<1>3. CASE UNCHANGED <<wpc, batch, todo>>
  BY <1>1, <1>2, <1>3, Zenon DEF QuietInv
<1>4. CASE WalSync
  <2>1. batch' = [batch EXCEPT !.ts = commit_seq] /\ todo' = batch.keys /\ wpc = "sync"
    BY <1>4, Zenon DEF WalSync
  <2>2. batch'.keys \ todo' = {}
    BY <2>1, Zenon DEF LogInv, IsBatch
  <2> QED
    BY <1>1, <1>2, <2>1, <2>2, Zenon DEF QuietInv
<1> QED
  BY <1>3, <1>4, Zenon DEF BackgroundSync, vars

\* The last row that reaches the memtable makes the write one of them.
LEMMA QuietApply ==
  ASSUME LogInv, OrderInv, QuietInv, Apply
  PROVE  QuietInv'
<1> USE DEF engine, walvars, diskvars, wvars, fvars, history
<1>1. /\ wpc = "apply" /\ running
      /\ UNCHANGED <<running, wal, ssts, manifest, fpc, rows, writes, issued, overlapped>>
  BY Zenon DEF Apply
<1>2. PICK k \in todo :
        /\ memtable' = memtable \cup {[key |-> k, ts |-> batch.ts, val |-> batch.val]}
        /\ todo' = todo \ {k}
        /\ IF todo = {k}
           THEN wpc' = "idle" /\ batch' = NoBatch /\ acked' = acked \cup {batch.val}
           ELSE UNCHANGED <<wpc, batch, acked>>
  BY ZenonT(40) DEF Apply
<1>3. /\ batch.val = writes /\ writes \in 1..writes /\ batch.keys = issued[writes]
      /\ todo \subseteq batch.keys
  BY <1>1 DEF OrderInv, Current, LogInv
<1>4. SstRows' = SstRows /\ (AllIdle' <=> AllIdle)
  BY <1>1, Zenon DEF SstRows, AllIdle
<1>5. ASSUME NEW j, NEW v PROVE /\ Stores(memtable, j, v) => Stores(memtable', j, v)
                                /\ Stores(memtable', k, writes)
  <2>1. memtable \subseteq memtable'
    BY <1>2, Zenon
  <2> DEFINE r == [key |-> k, ts |-> batch.ts, val |-> batch.val]
  <2>2. r \in memtable' /\ r.key = k /\ r.val = writes
    BY <1>2, <1>3, Zenon
  <2> HIDE DEF r
  <2> QED
    BY <2>1, <2>2, Zenon DEF Stores
<1>6. ASSUME NEW v \in acked \ overlapped, NEW j \in issued[v]
      PROVE  (Complete(wal', v) \/ Stores(SstRows', j, v)) /\ (running' => Placed(v, j)')
  <2>1. (Complete(wal, v) \/ Stores(SstRows, j, v)) /\ (running => Placed(v, j))
    BY <1>6, ZenonT(30) DEF QuietInv, Placed
  <2> QED
    BY <1>1, <1>4, <1>5, <2>1, Zenon DEF Placed
<1>7. ASSUME writes \notin overlapped
      PROVE  /\ AllIdle /\ Complete(wal, writes)
             /\ \A j \in batch.keys \ todo' : Stores(memtable', j, writes)
  <2>1. AllIdle /\ Complete(wal, writes) /\ \A j \in batch.keys \ todo : Stores(memtable, j, writes)
    BY <1>1, <1>7, Zenon DEF QuietInv
  <2> QED
    BY <1>2, <1>5, <2>1, Zenon
<1>8. CASE todo = {k}
  <2>1. wpc' = "idle" /\ acked' = acked \cup {writes} /\ todo' = {}
    BY <1>2, <1>3, <1>8, Zenon
  <2>2. acked' \subseteq 1..writes'
    BY <1>1, <1>3, <2>1, ZenonT(30) DEF QuietInv
  <2>3. ASSUME writes \notin overlapped, NEW j \in issued[writes]
        PROVE  Complete(wal', writes) /\ Placed(writes, j)'
    BY <1>1, <1>3, <1>4, <1>7, <2>1, <2>3, Zenon DEF Placed
  <2>4. ASSUME NEW v \in acked' \ overlapped', NEW j \in issued'[v]
        PROVE  (Complete(wal', v) \/ Stores(SstRows', j, v)) /\ (running' => Placed(v, j)')
    <3>1. CASE v = writes
      BY <1>1, <2>3, <2>4, <3>1, Zenon
    <3>2. CASE v \in acked
      BY <1>1, <1>6, <2>4, <3>2, Zenon
    <3> QED
      BY <2>1, <2>4, <3>1, <3>2, Zenon
  <2> QED
    BY <2>1, <2>2, <2>4, Zenon DEF QuietInv, Placed
<1>9. CASE UNCHANGED <<wpc, batch, acked>>
  <2>1. acked' \subseteq 1..writes' /\ (wpc' # "idle" => writes' \notin acked')
    BY <1>1, <1>9, Zenon DEF QuietInv
  <2>2. writes' \notin overlapped' =>
          /\ AllIdle' /\ Complete(wal', writes')
          /\ \A j \in batch'.keys \ todo' : Stores(memtable', j, writes')
    BY <1>1, <1>4, <1>7, <1>9, Zenon
  <2>3. ASSUME NEW v \in acked' \ overlapped', NEW j \in issued'[v]
        PROVE  (Complete(wal', v) \/ Stores(SstRows', j, v)) /\ (running' => Placed(v, j)')
    BY <1>1, <1>6, <1>9, <2>3, Zenon
  <2> QED
    BY <2>1, <2>2, <2>3, Zenon DEF QuietInv, Placed
<1> QED
  BY <1>2, <1>8, <1>9, Zenon

\* A dead process loses no such write, and recovery brings it into memory.
LEMMA QuietCrash ==
  ASSUME LogInv, FlushInv, OrderInv, QuietInv, NEW kind \in Crashes, Crash(kind), faults' = 0
  PROVE  QuietInv'
<1>1. kind = "process"
  <2>1. CASE kind = "machine"
    BY <2>1 DEF Crash, FlushInv
  <2> QED
    BY <2>1, ModeAssumption, Zenon DEF ModeAssumption
<1>2. /\ running' = FALSE /\ wpc' = "idle"
      /\ UNCHANGED <<writes, issued, acked, overlapped, manifest>>
  BY Zenon DEF Crash, history
<1>3. SstRows' = SstRows
  <2>1. ssts' = [f \in DOMAIN ssts \ {} |-> ssts[f]]
    BY <1>1, Zenon DEF Crash
  <2>2. manifest' \cap DOMAIN ssts' = manifest \cap DOMAIN ssts
    BY <1>2, <2>1, Zenon
  <2>3. \A f \in manifest \cap DOMAIN ssts : ssts'[f] = ssts[f]
    BY <2>1, Zenon
  <2> QED
    BY <2>2, <2>3, Zenon DEF SstRows
<1>4. PICK m \in 0..Len(wal) :
        /\ Keeps(wal', wal, m)
        /\ \/ m = Len(wal)
           \/ wpc = "sync" /\ Len(wal) - (Cardinality(batch.keys) + 1) <= m
  BY <1>1, CrashEffect, ZenonT(40)
<1>5. Cardinality(batch.keys) \in Nat /\ LogOK(wal, issued) /\ Len(wal) \in Nat
  <2>1. Cardinality(batch.keys) \in Nat
    BY CrashEffect, Zenon
  <2> QED
    BY <2>1 DEF LogInv, LogOK
<1>6. ASSUME NEW v \in acked, Complete(wal, v) PROVE Complete(wal', v)
  <2>1. ASSUME NEW c \in Commits(wal), NEW j \in Puts(wal), wal[j].tx = wal[c].tx, wal[j].val = v
        PROVE  c <= m
    <3>1. c \in 1..Len(wal)
      BY Zenon DEF Commits
    <3>2. CASE m = Len(wal)
      BY <1>5, <3>1, <3>2
    <3>3. CASE wpc = "sync" /\ Len(wal) - (Cardinality(batch.keys) + 1) <= m
      <4>1. v # writes
        BY <3>3, Zenon DEF QuietInv
      <4>2. c <= Len(wal) - (Cardinality(batch.keys) + 1)
        BY <2>1, <3>3, <4>1, Zenon DEF OrderInv, Current
      <4> QED
        BY <1>4, <1>5, <3>1, <3>3, <4>2, SMTT(30)
    <3> QED
      BY <1>4, <3>2, <3>3, Zenon
  <2> QED
    BY <1>4, <1>5, <1>6, <2>1, CompleteKept, Zenon
<1>7. ASSUME NEW v \in acked \ overlapped, NEW k \in issued[v]
      PROVE  Complete(wal', v) \/ Stores(SstRows', k, v)
  BY <1>3, <1>6, ZenonT(30) DEF QuietInv
<1> QED
  BY <1>2, <1>7, Zenon DEF QuietInv

\* ... for what the log holds of it, or the SSTs, is there after recovery.
LEMMA QuietOpen ==
  ASSUME LogInv, FlushInv, OrderInv, QuietInv, Open
  PROVE  QuietInv'
<1>1. /\ ~running /\ wal' = ValidPrefix(wal) /\ memtable' = Replay(wal', SstMaxCommit + 1)
      /\ UNCHANGED <<wpc, fpc, ssts, manifest, writes, issued, acked, overlapped>>
  BY Zenon DEF Open, diskvars, wvars, fvars, history
<1>2. wpc' = "idle" /\ AllIdle'
  BY <1>1, Zenon DEF FlushInv, AllIdle
<1>3. SstRows' = SstRows
  BY <1>1, Zenon DEF SstRows
<1>4. LogOK(wal, issued) /\ LogOK(wal', issued)
  BY OpenEffect, Zenon DEF LogInv
<1>5. ASSUME NEW v, Complete(wal, v) PROVE Complete(wal', v)
  BY <1>1, <1>4, <1>5, PrefixHolds, Zenon DEF OrderInv
<1>6. ASSUME NEW v, NEW k \in issued[v], Complete(wal', v) PROVE Stores(memtable', k, v)
  <2>1. PICK c \in Commits(wal'), i \in Puts(wal') : wal'[i].tx = wal'[c].tx /\ wal'[i].val = v
    BY <1>6, ZenonT(40) DEF Complete
  <2>2. PICK j \in Puts(wal') : wal'[j].tx = wal'[c].tx /\ wal'[j].key = k /\ wal'[j].val = v
    BY <1>4, <1>6, <2>1, WholeBatch, SMTT(30)
  <2>3. wal'[j].val = v
    BY <2>2, Zenon
  <2>4. c \in Closing(wal')
    BY <1>4, <2>1, ClosingIs, Zenon
  <2> DEFINE r == [key |-> k, ts |-> Ts(wal', SstMaxCommit + 1, c), val |-> v]
  <2>5. r \in memtable'
    BY <1>1, <1>4, <2>2, <2>3, <2>4, Replayed, Zenon
  <2> QED
    BY <2>5, Zenon DEF Stores
<1>7. ASSUME NEW v \in acked \ overlapped, NEW k \in issued[v]
      PROVE  (Complete(wal', v) \/ Stores(SstRows', k, v)) /\ Placed(v, k)'
  <2>1. Complete(wal, v) \/ Stores(SstRows, k, v)
    BY <1>7, Zenon DEF QuietInv
  <2> QED
    BY <1>2, <1>3, <1>5, <1>6, <2>1, Zenon DEF Placed
<1> QED
  BY <1>1, <1>2, <1>7, Zenon DEF QuietInv, Placed

MildQuiet == Mild => QuietInv

\* Nothing is acknowledged at first.
LEMMA QuietInit == Init => MildQuiet
  BY Zenon DEF Init, MildQuiet, QuietInv

\* With one flusher, every step keeps such writes.
LEMMA QuietStep ==
  ASSUME \A f, g \in Flusher : f = g
  PROVE  LogInv /\ FlushInv /\ MildInv /\ MildInv' /\ MildQuiet /\ [Next]_vars => MildQuiet'
<1> SUFFICES ASSUME LogInv, FlushInv, MildInv, MildInv', MildQuiet, [Next]_vars, faults' = 0
             PROVE  QuietInv'
  BY Zenon DEF MildQuiet, Mild
<1> USE DEF engine, walvars, diskvars, wvars, fvars, history
<1>1. OrderInv /\ OrderInv' /\ QuietInv
  <2>1. faults = 0
    BY StaysMild, Zenon
  <2> QED
    BY <2>1, Zenon DEF MildInv, MildQuiet, Mild
<1>2. ASSUME NEW kind \in Crashes, Crash(kind) PROVE QuietInv'
  BY <1>1, <1>2, QuietCrash, Zenon
<1>3. CASE Open
  BY <1>1, <1>3, QuietOpen, Zenon
<1>4. ASSUME NEW keys \in (SUBSET Key) \ {{}}, WalWrite(keys) PROVE QuietInv'
  BY <1>1, <1>4, QuietWrite, Zenon
<1>5. ASSUME NEW keys \in (SUBSET Key) \ {{}}, WalWriteFails(keys) PROVE FALSE
  BY <1>5 DEF WalWriteFails, FlushInv
<1>6. ~WalSyncFails
  BY DEF WalSyncFails, FlushInv
<1>7. ASSUME NEW f \in Flusher, WriteSstFails(f) PROVE FALSE
  BY <1>7 DEF WriteSstFails, FlushInv
<1>8. ASSUME NEW f \in Flusher,
             \/ Drain(f) \/ WriteSst(f) \/ AppendManifest(f) \/ ClearMemtable(f) \/ ResetWal(f)
      PROVE  QuietInv'
  BY <1>1, <1>8, QuietFlush, Zenon
<1> QED
  BY <1>1, <1>2, <1>3, <1>4, <1>5, <1>6, <1>7, <1>8, QuietSync, QuietApply, Zenon DEF Next

\* The inductive invariants together.
LEMMA QuietAlways ==
  ASSUME \A f, g \in Flusher : f = g
  PROVE  Spec => [](LogInv /\ MildInv /\ MildQuiet)
  BY LogInit, LogStep, FlushInit, FlushStep, MildInit, MildStep, QuietInit, QuietStep, PTL DEF Spec

\* With one thread that flushes at a time, a write that was acknowledged and did
\* not run during a flush can be recovered at every moment: each step of flush
\* up to the reset of the log, and the death of the process at any of them,
\* leaves it in the log or all of its rows in listed SSTs.
THEOREM QuietWritesAlwaysSurvive ==
  ASSUME \A f, g \in Flusher : f = g
  PROVE  Spec => []QuietWritesSurvive
<1>1. LogInv /\ MildInv /\ MildQuiet => QuietWritesSurvive
  <2> SUFFICES ASSUME LogInv, OrderInv, QuietInv, NEW v \in acked \ overlapped, NEW k \in issued[v]
               PROVE  InLog(v) \/ \E r \in SstRows : r.key = k /\ r.val = v
    BY Zenon DEF MildInv, MildQuiet, QuietWritesSurvive, Recoverable
  <2>1. Complete(wal, v) \/ Stores(SstRows, k, v)
    BY Zenon DEF QuietInv
  <2>2. ASSUME Complete(wal, v) PROVE InLog(v)
    <3> DEFINE w == ValidPrefix(wal)
    <3>1. Complete(w, v) /\ LogOK(w, issued)
      BY <2>2, PrefixHolds, Zenon DEF LogInv, OrderInv
    <3> HIDE DEF w
    <3>2. PICK c \in Commits(w), i \in Puts(w) : w[i].tx = w[c].tx /\ w[i].val = v
      BY <3>1, ZenonT(40) DEF Complete
    <3>3. i \in Pending(w, c)
      BY <3>1, <3>2, PendingIs
    <3>4. c \in 1..Len(w) /\ w[c].op = "Commit"
      BY Zenon DEF Commits
    <3> QED
      BY <3>2, <3>3, <3>4, Zenon DEF InLog, w
  <2> QED
    BY <2>1, <2>2, Zenon DEF Stores
<1> QED
  BY <1>1, QuietAlways, PTL

\* ... and between flushes a reader at the end of the commit sequence sees it,
\* or a later write of the same key, through any number of flushes and
\* recoveries.
THEOREM QuietWritesAlwaysNewest ==
  ASSUME \A f, g \in Flusher : f = g
  PROVE  Spec => []QuietWritesNewest
<1>1. NewestWins /\ LogInv /\ MildInv /\ MildQuiet => QuietWritesNewest
  <2> SUFFICES ASSUME NewestWins, LogInv, OrderInv, QuietInv, running, Mild, AllIdle,
                      NEW v \in acked \ overlapped, NEW k \in issued[v]
               PROVE  \E r \in Stored : Newest(k, r) /\ v <= r.val
    BY Zenon DEF MildInv, MildQuiet, QuietWritesNewest, AllIdle
  <2>1. k \in Key
    <3>1. v \in 1..Len(issued) /\ issued \in Seq(SUBSET Key)
      BY Zenon DEF QuietInv, LogInv
    <3>2. issued[v] \in SUBSET Key
      BY <3>1
    <3> QED
      BY <3>2, Zenon
  <2>2. PICK s \in Stored : s.key = k /\ s.val = v
    BY SMTT(30) DEF QuietInv, AllIdle, Stores, Stored
  <2>3. \A a \in Stored : a.ts \in Nat /\ a.ts < commit_seq
    <3>1. \A a \in Stored : a \in UNION Groups
      BY Zenon DEF Groups, Stored, SstRows
    <3> QED
      BY <3>1, Zenon DEF OrderInv, Ranked, Row
  <2> DEFINE T == {a.ts : a \in {b \in Stored : b.key = k}}
  <2>4. T \in SUBSET Nat /\ T # {} /\ commit_seq \in Nat /\ \A x \in T : x <= commit_seq
    BY <2>2, <2>3 DEF OrderInv
  <2> HIDE DEF T
  <2>5. MaxOf(T) \in T /\ \A x \in T : x <= MaxOf(T)
    BY <2>4, MaxOfIs, Zenon
  <2>6. PICK r \in Stored : r.key = k /\ r.ts = MaxOf(T)
    BY <2>5, Zenon DEF T
  <2>7. \A a \in Stored : a.key = k => a.ts <= r.ts
    BY <2>5, <2>6, Zenon DEF T
  <2>8. Newest(k, r)
    BY <2>6, <2>7, Zenon DEF Newest
  <2> QED
    BY <2>1, <2>2, <2>6, <2>8, Zenon DEF NewestWins
<1> QED
  BY <1>1, QuietAlways, NewestAlwaysWins, PTL
=============================================================================
