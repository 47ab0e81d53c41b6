---------------------------- MODULE Futures_proofs ----------------------------
(***************************************************************************)
(* Proofs about futures and the live view over them, for every set of      *)
(* stages, branches and edits, and every size of what the service          *)
(* remembers.                                                              *)
(***************************************************************************)
EXTENDS LiveView, SequenceTheorems, FiniteSetTheorems, WellFoundedInduction, TLAPS

-----------------------------------------------------------------------------
(* Natural numbers: what induction over a set of them gives.               *)

(* A set of numbers has a least one.                                       *)
LEMMA Least ==
  ASSUME NEW T, T \subseteq Nat, T # {}
  PROVE  \E x \in T : \A y \in T : x <= y
<1> DEFINE R == {p \in Nat \X Nat : p[1] < p[2]}
<1>1. IsWellFoundedOn(R, Nat)
  BY NatLessThanWellFounded, Zenon DEF OpToRel
<1>2. PICK x \in T : \A y \in T : ~(<<y, x>> \in R)
  BY <1>1, WFMin
<1>3. \A y \in T : ~(y < x)
  BY <1>2
<1> QED
  BY <1>3

(* A finite set of numbers has a largest one.                              *)
LEMMA Largest ==
  ASSUME NEW S, S \subseteq Nat, S # {}, IsFiniteSet(S)
  PROVE  /\ \E x \in S : \A y \in S : x >= y
         /\ Max(S) \in S /\ \A y \in S : Max(S) >= y
<1> DEFINE Topped(A) == \E x \in A : \A y \in A : x >= y
           Bare(n) == \E A \in SUBSET Nat : A # {} /\ IsFiniteSet(A) /\ Cardinality(A) = n /\ ~Topped(A)
           T == {n \in Nat : Bare(n)}
<1>1. T = {}
  <2> SUFFICES ASSUME T # {} PROVE FALSE
    OBVIOUS
  <2>1. PICK n \in T : \A k \in T : n <= k
    BY Least
  <2>2. PICK A \in SUBSET Nat : A # {} /\ IsFiniteSet(A) /\ Cardinality(A) = n /\ ~Topped(A)
    BY <2>1
  <2>3. PICK a \in A : TRUE
    BY <2>2
  <2> DEFINE B == A \ {a}
  <2>4. IsFiniteSet(B) /\ Cardinality(B) = n - 1 /\ n - 1 \in Nat
    BY <2>2, <2>3, FS_RemoveElement, FS_EmptySet, FS_CardinalityType
  <2>5. CASE B = {}
    BY <2>2, <2>3, <2>5
  <2>6. CASE B # {}
    <3>1. Topped(B)
      <4>1. ~(n - 1 \in T)
        BY <2>1, <2>4
      <4>2. B \in SUBSET Nat
        OBVIOUS
      <4> HIDE DEF Topped, B
      <4> QED
        BY <2>4, <2>6, <4>1, <4>2
    <3>2. PICK b \in B : \A y \in B : b >= y
      BY <3>1
    <3>3. CASE a >= b
      <4>1. \A y \in A : a >= y
        BY <2>2, <2>3, <3>2, <3>3
      <4> QED
        BY <2>2, <2>3, <4>1
    <3>4. CASE b >= a
      <4>1. \A y \in A : b >= y
        BY <2>2, <2>3, <3>2, <3>4
      <4> QED
        BY <2>2, <3>2, <4>1
    <3> QED
      BY <2>2, <2>3, <3>3, <3>4
  <2> QED
    BY <2>5, <2>6
<1>2. Topped(S)
  <2>1. Cardinality(S) \in Nat
    BY FS_CardinalityType
  <2> QED
    BY <1>1, <2>1
<1> QED
  BY <1>2 DEF Max

-----------------------------------------------------------------------------
(* Prefixes of a revision.                                                 *)

(* The first i changes of a revision.                                      *)
LEMMA Prefix ==
  ASSUME NEW S, NEW s \in Seq(S), NEW i \in 0..Len(s)
  PROVE  /\ SubSeq(s, 1, i) \in Seq(S) /\ Len(SubSeq(s, 1, i)) = i
         /\ \A j \in 1..i : SubSeq(s, 1, i)[j] = s[j]
         /\ \A j \in 0..i : SubSeq(SubSeq(s, 1, i), 1, j) = SubSeq(s, 1, j)
         /\ i = Len(s) => SubSeq(s, 1, i) = s
         /\ i = 0 => SubSeq(s, 1, i) = <<>>
<1>1. \A n \in 0..Len(s) : /\ SubSeq(s, 1, n) \in Seq(S) /\ Len(SubSeq(s, 1, n)) = n
                           /\ \A j \in 1..n : SubSeq(s, 1, n)[j] = s[j]
  BY SubSeqProperties
<1>2. ASSUME NEW j \in 0..i PROVE SubSeq(SubSeq(s, 1, i), 1, j) = SubSeq(s, 1, j)
  <2>1. /\ SubSeq(SubSeq(s, 1, i), 1, j) \in Seq(S) /\ Len(SubSeq(SubSeq(s, 1, i), 1, j)) = j
        /\ \A n \in 1..j : SubSeq(SubSeq(s, 1, i), 1, j)[n] = SubSeq(s, 1, i)[n]
    BY <1>1, SubSeqProperties
  <2>2. \A n \in 1..j : SubSeq(SubSeq(s, 1, i), 1, j)[n] = SubSeq(s, 1, j)[n]
    BY <1>1, <2>1
  <2>3. SubSeq(s, 1, j) \in Seq(S) /\ Len(SubSeq(s, 1, j)) = j
    BY <1>1
  <2> QED
    BY <2>1, <2>2, <2>3, SeqEqual
<1>3. i = Len(s) => SubSeq(s, 1, i) = s
  BY SubSeqFull
<1>4. i = 0 => SubSeq(s, 1, i) = <<>>
  BY <1>1, EmptySeq
<1> QED
  BY <1>1, <1>2, <1>3, <1>4

(* A revision with one change more has the prefixes it had, and itself.    *)
LEMMA Grown ==
  ASSUME NEW S, NEW s \in Seq(S), NEW e \in S
  PROVE  LET t == Append(s, e)
         IN  /\ t \in Seq(S) /\ Len(t) = Len(s) + 1 /\ t # <<>>
             /\ Last(t) = e /\ Front(t) = s
             /\ \A i \in 0..Len(s) : SubSeq(t, 1, i) = SubSeq(s, 1, i)
             /\ Prefixes(t) = Prefixes(s) \cup {t}
<1> DEFINE t == Append(s, e)
<1>1. t \in Seq(S) /\ Len(t) = Len(s) + 1 /\ t # <<>> /\ t[Len(s) + 1] = e /\ \A i \in 1..Len(s) : t[i] = s[i]
  OBVIOUS
<1>2. ASSUME NEW i \in 0..Len(s) PROVE SubSeq(t, 1, i) = SubSeq(s, 1, i)
  <2>1. /\ SubSeq(t, 1, i) \in Seq(S) /\ Len(SubSeq(t, 1, i)) = i
        /\ \A j \in 1..i : SubSeq(t, 1, i)[j] = t[j]
    BY <1>1, Prefix
  <2>2. /\ SubSeq(s, 1, i) \in Seq(S) /\ Len(SubSeq(s, 1, i)) = i
        /\ \A j \in 1..i : SubSeq(s, 1, i)[j] = s[j]
    BY Prefix
  <2>3. \A j \in 1..i : SubSeq(t, 1, i)[j] = SubSeq(s, 1, i)[j]
    BY <1>1, <2>1, <2>2
  <2> QED
    BY <2>1, <2>2, <2>3, SeqEqual
<1>3. Front(t) = s
  BY <1>1, <1>2, Prefix DEF Front
<1>4. SubSeq(t, 1, Len(s) + 1) = t
  BY <1>1, Prefix
<1>5. Prefixes(t) = {SubSeq(t, 1, i) : i \in 0..Len(s)} \cup {SubSeq(t, 1, Len(s) + 1)}
  BY <1>1 DEF Prefixes
<1>6. {SubSeq(t, 1, i) : i \in 0..Len(s)} = Prefixes(s)
  BY <1>2 DEF Prefixes
<1> QED
  BY <1>1, <1>2, <1>3, <1>4, <1>5, <1>6 DEF Last

(* Every revision but the first is its predecessor with a change more.     *)
LEMMA Regrown ==
  ASSUME NEW S, NEW s \in Seq(S), s # <<>>
  PROVE  /\ Front(s) \in Seq(S) /\ Last(s) \in S /\ s = Append(Front(s), Last(s))
         /\ Len(Front(s)) = Len(s) - 1 /\ Len(s) \in Nat \ {0}
<1>1. Len(s) \in Nat \ {0}
  BY EmptySeq
<1>2. /\ Front(s) \in Seq(S) /\ Len(Front(s)) = Len(s) - 1
      /\ \A j \in 1..Len(s) - 1 : Front(s)[j] = s[j]
  <2>1. Len(s) - 1 \in 0..Len(s)
    BY <1>1
  <2> QED
    BY <2>1, Prefix DEF Front
<1>3. Last(s) \in S
  BY <1>1 DEF Last
<1>4. /\ Append(Front(s), Last(s)) \in Seq(S) /\ Len(Append(Front(s), Last(s))) = Len(s)
      /\ \A j \in 1..Len(s) : Append(Front(s), Last(s))[j] = s[j]
  BY <1>1, <1>2, <1>3 DEF Last
<1>5. s = Append(Front(s), Last(s))
  BY <1>4, SeqEqual
<1> QED
  BY <1>1, <1>2, <1>3, <1>5

(* A prefix is one of the prefixes.                                        *)
LEMMA PrefixOf ==
  ASSUME NEW S, NEW s \in Seq(S), NEW t \in Seq(S)
  PROVE  /\ IsPrefix(s, t) <=> s \in Prefixes(t)
         /\ IsPrefix(s, t) => /\ Len(s) \in 0..Len(t) /\ s = SubSeq(t, 1, Len(s))
                              /\ Prefixes(s) = {p \in Prefixes(t) : Len(p) <= Len(s)}
<1>1. IsPrefix(s, t) <=> Len(s) <= Len(t) /\ s = SubSeq(t, 1, Len(s))
  BY Prefix DEF IsPrefix
<1>2. ASSUME NEW i \in 0..Len(t), s = SubSeq(t, 1, i) PROVE Len(s) = i
  BY <1>2, Prefix
<1>3. IsPrefix(s, t) <=> s \in Prefixes(t)
  BY <1>1, <1>2 DEF Prefixes
<1>4. ASSUME IsPrefix(s, t) PROVE Prefixes(s) = {p \in Prefixes(t) : Len(p) <= Len(s)}
  <2>1. Len(s) \in 0..Len(t) /\ s = SubSeq(t, 1, Len(s))
    BY <1>1, <1>4
  <2>2. \A i \in 0..Len(s) : SubSeq(s, 1, i) = SubSeq(t, 1, i)
    BY <2>1, Prefix
  <2>3. \A i \in 0..Len(t) : Len(SubSeq(t, 1, i)) = i
    BY Prefix
  <2>4. Prefixes(s) \subseteq {p \in Prefixes(t) : Len(p) <= Len(s)}
    BY <2>1, <2>2, <2>3 DEF Prefixes
  <2>5. {p \in Prefixes(t) : Len(p) <= Len(s)} \subseteq Prefixes(s)
    BY <2>1, <2>2, <2>3 DEF Prefixes
  <2> QED
    BY <2>4, <2>5
<1> QED
  BY <1>1, <1>3, <1>4

-----------------------------------------------------------------------------
(* What is remembered of ancestries.                                       *)

Change ==
  [kind : {"edit"}, edit : Edits]
    \cup [kind : {"fork"}, stage : Stages, branch : Keys, valued : BOOLEAN, joint : (SUBSET Nat) \cup {Unknown}]

Revisions == Seq(Change)

Honest(cache) ==
  /\ cache \in Seq([model : Revisions, forks : SUBSET Revisions])
  /\ \A i \in DOMAIN cache : cache[i].forks = Forks(cache[i].model)

(* A revision lies in the branches of its predecessor and in its own.      *)
LEMMA ForksGrow ==
  /\ Forks(<<>>) = {}
  /\ \A m \in Revisions : Forks(m) \subseteq Revisions
  /\ \A m \in Revisions : m # <<>> => Forks(m) = Forks(Front(m)) \cup OwnFork(m)
  /\ \A m \in Revisions, e \in Change : Forks(Append(m, e)) = Forks(m) \cup OwnFork(Append(m, e))
<1>1. \A m \in Revisions : Prefixes(m) \subseteq Revisions
  BY Prefix DEF Prefixes, Revisions
<1>2. Forks(<<>>) = {}
  <2>1. <<>> \in Revisions /\ Len(<<>>) = 0
    BY EmptySeq DEF Revisions
  <2>2. \A i \in 0..0 : SubSeq(<<>>, 1, i) = <<>>
    BY <2>1, Prefix DEF Revisions
  <2>3. Prefixes(<<>>) = {<<>>}
    <3>1. 0..Len(<<>>) = {0}
      BY <2>1
    <3>2. Prefixes(<<>>) = {SubSeq(<<>>, 1, i) : i \in {0}}
      BY <3>1, Zenon DEF Prefixes
    <3>3. SubSeq(<<>>, 1, 0) = <<>>
      BY <2>2
    <3> QED
      BY <3>2, <3>3, Zenon
  <2> QED
    BY <2>3 DEF Forks, IsFork
<1>3. ASSUME NEW m \in Revisions, NEW e \in Change PROVE Forks(Append(m, e)) = Forks(m) \cup OwnFork(Append(m, e))
  <2>1. Prefixes(Append(m, e)) = Prefixes(m) \cup {Append(m, e)}
    BY Grown DEF Revisions
  <2> QED
    BY <2>1 DEF Forks, OwnFork
<1>4. ASSUME NEW m \in Revisions, m # <<>> PROVE Forks(m) = Forks(Front(m)) \cup OwnFork(m)
  <2>1. Front(m) \in Revisions /\ Last(m) \in Change /\ m = Append(Front(m), Last(m))
    BY <1>4, Regrown DEF Revisions
  <2> QED
    BY <1>3, <2>1, Zenon
<1> QED
  BY <1>1, <1>2, <1>3, <1>4 DEF Forks

(* What a cache that is true says of a revision it knows.                  *)
LEMMA LookedUp ==
  ASSUME NEW cache, Honest(cache), NEW m, Known(cache, m)
  PROVE  m \in Revisions /\ Lookup(cache, m) = Forks(m)
<1>1. PICK i \in DOMAIN cache : cache[i].model = m
  BY DEF Known
<1> DEFINE i0 == CHOOSE j \in DOMAIN cache : cache[j].model = m
<1>2. i0 \in DOMAIN cache /\ cache[i0].model = m
  BY <1>1
<1>3. Lookup(cache, m) = cache[i0].forks
  BY DEF Lookup
<1> HIDE DEF i0
<1>4. /\ cache[i0] \in [model : Revisions, forks : SUBSET Revisions]
      /\ cache[i0].forks = Forks(cache[i0].model)
  <2>1. ASSUME NEW S, cache \in Seq(S) PROVE cache[i0] \in S
    BY <1>2, <2>1
  <2> QED
    BY <1>2, <2>1 DEF Honest
<1> QED
  BY <1>2, <1>3, <1>4

(* It stays true when what is remembered is.                               *)
LEMMA Remembered ==
  ASSUME NEW cache, Honest(cache), NEW m \in Revisions
  PROVE  Honest(Remember(cache, m, Forks(m)))
<1> DEFINE E == [model : Revisions, forks : SUBSET Revisions]
           e == [model |-> m, forks |-> Forks(m)]
<1>1. e \in E /\ e.forks = Forks(e.model)
  BY ForksGrow
<1>2. cache \in Seq(E) /\ DOMAIN cache = 1..Len(cache) /\ Len(cache) \in Nat
  BY DEF Honest
<1> HIDE DEF E, e
<1>3. CASE Known(cache, m)
  <2> DEFINE c == [i \in DOMAIN cache |-> IF cache[i].model = m THEN e ELSE cache[i]]
  <2>1. c \in Seq(E)
    BY <1>1, <1>2
  <2>2. \A i \in DOMAIN c : c[i].forks = Forks(c[i].model)
    BY <1>1 DEF Honest
  <2>3. Remember(cache, m, Forks(m)) = c
    BY <1>3 DEF Remember, e
  <2> QED
    BY <2>1, <2>2, <2>3 DEF Honest, E
<1>4. CASE ~Known(cache, m)
  <2> DEFINE b == IF Len(cache) >= MaxHeaders THEN Tail(cache) ELSE cache
  <2>1. b \in Seq(E) /\ \A i \in 1..Len(b) : b[i].forks = Forks(b[i].model)
    <3>1. CASE Len(cache) >= MaxHeaders
      <4>1. Len(cache) # 0
        BY <1>2, <3>1, FuturesAssumption
      <4>2. cache # <<>>
        BY <1>2, <4>1, EmptySeq
      <4>3. /\ b \in Seq(E) /\ Len(b) = Len(cache) - 1
            /\ \A i \in 1..Len(b) : b[i] = cache[i + 1] /\ i + 1 \in DOMAIN cache
        BY <1>2, <3>1, <4>2, HeadTailProperties
      <4> QED
        BY <4>3 DEF Honest
    <3> QED
      BY <1>2, <3>1 DEF Honest
  <2>2. Remember(cache, m, Forks(m)) = Append(b, e)
    BY <1>4 DEF Remember, e
  <2> HIDE DEF b
  <2>3. /\ Append(b, e) \in Seq(E) /\ DOMAIN Append(b, e) = 1..Len(b) + 1
        /\ \A i \in 1..Len(b) : Append(b, e)[i] = b[i]
        /\ Append(b, e)[Len(b) + 1] = e
    BY <1>1, <2>1
  <2>4. \A i \in DOMAIN Append(b, e) : Append(b, e)[i].forks = Forks(Append(b, e)[i].model)
    BY <1>1, <2>1, <2>3
  <2> QED
    BY <2>2, <2>3, <2>4 DEF Honest, E
<1> QED
  BY <1>3, <1>4

(* A written revision is remembered only if its predecessor is.            *)
LEMMA RevisionRemembered ==
  ASSUME NEW cache, Honest(cache), NEW m \in Revisions
  PROVE  Honest(RememberRevision(cache, m))
<1>1. CASE m = <<>>
  BY <1>1, Remembered, ForksGrow DEF RememberRevision
<1>2. CASE m # <<>> /\ Known(cache, Front(m))
  <2>1. OwnFork(m) \cup Lookup(cache, Front(m)) = Forks(m)
    BY <1>2, ForksGrow, LookedUp
  <2> QED
    BY <1>2, <2>1, Remembered DEF RememberRevision
<1> QED
  BY <1>1, <1>2 DEF RememberRevision

(* One step of the walk along an ancestry.                                 *)
LEMMA Inherits ==
  ASSUME NEW m \in Revisions, NEW i \in 0..Len(m), NEW cache, NEW forks,
         Honest(cache), forks = IF i = 0 THEN {} ELSE Forks(SubSeq(m, 1, i - 1))
  PROVE  LET next == Inherit([cache |-> cache, forks |-> forks], SubSeq(m, 1, i))
         IN  /\ next = [cache |-> next.cache, forks |-> next.forks]
             /\ Honest(next.cache) /\ next.forks = Forks(SubSeq(m, 1, i))
<1> DEFINE p == SubSeq(m, 1, i)
<1>1. p \in Revisions /\ Len(p) = i /\ (i = 0 => p = <<>>)
  BY Prefix DEF Revisions
<1>2. i # 0 => p # <<>> /\ Front(p) = SubSeq(m, 1, i - 1)
  <2>1. i # 0 => i - 1 \in 0..i
    OBVIOUS
  <2> QED
    BY <1>1, <2>1, Prefix, EmptySeq DEF Front, Revisions
<1>3. forks \cup OwnFork(p) = Forks(p)
  BY <1>1, <1>2, ForksGrow DEF OwnFork, IsFork
<1> HIDE DEF p
<1>4. CASE Known(cache, p)
  BY <1>4, LookedUp DEF Inherit, p
<1>5. CASE ~Known(cache, p)
  BY <1>1, <1>3, <1>5, Remembered DEF Inherit, p
<1> QED
  BY <1>4, <1>5

(* The whole walk: it exists, and ends with the forks of the ancestry.     *)
LEMMA FoldsAncestry ==
  ASSUME NEW cache, Honest(cache), NEW m \in Revisions
  PROVE  /\ Folded(cache, m).forks = Forks(m)
         /\ Honest(Folded(cache, m).cache)
<1> DEFINE none == [cache |-> cache, forks |-> {}]
           Step(f, i) == Inherit(IF i = 0 THEN none ELSE f[i - 1], SubSeq(m, 1, i))
           Walk(f, n) == f = [i \in 0..n |-> Step(f, i)]
           along == CHOOSE f : Walk(f, Len(m))
<1>0. Len(m) \in Nat
  BY DEF Revisions
<1>1. Folded(cache, m) = along[Len(m)]
  BY DEF Folded
<1> HIDE DEF none
<1>2. \A n \in Nat : \E f : Walk(f, n)
  <2> DEFINE T == {n \in Nat : ~\E f : Walk(f, n)}
  <2> SUFFICES ASSUME T # {} PROVE FALSE
    OBVIOUS
  <2>1. PICK n \in T : \A k \in T : n <= k
    BY Least
  <2>2. n # 0
    <3> DEFINE g == [i \in 0..0 |-> Inherit(none, SubSeq(m, 1, i))]
    <3>1. Walk(g, 0)
      OBVIOUS
    <3> QED
      BY <2>1, <3>1
  <2>3. PICK f : Walk(f, n - 1)
    BY <2>1, <2>2
  <2> DEFINE g == [i \in 0..n |-> IF i = n THEN Step(f, n) ELSE f[i]]
  <2>4. Walk(g, n)
    BY <2>1, <2>2, <2>3
  <2> QED
    BY <2>1, <2>4
<1>3. along = [i \in 0..Len(m) |-> Step(along, i)]
  <2>1. \E f : Walk(f, Len(m))
    BY <1>0, <1>2
  <2> QED
    BY <2>1
<1> HIDE DEF along, Walk
<1>4. ASSUME NEW i \in 0..Len(m)
      PROVE  along[i] = Inherit(IF i = 0 THEN none ELSE along[i - 1], SubSeq(m, 1, i))
  BY <1>3
<1> DEFINE Fine(i) == /\ along[i] = [cache |-> along[i].cache, forks |-> along[i].forks]
                      /\ Honest(along[i].cache) /\ along[i].forks = Forks(SubSeq(m, 1, i))
<1>5. \A i \in 0..Len(m) : Fine(i)
  <2> DEFINE T == {i \in 0..Len(m) : ~Fine(i)}
  <2> SUFFICES ASSUME T # {} PROVE FALSE
    OBVIOUS
  <2>0. T \subseteq Nat
    BY <1>0
  <2>1. PICK i \in T : \A k \in T : i <= k
    <3> HIDE DEF T
    <3> QED
      BY <2>0, Least
  <2>2. i \in 0..Len(m) /\ ~Fine(i)
    OBVIOUS
  <2>3. CASE i = 0
    <3>1. along[i] = Inherit([cache |-> cache, forks |-> {}], SubSeq(m, 1, i))
      BY <1>4, <2>2, <2>3 DEF none
    <3>2. Fine(i)
      BY <2>2, <2>3, <3>1, Inherits
    <3> QED
      BY <2>2, <3>2
  <2>4. CASE i # 0
    <3>1. i - 1 \in 0..Len(m) /\ i - 1 \notin T
      BY <1>0, <2>1, <2>2, <2>4
    <3>2. Fine(i - 1)
      BY <3>1
    <3>3. along[i] = Inherit(along[i - 1], SubSeq(m, 1, i))
      BY <1>4, <2>2, <2>4
    <3> DEFINE c == along[i - 1].cache
               fs == along[i - 1].forks
    <3>4. Honest(c) /\ fs = Forks(SubSeq(m, 1, i - 1)) /\ along[i - 1] = [cache |-> c, forks |-> fs]
      BY <3>2
    <3> HIDE DEF c, fs
    <3>5. Fine(i)
      BY <2>2, <2>4, <3>3, <3>4, Inherits
    <3> QED
      BY <2>2, <3>5
  <2> QED
    BY <2>3, <2>4
<1>6. SubSeq(m, 1, Len(m)) = m
  BY <1>0, Prefix DEF Revisions
<1>7. Fine(Len(m))
  BY <1>0, <1>5
<1> QED
  BY <1>1, <1>6, <1>7

(* Whatever is remembered, the branches of a revision are those of its     *)
(* ancestry, and what is remembered then is true.                          *)
THEOREM BranchesTrue ==
  ASSUME NEW cache, Honest(cache), NEW m \in Revisions
  PROVE  BranchesOf(cache, m).forks = Forks(m) /\ Honest(BranchesOf(cache, m).cache)
BY LookedUp, FoldsAncestry DEF BranchesOf

-----------------------------------------------------------------------------
(* The inductive invariant.                                                *)

Graphs == [id : {<<>>} \cup (Stages \X Keys), binds : Seq(Revisions) \ {<<>>}]
Pcs == {"idle", "model", "done", "failed"} \cup Keys

TypeOK ==
  /\ models \subseteq Revisions /\ graphs \subseteq Graphs /\ crossed \subseteq graphs
  /\ writes \in Seq(Revisions)
  /\ req \in [Stages -> [trunk : Revisions, keys : SUBSET Keys, valued : SUBSET Keys]]
  /\ fork \in [Stages -> [pc : Pcs, left : SUBSET Keys, parent : (SUBSET Nat) \cup {Unknown}]]
  /\ receipts \subseteq Stages \X Keys \X {"model", "graph"} /\ faults \in Nat

(* The store holds the ancestry of every revision, and every model that a  *)
(* graph was bound to.                                                     *)
StoreClosed ==
  /\ <<>> \in models /\ \A m \in models : Prefixes(m) \subseteq models
  /\ \A g \in graphs : \A i \in DOMAIN g.binds : g.binds[i] \in models

(* The fork that is branch k of stage f, by what was asked for alone: what *)
(* the stage looked up of its trunk is what holds of it.                   *)
TrunkJoint(f) == ParentJoint(Forks(req[f].trunk))

Branch(f, k) ==
  LET valued == k \in req[f].valued
  IN  Append(req[f].trunk,
        [kind |-> "fork", stage |-> f, branch |-> k, valued |-> valued,
         joint |-> IF valued /\ TrunkJoint(f) # Unknown THEN TrunkJoint(f) \cup {Len(req[f].trunk) + 1} ELSE Unknown])

UnderWay == {"model"} \cup Keys

ForksFit ==
  \A f \in Stages :
    /\ fork[f].pc = "idle" => req[f].keys = {}
    /\ fork[f].pc # "idle" => req[f].trunk \in models
    /\ fork[f].pc \in UnderWay => fork[f].parent = TrunkJoint(f) /\ fork[f].left \subseteq req[f].keys
    /\ fork[f].pc \in Keys => fork[f].pc \in fork[f].left /\ Branch(f, fork[f].pc) \in models
    /\ fork[f].pc \in UnderWay \cup {"done"} =>
         \A k \in req[f].keys \ fork[f].left : \E g \in graphs : g.id = <<f, k>>
    /\ fork[f].pc = "done" => fork[f].left = {}

(* Every fork is the branch some stage was asked for.                      *)
BranchesFit ==
  /\ \A m \in models : IsFork(m) =>
       Last(m).branch \in req[Last(m).stage].keys /\ m = Branch(Last(m).stage, Last(m).branch)
  /\ \A g \in graphs, f \in Stages, k \in Keys : g.id = <<f, k>> =>
       k \in req[f].keys /\ Branch(f, k) \in models /\ g.binds[1] = Branch(f, k)
  /\ \A f \in Stages, k \in Keys : <<f, k, "model">> \in receipts =>
       k \in req[f].keys /\ Branch(f, k) \in models

IInv ==
  /\ TypeOK /\ Honest(ancestry) /\ StoreClosed /\ ForksFit /\ BranchesFit
  /\ StaysOnLine /\ JointAlongBranches

-----------------------------------------------------------------------------
(* Branches and their joint probabilities.                                 *)

(* The innermost branch a revision lies in lies in all the others.         *)
LEMMA InnermostHolds ==
  ASSUME NEW m \in Revisions, Forks(m) # {}
  PROVE  Innermost(Forks(m)) \in Forks(m) /\ Forks(Innermost(Forks(m))) = Forks(m)
<1> DEFINE S == {i \in 0..Len(m) : SubSeq(m, 1, i) \in Forks(m)}
           p == Innermost(Forks(m))
<1>0. Len(m) \in Nat
  BY DEF Revisions
<1>1. \A q \in Forks(m) : q \in Revisions /\ IsPrefix(q, m) /\ Len(q) \in S /\ q = SubSeq(m, 1, Len(q))
  <2> SUFFICES ASSUME NEW q \in Forks(m) PROVE q \in Revisions /\ IsPrefix(q, m) /\ Len(q) \in S /\ q = SubSeq(m, 1, Len(q))
    OBVIOUS
  <2>1. q \in Revisions /\ q \in Prefixes(m)
    BY ForksGrow DEF Forks
  <2> QED
    BY <2>1, PrefixOf DEF Revisions
<1>2. S \subseteq Nat /\ IsFiniteSet(S) /\ S # {}
  <2>1. IsFiniteSet(0..Len(m))
    BY <1>0, FS_Interval
  <2> QED
    BY <1>0, <1>1, <2>1, FS_Subset
<1> HIDE DEF S
<1>3. PICK i \in S : \A j \in S : i >= j
  BY <1>2, Largest
<1>4. SubSeq(m, 1, i) \in Forks(m) /\ Len(SubSeq(m, 1, i)) = i
  BY Prefix DEF S, Revisions
<1>5. \A q \in Forks(m) : Len(q) <= Len(SubSeq(m, 1, i))
  BY <1>1, <1>2, <1>3, <1>4
<1>6. p \in Forks(m) /\ \A q \in Forks(m) : Len(q) <= Len(p)
  BY <1>4, <1>5 DEF Innermost
<1> HIDE DEF p
<1>7. Prefixes(p) = {q \in Prefixes(m) : Len(q) <= Len(p)}
  BY <1>1, <1>6, PrefixOf DEF Revisions
<1>8. Forks(p) = Forks(m)
  BY <1>6, <1>7 DEF Forks
<1> QED
  BY <1>6, <1>8 DEF p

(* What a stage looks up of its trunk: the joint probability of all the    *)
(* branches the trunk lies in.                                             *)
Joint(m) == IF \A p \in Forks(m) : Last(p).valued THEN {Len(p) : p \in Forks(m)} ELSE Unknown

LEMMA TrunkJointIs ==
  ASSUME TypeOK, StoreClosed, JointAlongBranches, NEW m \in models
  PROVE  ParentJoint(Forks(m)) = Joint(m) /\ Joint(m) \in (SUBSET Nat) \cup {Unknown}
<1>1. m \in Revisions /\ Prefixes(m) \subseteq models
  BY DEF TypeOK, StoreClosed
<1>2. Joint(m) \in (SUBSET Nat) \cup {Unknown}
  <2>1. \A p \in Forks(m) : Len(p) \in Nat
    BY <1>1, ForksGrow DEF Revisions
  <2> QED
    BY <2>1 DEF Joint
<1>3. CASE Forks(m) = {}
  BY <1>2, <1>3 DEF ParentJoint, Joint
<1>4. CASE Forks(m) # {}
  <2> DEFINE p == Innermost(Forks(m))
  <2>1. p \in Forks(m) /\ Forks(p) = Forks(m)
    BY <1>1, <1>4, InnermostHolds
  <2>2. ParentJoint(Forks(m)) = Last(p).joint
    BY <1>4 DEF ParentJoint
  <2> HIDE DEF p
  <2>3. p \in models /\ IsFork(p)
    BY <1>1, <2>1 DEF Forks
  <2>4. Last(p).joint = Joint(p)
    BY <2>3 DEF JointAlongBranches, Joint
  <2> QED
    BY <1>2, <2>1, <2>2, <2>4 DEF Joint
<1> QED
  BY <1>3, <1>4

(* The fork of a branch, its place and its joint probability.              *)
LEMMA BranchIs ==
  ASSUME TypeOK, StoreClosed, JointAlongBranches, NEW f \in Stages, NEW k \in Keys, req[f].trunk \in models
  PROVE  LET m == Branch(f, k)
         IN  /\ m \in Revisions /\ IsFork(m) /\ Last(m).stage = f /\ Last(m).branch = k
             /\ m = Append(req[f].trunk, Last(m)) /\ Last(m) \in Change
             /\ Prefixes(m) \subseteq models \cup {m}
             /\ Last(m).joint = Joint(m)
<1> DEFINE n == req[f].trunk
           m == Branch(f, k)
           v == k \in req[f].valued
           j == IF v /\ TrunkJoint(f) # Unknown THEN TrunkJoint(f) \cup {Len(n) + 1} ELSE Unknown
           e == [kind |-> "fork", stage |-> f, branch |-> k, valued |-> v, joint |-> j]
<1>1. n \in Revisions /\ Len(n) \in Nat /\ Prefixes(n) \subseteq models
  BY DEF TypeOK, StoreClosed, Revisions
<1>2. TrunkJoint(f) = Joint(n) /\ Joint(n) \in (SUBSET Nat) \cup {Unknown}
  BY TrunkJointIs DEF TrunkJoint
<1>3. m = Append(n, e)
  BY DEF Branch
<1>4. j \in (SUBSET Nat) \cup {Unknown}
  BY <1>1, <1>2
<1> HIDE DEF j, n
<1>5. e \in Change
  BY <1>4 DEF Change
<1> HIDE DEF m
<1>6. /\ m \in Revisions /\ Len(m) = Len(n) + 1 /\ m # <<>> /\ Last(m) = e
      /\ Prefixes(m) = Prefixes(n) \cup {m}
  BY <1>1, <1>3, <1>5, Grown DEF Revisions
<1>7. IsFork(m)
  BY <1>6 DEF IsFork
<1>8. Forks(m) = Forks(n) \cup {m}
  BY <1>1, <1>3, <1>5, <1>7, ForksGrow DEF OwnFork
<1>9. j = Joint(m)
  <2>1. Last(m).valued = v
    BY <1>6
  <2>2. Joint(m) = IF v /\ \A p \in Forks(n) : Last(p).valued THEN {Len(p) : p \in Forks(n)} \cup {Len(n) + 1} ELSE Unknown
    BY <1>6, <1>8, <2>1 DEF Joint
  <2>3. CASE \A p \in Forks(n) : Last(p).valued
    <3>1. TrunkJoint(f) = {Len(p) : p \in Forks(n)}
      BY <1>2, <2>3 DEF Joint
    <3>2. TrunkJoint(f) # Unknown
      <4>1. \A p \in Forks(n) : Len(p) \in Nat
        BY <1>1, ForksGrow DEF Revisions
      <4> QED
        BY <3>1, <4>1, FuturesAssumption DEF Unknown
    <3> QED
      BY <2>2, <2>3, <3>1, <3>2 DEF j
  <2>4. CASE ~\A p \in Forks(n) : Last(p).valued
    BY <1>2, <2>2, <2>4 DEF j, Joint
  <2> QED
    BY <2>3, <2>4
<1>10. Last(m).stage = f /\ Last(m).branch = k /\ Last(m).joint = j
  BY <1>6
<1>11. m = Append(n, Last(m)) /\ Last(m) \in Change
  BY <1>3, <1>5, <1>6
<1> QED
  BY <1>1, <1>6, <1>7, <1>9, <1>10, <1>11 DEF m, n

(* What a stage writes is that branch, since what it looked up was true.   *)
LEMMA WritesBranch ==
  ASSUME NEW f \in Stages, NEW k \in Keys, fork[f].parent = TrunkJoint(f)
  PROVE  ForkRevision(f, k) = Branch(f, k)
BY DEF ForkRevision, Marker, Branch

(* A branch is what was asked for, whatever else happens.                  *)
LEMMA SameBranch ==
  ASSUME NEW f, NEW k, req'[f] = req[f]
  PROVE  TrunkJoint(f)' = TrunkJoint(f) /\ Branch(f, k)' = Branch(f, k)
BY DEF TrunkJoint, Branch

-----------------------------------------------------------------------------
(* Growing the store.                                                      *)

(* What the service notes of its writes are revisions.                     *)
LEMMA WriteNoted ==
  ASSUME writes \in Seq(Revisions), NEW m \in Revisions
  PROVE  NoteWrite(m) \in Seq(Revisions)
<1> DEFINE noted == Append(writes, m)
<1>1. noted \in Seq(Revisions) /\ noted # <<>>
  BY Grown
<1>2. Tail(noted) \in Seq(Revisions)
  BY <1>1, HeadTailProperties
<1> QED
  BY <1>1, <1>2 DEF NoteWrite

(* A successor of a stored revision is stored: a fork only if it is the    *)
(* branch some stage was asked for.                                        *)
LEMMA ModelsGrow ==
  ASSUME IInv, NEW n \in models, NEW e \in Change, models' = models \cup {Append(n, e)},
         e.kind = "fork" => /\ e.branch \in req[e.stage].keys /\ Append(n, e) = Branch(e.stage, e.branch)
                            /\ e.joint = Joint(Append(n, e))
  PROVE  /\ models' \subseteq Revisions /\ <<>> \in models'
         /\ \A m \in models' : Prefixes(m) \subseteq models'
         /\ \A m \in models' : IsFork(m) => /\ Last(m).branch \in req[Last(m).stage].keys
                                            /\ m = Branch(Last(m).stage, Last(m).branch)
         /\ JointAlongBranches'
<1> DEFINE m1 == Append(n, e)
<1>1. n \in Revisions /\ Prefixes(n) \subseteq models
  BY DEF IInv, TypeOK, StoreClosed
<1>2. /\ m1 \in Revisions /\ m1 # <<>> /\ Last(m1) = e /\ Prefixes(m1) = Prefixes(n) \cup {m1}
  BY <1>1, Grown DEF Revisions
<1>3. IsFork(m1) <=> e.kind = "fork"
  BY <1>2 DEF IsFork
<1> HIDE DEF m1
<1>4. models' = models \cup {m1}
  BY DEF m1
<1>5. models' \subseteq Revisions /\ <<>> \in models' /\ \A m \in models' : Prefixes(m) \subseteq models'
  BY <1>1, <1>2, <1>4 DEF IInv, TypeOK, StoreClosed
<1>6. ASSUME NEW m \in models', IsFork(m)
      PROVE  /\ Last(m).branch \in req[Last(m).stage].keys /\ m = Branch(Last(m).stage, Last(m).branch)
             /\ Last(m).joint = Joint(m)
  <2>1. CASE m \in models
    BY <1>6, <2>1 DEF IInv, BranchesFit, JointAlongBranches, Joint
  <2>2. CASE m = m1
    BY <1>2, <1>3, <1>6, <2>2 DEF m1
  <2> QED
    BY <1>4, <2>1, <2>2
<1>7. JointAlongBranches'
  <2>1. \A m \in models' : IsFork(m) => Last(m).joint = Joint(m)
    BY <1>6
  <2> QED
    BY <2>1 DEF JointAlongBranches, Joint
<1> QED
  BY <1>5, <1>6, <1>7

(* Forks under way stay what they are while the store grows.               *)
LEMMA ForksStay ==
  ASSUME ForksFit, models \subseteq models', graphs \subseteq graphs', UNCHANGED <<req, fork>>
  PROVE  ForksFit'
<1>1. \A f \in Stages : TrunkJoint(f)' = TrunkJoint(f)
  BY SameBranch
<1>2. \A f \in Stages : \A k : Branch(f, k)' = Branch(f, k)
  BY SameBranch
<1>3. ForksFit' <=>
        \A f \in Stages :
          /\ fork[f].pc = "idle" => req[f].keys = {}
          /\ fork[f].pc # "idle" => req[f].trunk \in models'
          /\ fork[f].pc \in UnderWay => fork[f].parent = TrunkJoint(f) /\ fork[f].left \subseteq req[f].keys
          /\ fork[f].pc \in Keys => fork[f].pc \in fork[f].left /\ Branch(f, fork[f].pc) \in models'
          /\ fork[f].pc \in UnderWay \cup {"done"} =>
               \A k \in req[f].keys \ fork[f].left : \E g \in graphs' : g.id = <<f, k>>
          /\ fork[f].pc = "done" => fork[f].left = {}
  BY <1>1, <1>2 DEF ForksFit, UnderWay
<1> QED
  BY <1>3 DEF ForksFit

-----------------------------------------------------------------------------
(* The steps.                                                              *)

(* What only reads, and remembers what it read.                            *)
LEMMA ReadKeeps ==
  ASSUME IInv, UNCHANGED <<models, graphs, crossed, writes, receipts, req, fork>>, Honest(ancestry'), faults' \in Nat
  PROVE  IInv'
<1>1. TypeOK' /\ StoreClosed' /\ StaysOnLine' /\ JointAlongBranches' /\ Honest(ancestry)'
  BY DEF IInv, TypeOK, StoreClosed, StaysOnLine, JointAlongBranches, Honest
<1>2. ForksFit'
  BY ForksStay DEF IInv
<1>3. BranchesFit'
  <2>1. \A g, l : Branch(g, l)' = Branch(g, l)
    BY SameBranch
  <2> QED
    BY <2>1 DEF IInv, BranchesFit
<1> QED
  BY <1>1, <1>2, <1>3 DEF IInv

(* An edit is stored.                                                      *)
LEMMA ReviseKeeps == ASSUME IInv, Revise PROVE IInv'
<1>1. PICK n \in models, d \in Edits : StoreModel(Append(n, Edit(d)))
  BY DEF Revise
<1> DEFINE e == Edit(d)
           m == Append(n, e)
<1>2. e \in Change /\ e.kind = "edit"
  BY DEF Change, Edit
<1>3. n \in Revisions
  BY DEF IInv, TypeOK
<1> HIDE DEF e
<1>4. m \in Revisions
  BY <1>2, <1>3, Grown DEF Revisions
<1>5. models' = models \cup {m} /\ writes' = NoteWrite(m) /\ ancestry' = RememberRevision(ancestry, m)
  BY <1>1 DEF StoreModel, e
<1>6. UNCHANGED <<graphs, crossed, receipts, req, fork, faults>>
  BY DEF Revise, forkVars
<1>7. /\ models' \subseteq Revisions /\ <<>> \in models'
      /\ \A p \in models' : Prefixes(p) \subseteq models'
      /\ \A p \in models' : IsFork(p) => /\ Last(p).branch \in req[Last(p).stage].keys
                                         /\ p = Branch(Last(p).stage, Last(p).branch)
      /\ JointAlongBranches'
  BY <1>2, <1>5, ModelsGrow
<1>8. Honest(ancestry)' /\ writes' \in Seq(Revisions)
  <2>1. Honest(RememberRevision(ancestry, m)) /\ NoteWrite(m) \in Seq(Revisions)
    BY <1>4, RevisionRemembered, WriteNoted DEF IInv, TypeOK
  <2> QED
    BY <1>5, <2>1 DEF Honest
<1>9. TypeOK'
  BY <1>6, <1>7, <1>8 DEF IInv, TypeOK
<1>10. StoreClosed'
  BY <1>5, <1>6, <1>7 DEF IInv, StoreClosed
<1>11. ForksFit'
  BY <1>5, <1>6, ForksStay DEF IInv
<1>12. BranchesFit'
  <2>1. \A f, k : Branch(f, k)' = Branch(f, k)
    BY <1>6, SameBranch
  <2> QED
    BY <1>5, <1>6, <1>7, <2>1 DEF IInv, BranchesFit
<1>13. StaysOnLine'
  BY <1>6 DEF IInv, StaysOnLine
<1> QED
  BY <1>7, <1>8, <1>9, <1>10, <1>11, <1>12, <1>13 DEF IInv

(* Two revisions that a graph may be moved between lie in the same         *)
(* branches, and what is remembered stays true.                            *)
LEMMA TransitionTrue ==
  ASSUME NEW cache, Honest(cache), NEW from \in Revisions, NEW to \in Revisions
  PROVE  /\ Transition(cache, from, to).allowed => Forks(to) = Forks(from)
         /\ Honest(Transition(cache, from, to).cache)
<1> DEFINE target == BranchesOf(cache, to)
           current == BranchesOf(target.cache, from)
           move == Transition(cache, from, to)
<1>1. /\ target.forks = Forks(to) /\ current.forks = Forks(from)
      /\ Honest(target.cache) /\ Honest(current.cache)
  BY BranchesTrue
<1>2. /\ move.allowed = (from = to \/ SameLine(from, to, target.forks, current.forks))
      /\ move.cache = IF from = to \/ IsPrefix(from, to) THEN cache ELSE current.cache
  BY DEF Transition
<1> HIDE DEF target, current, move
<1>3. ASSUME IsPrefix(from, to), BranchesAlong(to, from) = {} PROVE Forks(to) = Forks(from)
  <2>1. Prefixes(from) = {p \in Prefixes(to) : Len(p) <= Len(from)}
    BY <1>3, PrefixOf DEF Revisions
  <2>2. \A p \in Forks(to) : Len(p) <= Len(from)
    <3>1. Len(from) \in Nat /\ \A p \in Forks(to) : Len(p) \in Nat /\ ~(Len(p) > Len(from))
      BY <1>3, ForksGrow DEF BranchesAlong, Revisions
    <3> QED
      BY <3>1
  <2> QED
    BY <2>1, <2>2 DEF Forks
<1>4. SameLine(from, to, target.forks, current.forks) => Forks(to) = Forks(from)
  BY <1>1, <1>3 DEF SameLine
<1> QED
  BY <1>1, <1>2, <1>4 DEF move

LEMMA RevisionIs ==
  ASSUME NEW g \in Graphs, NEW i
  PROVE  /\ g = [id |-> g.id, binds |-> g.binds]
         /\ RevisionOf(g, i) = [id |-> g.id, binds |-> SubSeq(g.binds, 1, i)]
<1> DEFINE A == {<<>>} \cup (Stages \X Keys)
           B == Seq(Revisions) \ {<<>>}
           s == SubSeq(g.binds, 1, i)
<1>1. g \in [id : A, binds : B]
  BY DEF Graphs
<1>2. RevisionOf(g, i) = [g EXCEPT !.binds = s]
  BY DEF RevisionOf
<1> HIDE DEF A, B, s
<1>3. g = [id |-> g.id, binds |-> g.binds] /\ [g EXCEPT !.binds = s] = [id |-> g.id, binds |-> s]
  BY <1>1
<1> QED
  BY <1>2, <1>3 DEF s

(* What a graph revision shares with the one it was made of.               *)
LEMMA Rebinds ==
  ASSUME IInv, NEW g \in graphs, NEW m \in models
  PROVE  LET h == Rebound(g, m)
             last == Len(g.binds)
         IN  /\ h \in Graphs /\ h.id = g.id /\ h.binds[1] = g.binds[1]
             /\ last \in Nat \ {0} /\ Len(h.binds) = last + 1 /\ h.binds[last + 1] = m
             /\ \A i \in DOMAIN h.binds : h.binds[i] \in models
             /\ \A i \in 1..last : h.binds[i] = g.binds[i] /\ RevisionOf(h, i) = RevisionOf(g, i)
             /\ RevisionOf(h, last + 1) = h
             /\ Bound(g) = g.binds[last] /\ Bound(g) \in Revisions /\ m \in Revisions
<1> DEFINE h == Rebound(g, m)
           last == Len(g.binds)
<1>1. g \in Graphs /\ m \in Revisions /\ models \subseteq Revisions
  BY DEF IInv, TypeOK
<1>2. /\ g.binds \in Seq(Revisions) /\ g.binds # <<>> /\ DOMAIN g.binds = 1..last
      /\ last \in Nat \ {0} /\ Bound(g) = g.binds[last] /\ Bound(g) \in Revisions
  <2>1. g.binds \in Seq(Revisions) /\ g.binds # <<>>
    BY <1>1 DEF Graphs
  <2> QED
    BY <2>1, EmptySeq DEF Bound, Last
<1>3. /\ Append(g.binds, m) \in Seq(Revisions) /\ Append(g.binds, m) # <<>>
      /\ DOMAIN Append(g.binds, m) = 1..last + 1 /\ Len(Append(g.binds, m)) = last + 1
      /\ Append(g.binds, m)[last + 1] = m
      /\ \A i \in DOMAIN g.binds : Append(g.binds, m)[i] = g.binds[i]
  BY <1>1, <1>2, Grown
<1>4. h.id = g.id /\ h.binds = Append(g.binds, m) /\ h \in Graphs
  BY <1>1, <1>3 DEF Graphs, Rebound
<1>5. \A i \in DOMAIN h.binds : h.binds[i] \in models
  BY <1>2, <1>3, <1>4 DEF IInv, StoreClosed
<1>6. ASSUME NEW i \in 1..last PROVE RevisionOf(h, i) = RevisionOf(g, i)
  <2>1. SubSeq(Append(g.binds, m), 1, i) = SubSeq(g.binds, 1, i)
    BY <1>1, <1>2
  <2>2. /\ RevisionOf(h, i) = [id |-> h.id, binds |-> SubSeq(h.binds, 1, i)]
        /\ RevisionOf(g, i) = [id |-> g.id, binds |-> SubSeq(g.binds, 1, i)]
    BY <1>1, <1>4, RevisionIs
  <2> QED
    BY <1>4, <2>1, <2>2
<1>7. RevisionOf(h, last + 1) = h
  <2>1. SubSeq(h.binds, 1, last + 1) = h.binds
    BY <1>3, <1>4
  <2>2. /\ RevisionOf(h, last + 1) = [id |-> h.id, binds |-> SubSeq(h.binds, 1, last + 1)]
        /\ h = [id |-> h.id, binds |-> h.binds]
    BY <1>4, RevisionIs
  <2> QED
    BY <2>1, <2>2
<1> HIDE DEF h
<1>8. h.binds[1] = g.binds[1] /\ \A i \in 1..last : h.binds[i] = g.binds[i]
  BY <1>2, <1>3, <1>4
<1> QED
  BY <1>1, <1>2, <1>3, <1>4, <1>5, <1>6, <1>7, <1>8 DEF h

(* A graph revision is stored that lies where the one before it did, or is *)
(* recorded as one that does not.                                          *)
LEMMA GraphGrows ==
  ASSUME IInv, NEW g \in graphs, NEW m \in models,
         graphs \subseteq graphs', graphs' \subseteq graphs \cup {Rebound(g, m)},
         crossed \subseteq crossed', crossed' \subseteq graphs',
         graphs' # graphs => Forks(m) = Forks(Bound(g)) \/ Rebound(g, m) \in crossed',
         Honest(ancestry'), UNCHANGED <<models, writes, receipts, req, fork, faults>>
  PROVE  IInv'
<1> DEFINE h == Rebound(g, m)
           last == Len(g.binds)
<1>1. /\ h \in Graphs /\ h.id = g.id /\ h.binds[1] = g.binds[1]
      /\ last \in Nat \ {0} /\ Len(h.binds) = last + 1 /\ h.binds[last + 1] = m
      /\ \A i \in DOMAIN h.binds : h.binds[i] \in models
      /\ \A i \in 1..last : h.binds[i] = g.binds[i] /\ RevisionOf(h, i) = RevisionOf(g, i)
      /\ RevisionOf(h, last + 1) = h /\ Bound(g) = g.binds[last]
  BY Rebinds
<1>2. graphs' \subseteq graphs \cup {h} /\ (graphs' # graphs => Forks(m) = Forks(Bound(g)) \/ h \in crossed')
  OBVIOUS
<1> HIDE DEF h
<1>3. TypeOK'
  BY <1>1, <1>2 DEF IInv, TypeOK
<1>4. StoreClosed'
  BY <1>1, <1>2 DEF IInv, StoreClosed
<1>5. ForksFit'
  BY ForksStay DEF IInv
<1>6. BranchesFit'
  <2>1. \A f, k : Branch(f, k)' = Branch(f, k)
    BY SameBranch
  <2> QED
    BY <1>1, <1>2, <2>1 DEF IInv, BranchesFit
<1>7. StaysOnLine'
  <2>1. ASSUME NEW k \in graphs, NEW i \in 2..Len(k.binds), RevisionOf(k, i) \notin crossed'
        PROVE  Forks(k.binds[i]) = Forks(k.binds[i - 1])
    BY <2>1 DEF IInv, StaysOnLine
  <2>2. ASSUME h \in graphs', h \notin graphs, NEW i \in 2..Len(h.binds), RevisionOf(h, i) \notin crossed'
        PROVE  Forks(h.binds[i]) = Forks(h.binds[i - 1])
    <3>1. CASE i = last + 1
      <4>1. Forks(m) = Forks(Bound(g))
        BY <1>1, <1>2, <2>2, <3>1
      <4> QED
        BY <1>1, <3>1, <4>1
    <3>2. CASE i # last + 1
      <4>1. i \in 2..last /\ i \in 1..last /\ i - 1 \in 1..last
        BY <1>1, <3>2
      <4>2. RevisionOf(g, i) \notin crossed'
        BY <1>1, <2>2, <4>1
      <4>3. Forks(g.binds[i]) = Forks(g.binds[i - 1])
        BY <2>1, <4>1, <4>2
      <4> QED
        BY <1>1, <4>1, <4>3
    <3> QED
      BY <3>1, <3>2
  <2>3. \A k, i : RevisionOf(k, i)' = RevisionOf(k, i)
    BY DEF RevisionOf
  <2> QED
    BY <1>2, <2>1, <2>2, <2>3 DEF StaysOnLine
<1>8. JointAlongBranches' /\ Honest(ancestry)'
  BY DEF IInv, JointAlongBranches, Honest
<1> QED
  BY <1>3, <1>4, <1>5, <1>6, <1>7, <1>8 DEF IInv

(* A graph is given another model, or its own again.                       *)
LEMMA ReviseGraphKeeps == ASSUME IInv, ReviseGraph PROVE IInv'
<1>1. PICK g \in graphs, m \in models :
        LET move == Transition(ancestry, Bound(g), m)
        IN  /\ ancestry' = move.cache
            /\ graphs' = IF move.allowed THEN graphs \cup {Rebound(g, m)} ELSE graphs
  BY DEF ReviseGraph
<1> DEFINE move == Transition(ancestry, Bound(g), m)
<1>2. Bound(g) \in Revisions /\ m \in Revisions
  BY Rebinds
<1>3. (move.allowed => Forks(m) = Forks(Bound(g))) /\ Honest(move.cache)
  BY <1>2, TransitionTrue DEF IInv
<1>4. /\ graphs \subseteq graphs' /\ graphs' \subseteq graphs \cup {Rebound(g, m)}
      /\ graphs' # graphs => move.allowed
  BY <1>1
<1>5. UNCHANGED <<models, crossed, writes, receipts, req, fork, faults>>
  BY DEF ReviseGraph, forkVars
<1>6. Honest(ancestry')
  BY <1>1, <1>3
<1>7. crossed' \subseteq graphs'
  BY <1>4, <1>5 DEF IInv, TypeOK
<1> HIDE DEF move
<1> QED
  BY <1>3, <1>4, <1>5, <1>6, <1>7, GraphGrows

(* An imported revision is stored, and recorded if it crosses a line.      *)
LEMMA ReplayGraphKeeps == ASSUME IInv, ReplayGraph PROVE IInv'
<1>1. PICK g \in graphs, m \in models :
        /\ graphs' = graphs \cup {Rebound(g, m)}
        /\ crossed' = IF Forks(m) = Forks(Bound(g)) THEN crossed ELSE crossed \cup ({Rebound(g, m)} \ graphs)
  BY DEF ReplayGraph
<1>2. UNCHANGED <<models, ancestry, writes, receipts, req, fork, faults>>
  BY DEF ReplayGraph, memoryVars, forkVars
<1>3. /\ graphs \subseteq graphs' /\ graphs' \subseteq graphs \cup {Rebound(g, m)}
      /\ crossed \subseteq crossed' /\ crossed' \subseteq graphs'
      /\ graphs' # graphs => Forks(m) = Forks(Bound(g)) \/ Rebound(g, m) \in crossed'
  BY <1>1 DEF IInv, TypeOK
<1>4. Honest(ancestry')
  BY <1>2 DEF IInv
<1> QED
  BY <1>2, <1>3, <1>4, GraphGrows

(* A stage is asked for: nothing was written of it, or it was asked for    *)
(* just so before.                                                         *)
LEMMA StartForkKeeps == ASSUME IInv, NEW f \in Stages, StartFork(f) PROVE IInv'
<1>1. /\ \/ /\ fork[f].pc = "idle"
            /\ \E m \in models, keys \in SUBSET Keys : \E valued \in SUBSET keys :
                 req' = [req EXCEPT ![f] = [trunk |-> m, keys |-> keys, valued |-> valued]]
         \/ fork[f].pc = "failed" /\ req' = [req EXCEPT ![f].trunk = req[f].trunk]
      /\ ancestry' = BranchesOf(ancestry, req'[f].trunk).cache
      /\ fork' = [fork EXCEPT ![f] = [pc |-> "model", left |-> req'[f].keys,
                                      parent |-> ParentJoint(BranchesOf(ancestry, req'[f].trunk).forks)]]
      /\ UNCHANGED <<models, graphs, crossed, writes, receipts, faults>>
  BY Zenon DEF StartFork, TrunkOf, storeVars
<1>2. /\ req \in [Stages -> [trunk : Revisions, keys : SUBSET Keys, valued : SUBSET Keys]]
      /\ fork \in [Stages -> [pc : Pcs, left : SUBSET Keys, parent : (SUBSET Nat) \cup {Unknown}]]
      /\ models \subseteq Revisions
  BY DEF IInv, TypeOK
<1>3. /\ req' \in [Stages -> [trunk : Revisions, keys : SUBSET Keys, valued : SUBSET Keys]]
      /\ req'[f].trunk \in models
      /\ \A g \in Stages \ {f} : req'[g] = req[g]
      /\ fork[f].pc # "idle" => req'[f] = req[f]
  <2>1. CASE fork[f].pc = "idle"
    <3>1. PICK m \in models, keys \in SUBSET Keys : \E valued \in SUBSET keys :
            req' = [req EXCEPT ![f] = [trunk |-> m, keys |-> keys, valued |-> valued]]
      BY <1>1, <2>1
    <3>2. PICK valued \in SUBSET keys : req' = [req EXCEPT ![f] = [trunk |-> m, keys |-> keys, valued |-> valued]]
      BY <3>1
    <3> QED
      BY <1>2, <2>1, <3>2
  <2>2. CASE fork[f].pc = "failed"
    <3>1. req' = [req EXCEPT ![f].trunk = req[f].trunk]
      BY <1>1, <2>2
    <3>2. [req[f] EXCEPT !.trunk = req[f].trunk] = req[f]
      BY <1>2
    <3>3. req' = req
      BY <1>2, <3>1, <3>2
    <3>4. req[f].trunk \in models
      BY <2>2 DEF IInv, ForksFit
    <3> QED
      BY <1>2, <3>3, <3>4
  <2> QED
    BY <1>1, <2>1, <2>2
<1> DEFINE n == req'[f].trunk
<1>4. n \in Revisions /\ n \in models
  BY <1>2, <1>3
<1>5. BranchesOf(ancestry, n).forks = Forks(n) /\ Honest(BranchesOf(ancestry, n).cache)
  BY <1>4, BranchesTrue DEF IInv
<1>6. ParentJoint(Forks(n)) \in (SUBSET Nat) \cup {Unknown}
  BY <1>4, TrunkJointIs DEF IInv
<1>7. /\ fork'[f] = [pc |-> "model", left |-> req'[f].keys, parent |-> ParentJoint(Forks(n))]
      /\ \A g \in Stages \ {f} : fork'[g] = fork[g]
  BY <1>1, <1>2, <1>5
<1>8. TypeOK'
  <2>1. [pc |-> "model", left |-> req'[f].keys, parent |-> ParentJoint(Forks(n))]
          \in [pc : Pcs, left : SUBSET Keys, parent : (SUBSET Nat) \cup {Unknown}]
    BY <1>3, <1>6 DEF Pcs
  <2>2. fork' \in [Stages -> [pc : Pcs, left : SUBSET Keys, parent : (SUBSET Nat) \cup {Unknown}]]
    BY <1>1, <1>2, <1>5, <2>1
  <2> QED
    BY <1>1, <1>3, <2>2 DEF IInv, TypeOK
<1>9. Honest(ancestry)'
  BY <1>1, <1>5 DEF Honest
<1>10. StoreClosed'
  BY <1>1 DEF IInv, StoreClosed
<1>11. StaysOnLine' /\ JointAlongBranches'
  BY <1>1 DEF IInv, StaysOnLine, RevisionOf, JointAlongBranches
<1>12. \A g \in Stages : g # f \/ fork[f].pc # "idle" =>
         /\ req'[g] = req[g] /\ TrunkJoint(g)' = TrunkJoint(g)
         /\ \A k : Branch(g, k)' = Branch(g, k)
  BY <1>3, SameBranch
<1>13. ForksFit'
  <2>1. ASSUME NEW g \in Stages \ {f}
        PROVE  /\ fork'[g].pc = "idle" => req'[g].keys = {}
               /\ fork'[g].pc # "idle" => req'[g].trunk \in models
               /\ fork'[g].pc \in UnderWay => fork'[g].parent = TrunkJoint(g)' /\ fork'[g].left \subseteq req'[g].keys
               /\ fork'[g].pc \in Keys => fork'[g].pc \in fork'[g].left /\ Branch(g, fork[g].pc)' \in models
               /\ fork'[g].pc \in UnderWay \cup {"done"} =>
                    \A k \in req'[g].keys \ fork'[g].left : \E h \in graphs : h.id = <<g, k>>
               /\ fork'[g].pc = "done" => fork'[g].left = {}
    <3>1. fork'[g] = fork[g] /\ req'[g] = req[g] /\ TrunkJoint(g)' = TrunkJoint(g)
      BY <1>7, <1>12
    <3>2. Branch(g, fork[g].pc)' = Branch(g, fork[g].pc)
      BY <1>12, <3>1
    <3> QED
      BY <3>1, <3>2 DEF IInv, ForksFit
  <2>2. fork'[f].parent = TrunkJoint(f)'
    BY <1>7 DEF TrunkJoint
  <2>3. fork'[f].pc = "model" /\ "model" \notin Keys /\ fork'[f].left = req'[f].keys /\ req'[f].trunk \in models
    BY <1>3, <1>7, FuturesAssumption
  <2>4. UnderWay' = UnderWay
    BY DEF UnderWay
  <2> QED
    BY <1>1, <2>1, <2>2, <2>3 DEF ForksFit, UnderWay
<1>14. BranchesFit'
  <2>1. fork[f].pc = "idle" => req[f].keys = {}
    BY DEF IInv, ForksFit
  <2>2. ASSUME NEW g \in Stages, NEW k \in req[g].keys PROVE req'[g] = req[g] /\ Branch(g, k)' = Branch(g, k)
    BY <1>12, <2>1, <2>2
  <2>3. ASSUME NEW m \in models, IsFork(m) PROVE Last(m).stage \in Stages
    <3>1. Last(m) \in Change
      BY <1>2, <2>3, Regrown DEF IsFork, Revisions
    <3> QED
      BY <2>3, <3>1 DEF IsFork, Change
  <2> QED
    BY <1>1, <2>2, <2>3 DEF IInv, BranchesFit
<1> QED
  BY <1>8, <1>9, <1>10, <1>11, <1>13, <1>14 DEF IInv

(* A stage's entry changes, and what it was asked for does not.            *)
LEMMA EntryMoves ==
  ASSUME ForksFit, TypeOK, NEW f \in Stages, NEW new,
         fork' = [fork EXCEPT ![f] = new],
         new \in [pc : Pcs, left : SUBSET Keys, parent : (SUBSET Nat) \cup {Unknown}],
         req' = req, models \subseteq models', graphs \subseteq graphs', fork[f].pc # "idle",
         new.pc # "idle",
         new.pc \in UnderWay => new.parent = TrunkJoint(f) /\ new.left \subseteq req[f].keys,
         new.pc \in Keys => new.pc \in new.left /\ Branch(f, new.pc) \in models',
         new.pc \in UnderWay \cup {"done"} =>
           \A k \in req[f].keys \ new.left : \E g \in graphs' : g.id = <<f, k>>,
         new.pc = "done" => new.left = {}
  PROVE  /\ ForksFit'
         /\ fork' \in [Stages -> [pc : Pcs, left : SUBSET Keys, parent : (SUBSET Nat) \cup {Unknown}]]
<1>1. fork \in [Stages -> [pc : Pcs, left : SUBSET Keys, parent : (SUBSET Nat) \cup {Unknown}]]
  BY DEF TypeOK
<1>2. fork'[f] = new /\ \A g \in Stages \ {f} : fork'[g] = fork[g]
  BY <1>1
<1>3. \A g \in Stages : TrunkJoint(g)' = TrunkJoint(g) /\ \A k : Branch(g, k)' = Branch(g, k)
  BY SameBranch
<1>4. ASSUME NEW g \in Stages
      PROVE  /\ fork'[g].pc = "idle" => req[g].keys = {}
             /\ fork'[g].pc # "idle" => req[g].trunk \in models'
             /\ fork'[g].pc \in UnderWay => fork'[g].parent = TrunkJoint(g) /\ fork'[g].left \subseteq req[g].keys
             /\ fork'[g].pc \in Keys => fork'[g].pc \in fork'[g].left /\ Branch(g, fork'[g].pc) \in models'
             /\ fork'[g].pc \in UnderWay \cup {"done"} =>
                  \A k \in req[g].keys \ fork'[g].left : \E h \in graphs' : h.id = <<g, k>>
             /\ fork'[g].pc = "done" => fork'[g].left = {}
  <2>1. CASE g = f
    <3>1. req[f].trunk \in models'
      BY DEF ForksFit
    <3> QED
      BY <1>2, <2>1, <3>1
  <2>2. CASE g # f
    <3>1. fork'[g] = fork[g]
      BY <1>2, <2>2
    <3> QED
      BY <3>1 DEF ForksFit
  <2> QED
    BY <2>1, <2>2
<1>5. ForksFit' <=>
        \A g \in Stages :
          /\ fork'[g].pc = "idle" => req[g].keys = {}
          /\ fork'[g].pc # "idle" => req[g].trunk \in models'
          /\ fork'[g].pc \in UnderWay => fork'[g].parent = TrunkJoint(g) /\ fork'[g].left \subseteq req[g].keys
          /\ fork'[g].pc \in Keys => fork'[g].pc \in fork'[g].left /\ Branch(g, fork'[g].pc) \in models'
          /\ fork'[g].pc \in UnderWay \cup {"done"} =>
               \A k \in req[g].keys \ fork'[g].left : \E h \in graphs' : h.id = <<g, k>>
          /\ fork'[g].pc = "done" => fork'[g].left = {}
  <2>1. \A g \in Stages : Branch(g, fork[g].pc)' = Branch(g, fork'[g].pc)
    BY DEF Branch, TrunkJoint
  <2> QED
    BY <1>3, <2>1 DEF ForksFit, UnderWay
<1> QED
  BY <1>1, <1>4, <1>5

(* The branch a stage writes is stored: what is stored fits.               *)
LEMMA BranchStored ==
  ASSUME IInv, NEW f \in Stages, NEW k \in Keys, k \in req[f].keys, req[f].trunk \in models,
         models' = models \cup {Branch(f, k)}
  PROVE  /\ models' \subseteq Revisions /\ <<>> \in models'
         /\ \A m \in models' : Prefixes(m) \subseteq models'
         /\ \A m \in models' : IsFork(m) => /\ Last(m).branch \in req[Last(m).stage].keys
                                            /\ m = Branch(Last(m).stage, Last(m).branch)
         /\ JointAlongBranches'
<1> DEFINE m == Branch(f, k)
           n == req[f].trunk
           e == Last(m)
<1>1. /\ IsFork(m) /\ e.stage = f /\ e.branch = k /\ m = Append(n, e) /\ e \in Change /\ e.joint = Joint(m)
  BY BranchIs DEF IInv
<1> HIDE DEF e, n, m
<1>2. n \in models /\ models' = models \cup {Append(n, e)}
  BY <1>1 DEF m, n
<1>3. /\ e.branch \in req[e.stage].keys /\ Append(n, e) = Branch(e.stage, e.branch)
      /\ e.joint = Joint(Append(n, e))
  BY <1>1 DEF m
<1> QED
  BY <1>1, <1>2, <1>3, ModelsGrow

(* A branch's revision is written, or was.                                 *)
LEMMA ForkModelKeeps == ASSUME IInv, NEW f \in Stages, ForkModel(f) PROVE IInv'
<1>1. PICK k \in fork[f].left :
        /\ fork' = [fork EXCEPT ![f].pc = k]
        /\ IF <<f, k, "model">> \in receipts THEN UNCHANGED <<models, memoryVars, receipts>>
           ELSE StoreModel(ForkRevision(f, k)) /\ receipts' = receipts \cup {<<f, k, "model">>}
  BY DEF ForkModel
<1>2. fork[f].pc = "model" /\ UNCHANGED <<graphs, crossed, req, faults>>
  BY DEF ForkModel
<1>3. fork \in [Stages -> [pc : Pcs, left : SUBSET Keys, parent : (SUBSET Nat) \cup {Unknown}]]
  BY DEF IInv, TypeOK
<1>4. /\ k \in Keys /\ k \in req[f].keys /\ req[f].trunk \in models /\ fork[f].parent = TrunkJoint(f)
      /\ fork[f].left \subseteq req[f].keys
  BY <1>2, <1>3 DEF IInv, ForksFit, UnderWay
<1>5. ForkRevision(f, k) = Branch(f, k)
  BY <1>4, WritesBranch
<1>6. Branch(f, k) \in Revisions
  BY <1>4, BranchIs DEF IInv
<1>7. /\ models' = models \cup {Branch(f, k)}
      /\ writes' \in Seq(Revisions) /\ Honest(ancestry)'
      /\ receipts' \subseteq receipts \cup {<<f, k, "model">>}
  <2>1. CASE <<f, k, "model">> \in receipts
    <3>1. Branch(f, k) \in models
      BY <1>4, <2>1 DEF IInv, BranchesFit
    <3> QED
      BY <1>1, <2>1, <3>1 DEF memoryVars, IInv, TypeOK, Honest
  <2>2. CASE <<f, k, "model">> \notin receipts
    <3>1. /\ models' = models \cup {Branch(f, k)} /\ writes' = NoteWrite(Branch(f, k))
          /\ ancestry' = RememberRevision(ancestry, Branch(f, k))
          /\ receipts' = receipts \cup {<<f, k, "model">>}
      BY <1>1, <1>5, <2>2 DEF StoreModel
    <3>2. NoteWrite(Branch(f, k)) \in Seq(Revisions) /\ Honest(RememberRevision(ancestry, Branch(f, k)))
      BY <1>6, WriteNoted, RevisionRemembered DEF IInv, TypeOK
    <3> QED
      BY <3>1, <3>2 DEF Honest
  <2> QED
    BY <2>1, <2>2
<1>8. /\ models' \subseteq Revisions /\ <<>> \in models'
      /\ \A m \in models' : Prefixes(m) \subseteq models'
      /\ \A m \in models' : IsFork(m) => /\ Last(m).branch \in req[Last(m).stage].keys
                                         /\ m = Branch(Last(m).stage, Last(m).branch)
      /\ JointAlongBranches'
  BY <1>4, <1>7, BranchStored
<1>9. /\ ForksFit'
      /\ fork' \in [Stages -> [pc : Pcs, left : SUBSET Keys, parent : (SUBSET Nat) \cup {Unknown}]]
  <2> DEFINE new == [fork[f] EXCEPT !.pc = k]
  <2>1. /\ new \in [pc : Pcs, left : SUBSET Keys, parent : (SUBSET Nat) \cup {Unknown}]
        /\ new.pc = k /\ new.left = fork[f].left /\ new.parent = fork[f].parent
    BY <1>3, <1>4 DEF Pcs
  <2>2. fork' = [fork EXCEPT ![f] = new]
    BY <1>1, <1>3
  <2>3. \A l \in req[f].keys \ fork[f].left : \E g \in graphs' : g.id = <<f, l>>
    BY <1>2 DEF IInv, ForksFit, UnderWay
  <2>4. k # "idle" /\ k # "done"
    BY <1>4, FuturesAssumption
  <2> HIDE DEF new
  <2> QED
    BY <1>1, <1>2, <1>4, <1>7, <2>1, <2>2, <2>3, <2>4, EntryMoves DEF IInv
<1>10. TypeOK'
  BY <1>2, <1>4, <1>7, <1>8, <1>9 DEF IInv, TypeOK
<1>11. StoreClosed'
  BY <1>2, <1>7, <1>8 DEF IInv, StoreClosed
<1>12. BranchesFit'
  <2>1. \A g, l : Branch(g, l)' = Branch(g, l)
    BY <1>2, SameBranch
  <2>2. ASSUME NEW g \in Stages, NEW l \in Keys, <<g, l, "model">> \in receipts' PROVE l \in req[g].keys /\ Branch(g, l) \in models'
    <3>1. CASE <<g, l, "model">> \in receipts
      BY <1>7, <3>1 DEF IInv, BranchesFit
    <3>2. CASE g = f /\ l = k
      BY <1>4, <1>7, <3>2
    <3> QED
      BY <1>7, <2>2, <3>1, <3>2
  <2> QED
    BY <1>2, <1>7, <1>8, <2>1, <2>2 DEF IInv, BranchesFit
<1>13. StaysOnLine'
  BY <1>2 DEF IInv, StaysOnLine, RevisionOf
<1> QED
  BY <1>7, <1>8, <1>9, <1>10, <1>11, <1>12, <1>13 DEF IInv

(* The first graph of a branch is there, bound to its revision.            *)
LEMMA GraphStored ==
  ASSUME IInv, NEW f \in Stages, NEW k \in Keys, k \in req[f].keys, Branch(f, k) \in models,
         ForkRevision(f, k) = Branch(f, k),
         graphs' = graphs \cup {BranchGraph(f, k)}, crossed' = crossed, models' = models, req' = req
  PROVE  /\ graphs' \subseteq Graphs /\ BranchGraph(f, k).id = <<f, k>>
         /\ \A g \in graphs' : \A i \in DOMAIN g.binds : g.binds[i] \in models
         /\ StaysOnLine'
         /\ \A g \in graphs', e \in Stages, l \in Keys : g.id = <<e, l>> =>
              l \in req[e].keys /\ Branch(e, l) \in models /\ g.binds[1] = Branch(e, l)
<1> DEFINE h == BranchGraph(f, k)
           b == Branch(f, k)
<1>1. h.id = <<f, k>> /\ h.binds = <<b>> /\ h = [id |-> <<f, k>>, binds |-> <<b>>]
  BY DEF BranchGraph
<1>2. b \in Revisions
  BY DEF IInv, TypeOK
<1> HIDE DEF h, b
<1>3. <<b>> \in Seq(Revisions) /\ <<b>> # <<>> /\ DOMAIN <<b>> = {1} /\ <<b>>[1] = b
  BY <1>2
<1>4. h \in Graphs
  BY <1>1, <1>3 DEF Graphs
<1>5. graphs' = graphs \cup {h}
  BY DEF h
<1>6. StaysOnLine'
  <2>1. \A i \in 2..Len(h.binds) : FALSE
    BY <1>1, <1>3
  <2> QED
    BY <1>5, <2>1 DEF IInv, StaysOnLine, RevisionOf
<1>7. graphs' \subseteq Graphs
  BY <1>4, <1>5 DEF IInv, TypeOK
<1>8. \A g \in graphs' : \A i \in DOMAIN g.binds : g.binds[i] \in models
  <2>1. \A i \in DOMAIN h.binds : h.binds[i] \in models
    BY <1>1, <1>3 DEF b
  <2> QED
    BY <1>5, <2>1 DEF IInv, StoreClosed
<1>9. ASSUME NEW g \in graphs', NEW e \in Stages, NEW l \in Keys, g.id = <<e, l>>
      PROVE  l \in req[e].keys /\ Branch(e, l) \in models /\ g.binds[1] = Branch(e, l)
  <2>1. CASE g \in graphs
    BY <1>9, <2>1 DEF IInv, BranchesFit
  <2>2. CASE g = h
    <3>1. e = f /\ l = k
      BY <1>1, <1>9, <2>2
    <3>2. g.binds[1] = b
      BY <1>1, <1>3, <2>2
    <3> QED
      BY <3>1, <3>2 DEF b
  <2> QED
    BY <1>5, <2>1, <2>2
<1> QED
  BY <1>1, <1>6, <1>7, <1>8, <1>9 DEF h

(* The first graph of a branch is written.                                 *)
LEMMA ForkGraphKeeps == ASSUME IInv, NEW f \in Stages, ForkGraph(f) PROVE IInv'
<1> DEFINE k == fork[f].pc
           left == fork[f].left \ {k}
           pc == IF left = {} THEN "done" ELSE "model"
<1>1. /\ k \in Keys /\ graphs' = graphs \cup {BranchGraph(f, k)}
      /\ receipts' = receipts \cup {<<f, k, "graph">>}
      /\ fork' = [fork EXCEPT ![f].left = left, ![f].pc = pc]
      /\ UNCHANGED <<models, crossed, writes, ancestry, req, faults>>
  BY DEF ForkGraph, memoryVars
<1>2. fork \in [Stages -> [pc : Pcs, left : SUBSET Keys, parent : (SUBSET Nat) \cup {Unknown}]]
  BY DEF IInv, TypeOK
<1>3. /\ k \in fork[f].left /\ k \in req[f].keys /\ Branch(f, k) \in models /\ fork[f].parent = TrunkJoint(f)
      /\ fork[f].left \subseteq req[f].keys
  BY <1>1 DEF IInv, ForksFit, UnderWay
<1>4. ForkRevision(f, k) = Branch(f, k)
  BY <1>1, <1>3, WritesBranch
<1>5. /\ graphs' \subseteq Graphs /\ BranchGraph(f, k).id = <<f, k>>
      /\ \A g \in graphs' : \A i \in DOMAIN g.binds : g.binds[i] \in models
      /\ StaysOnLine'
      /\ \A g \in graphs', e \in Stages, l \in Keys : g.id = <<e, l>> =>
           l \in req[e].keys /\ Branch(e, l) \in models /\ g.binds[1] = Branch(e, l)
  BY <1>1, <1>3, <1>4, GraphStored
<1>6. /\ ForksFit'
      /\ fork' \in [Stages -> [pc : Pcs, left : SUBSET Keys, parent : (SUBSET Nat) \cup {Unknown}]]
  <2> DEFINE new == [fork[f] EXCEPT !.left = left, !.pc = pc]
  <2>1. pc \in {"done", "model"} /\ pc \in Pcs /\ left \in SUBSET Keys
    BY <1>2 DEF Pcs
  <2>2. /\ new \in [pc : Pcs, left : SUBSET Keys, parent : (SUBSET Nat) \cup {Unknown}]
        /\ new.pc = pc /\ new.left = left /\ new.parent = fork[f].parent
    <3> HIDE DEF pc, left
    <3> QED
      BY <1>2, <2>1
  <2>3. fork' = [fork EXCEPT ![f] = new]
    BY <1>1, <1>2
  <2>4. \A l \in req[f].keys \ left : \E g \in graphs' : g.id = <<f, l>>
    <3>1. BranchGraph(f, k) \in graphs'
      BY <1>1
    <3>2. \A l \in req[f].keys \ fork[f].left : \E g \in graphs : g.id = <<f, l>>
      BY <1>1 DEF IInv, ForksFit, UnderWay
    <3> QED
      BY <1>1, <1>5, <3>1, <3>2
  <2>5. pc = "done" => left = {}
    OBVIOUS
  <2>6. pc \notin Keys /\ pc # "idle" /\ left \subseteq req[f].keys /\ k # "idle"
    BY <1>1, <1>3, <2>1, FuturesAssumption
  <2> HIDE DEF new, pc, left, k
  <2>7. fork[f].pc # "idle" /\ req' = req /\ models \subseteq models' /\ graphs \subseteq graphs'
    BY <1>1, <2>6 DEF k
  <2>8. new.pc \in UnderWay => new.parent = TrunkJoint(f) /\ new.left \subseteq req[f].keys
    BY <1>3, <2>2, <2>6
  <2>9. new.pc \in Keys => new.pc \in new.left /\ Branch(f, new.pc) \in models'
    BY <2>2, <2>6
  <2>10. ForksFit /\ TypeOK
    BY DEF IInv
  <2> QED
    BY <2>2, <2>3, <2>4, <2>5, <2>6, <2>7, <2>8, <2>9, <2>10, EntryMoves
<1>7. TypeOK'
  <2>1. receipts' \subseteq Stages \X Keys \X {"model", "graph"}
    BY <1>1 DEF IInv, TypeOK
  <2> QED
    BY <1>1, <1>5, <1>6, <2>1 DEF IInv, TypeOK
<1>8. StoreClosed'
  BY <1>1, <1>5 DEF IInv, StoreClosed
<1>9. BranchesFit'
  <2>1. \A g, l : Branch(g, l)' = Branch(g, l)
    BY <1>1, SameBranch
  <2>2. ASSUME NEW g \in Stages, NEW l \in Keys, <<g, l, "model">> \in receipts' PROVE l \in req[g].keys /\ Branch(g, l) \in models
    <3>1. <<g, l, "model">> # <<f, k, "graph">>
      OBVIOUS
    <3> QED
      BY <1>1, <2>2, <3>1 DEF IInv, BranchesFit
  <2>3. \A m \in models : IsFork(m) =>
          Last(m).branch \in req[Last(m).stage].keys /\ m = Branch(Last(m).stage, Last(m).branch)
    BY DEF IInv, BranchesFit
  <2> QED
    BY <1>1, <1>5, <2>1, <2>2, <2>3 DEF BranchesFit
<1>10. Honest(ancestry)' /\ JointAlongBranches'
  BY <1>1 DEF IInv, Honest, JointAlongBranches
<1> QED
  BY <1>5, <1>6, <1>7, <1>8, <1>9, <1>10 DEF IInv

(* A fork that failed has nothing under way.                               *)
LEMMA ForkFailsKeeps == ASSUME IInv, NEW f \in Stages, ForkFails(f) PROVE IInv'
<1> DEFINE new == [Idle EXCEPT !.pc = "failed"]
<1>1. /\ fork[f].pc \in UnderWay /\ faults' = faults + 1 /\ fork' = [fork EXCEPT ![f] = new]
      /\ UNCHANGED <<models, graphs, crossed, writes, ancestry, receipts, req>>
  BY DEF ForkFails, Fault, UnderWay, storeVars, memoryVars
<1>2. /\ new = [pc |-> "failed", left |-> {}, parent |-> Unknown] /\ new.pc = "failed"
      /\ new \in [pc : Pcs, left : SUBSET Keys, parent : (SUBSET Nat) \cup {Unknown}]
  BY DEF Idle, Pcs
<1>3. "failed" \notin Keys /\ "failed" \notin UnderWay /\ fork[f].pc # "idle"
  BY <1>1, FuturesAssumption DEF UnderWay
<1> HIDE DEF new
<1>4. /\ ForksFit'
      /\ fork' \in [Stages -> [pc : Pcs, left : SUBSET Keys, parent : (SUBSET Nat) \cup {Unknown}]]
  BY <1>1, <1>2, <1>3, EntryMoves DEF IInv
<1>5. TypeOK'
  BY <1>1, <1>4 DEF IInv, TypeOK
<1>6. StoreClosed' /\ StaysOnLine' /\ JointAlongBranches' /\ Honest(ancestry)'
  BY <1>1 DEF IInv, StoreClosed, StaysOnLine, JointAlongBranches, Honest
<1>7. BranchesFit'
  <2>1. \A g, l : Branch(g, l)' = Branch(g, l)
    BY <1>1, SameBranch
  <2> QED
    BY <1>1, <2>1 DEF IInv, BranchesFit
<1> QED
  BY <1>4, <1>5, <1>6, <1>7 DEF IInv

(* The server stops: whatever was carried out of a call under way is what  *)
(* the call would have stored, and nothing else was lost but memory.       *)
LEMMA RestartKeeps == ASSUME IInv, Restart PROVE IInv'
<1>1. /\ faults' = faults + 1 /\ writes' = <<>> /\ ancestry' = <<>> /\ receipts' = {} /\ req' = req
      /\ fork' = [f \in Stages |-> IF fork[f].pc \in {"idle", "done"} THEN fork[f] ELSE [Idle EXCEPT !.pc = "failed"]]
      /\ crossed' = crossed
      /\ \/ models' = models /\ graphs' = graphs
         \/ \E f \in Stages : /\ fork[f].pc \in {"model"}
                              /\ \E k \in fork[f].left : models' = models \cup {ForkRevision(f, k)} /\ graphs' = graphs
         \/ \E f \in Stages : /\ fork[f].pc \in Keys
                              /\ graphs' = graphs \cup {BranchGraph(f, fork[f].pc)} /\ models' = models
  BY DEF Restart, Fault, storeVars
<1>2. fork \in [Stages -> [pc : Pcs, left : SUBSET Keys, parent : (SUBSET Nat) \cup {Unknown}]]
  BY DEF IInv, TypeOK
<1>3. \A g, l : Branch(g, l)' = Branch(g, l)
  BY <1>1, SameBranch
<1>4. /\ models \subseteq models' /\ models' \subseteq Revisions /\ <<>> \in models'
      /\ \A p \in models' : Prefixes(p) \subseteq models'
      /\ \A p \in models' : IsFork(p) => /\ Last(p).branch \in req[Last(p).stage].keys
                                         /\ p = Branch(Last(p).stage, Last(p).branch)
      /\ JointAlongBranches'
  <2>1. CASE models' = models
    BY <2>1 DEF IInv, TypeOK, StoreClosed, BranchesFit, JointAlongBranches
  <2>2. CASE \E f \in Stages : /\ fork[f].pc \in {"model"}
                               /\ \E k \in fork[f].left : models' = models \cup {ForkRevision(f, k)} /\ graphs' = graphs
    <3>1. PICK f \in Stages : /\ fork[f].pc \in {"model"}
                              /\ \E k \in fork[f].left : models' = models \cup {ForkRevision(f, k)}
      BY <2>2
    <3>2. PICK k \in fork[f].left : models' = models \cup {ForkRevision(f, k)}
      BY <3>1
    <3>3. k \in Keys /\ k \in req[f].keys /\ req[f].trunk \in models /\ fork[f].parent = TrunkJoint(f)
      BY <1>2, <3>1, <3>2, FuturesAssumption DEF IInv, ForksFit, UnderWay
    <3>4. models' = models \cup {Branch(f, k)}
      BY <3>2, <3>3, WritesBranch
    <3> QED
      BY <3>3, <3>4, BranchStored
  <2> QED
    BY <1>1, <2>1, <2>2
<1>5. /\ graphs \subseteq graphs' /\ graphs' \subseteq Graphs
      /\ \A g \in graphs' : \A i \in DOMAIN g.binds : g.binds[i] \in models
      /\ StaysOnLine'
      /\ \A g \in graphs', e \in Stages, l \in Keys : g.id = <<e, l>> =>
           l \in req[e].keys /\ Branch(e, l) \in models /\ g.binds[1] = Branch(e, l)
  <2>1. CASE graphs' = graphs
    BY <1>1, <2>1 DEF IInv, TypeOK, StoreClosed, BranchesFit, StaysOnLine, RevisionOf
  <2>2. CASE \E f \in Stages : /\ fork[f].pc \in Keys
                               /\ graphs' = graphs \cup {BranchGraph(f, fork[f].pc)} /\ models' = models
    <3>1. PICK f \in Stages : /\ fork[f].pc \in Keys
                              /\ graphs' = graphs \cup {BranchGraph(f, fork[f].pc)} /\ models' = models
      BY <2>2
    <3> DEFINE k == fork[f].pc
    <3>2. k \in Keys /\ k \in req[f].keys /\ Branch(f, k) \in models /\ fork[f].parent = TrunkJoint(f)
      BY <3>1 DEF IInv, ForksFit, UnderWay
    <3>3. ForkRevision(f, k) = Branch(f, k)
      BY <3>2, WritesBranch
    <3>4. graphs' = graphs \cup {BranchGraph(f, k)} /\ crossed' = crossed /\ models' = models /\ req' = req
      BY <1>1, <3>1
    <3> HIDE DEF k
    <3> QED
      BY <3>2, <3>3, <3>4, GraphStored
  <2> QED
    BY <1>1, <2>1, <2>2
<1>6. ASSUME NEW f \in Stages
      PROVE  /\ fork'[f] \in [pc : Pcs, left : SUBSET Keys, parent : (SUBSET Nat) \cup {Unknown}]
             /\ fork'[f] = fork[f] \/ (fork'[f].pc = "failed" /\ fork[f].pc # "idle")
             /\ fork'[f].pc \notin UnderWay
  <2>1. CASE fork[f].pc \in {"idle", "done"}
    BY <1>1, <1>2, <2>1, FuturesAssumption DEF UnderWay
  <2>2. CASE fork[f].pc \notin {"idle", "done"}
    <3>1. fork'[f] = [pc |-> "failed", left |-> {}, parent |-> Unknown]
      BY <1>1, <2>2 DEF Idle
    <3>2. "failed" \in Pcs /\ "failed" \notin UnderWay
      BY FuturesAssumption DEF Pcs, UnderWay
    <3> QED
      BY <2>2, <3>1, <3>2
  <2> QED
    BY <2>1, <2>2
<1>7. ForksFit'
  <2>1. ASSUME NEW f \in Stages
        PROVE  /\ fork'[f].pc = "idle" => req[f].keys = {}
               /\ fork'[f].pc # "idle" => req[f].trunk \in models'
               /\ fork'[f].pc \notin UnderWay
               /\ fork'[f].pc \in {"done"} =>
                    \A k \in req[f].keys \ fork'[f].left : \E g \in graphs' : g.id = <<f, k>>
               /\ fork'[f].pc = "done" => fork'[f].left = {}
    <3>1. /\ fork[f].pc = "idle" => req[f].keys = {}
          /\ fork[f].pc # "idle" => req[f].trunk \in models'
          /\ fork[f].pc \in {"done"} =>
               \A k \in req[f].keys \ fork[f].left : \E g \in graphs' : g.id = <<f, k>>
          /\ fork[f].pc = "done" => fork[f].left = {}
      <4>1. models \subseteq models' /\ graphs \subseteq graphs' /\ ForksFit
        BY <1>4, <1>5 DEF IInv
      <4>2. fork[f].pc \in {"done"} =>
              \A k \in req[f].keys \ fork[f].left : \E g \in graphs : g.id = <<f, k>>
        BY <4>1 DEF ForksFit
      <4> QED
        BY <4>1, <4>2 DEF ForksFit
    <3>2. CASE fork'[f] = fork[f]
      BY <1>6, <3>1, <3>2
    <3>3. CASE fork'[f].pc = "failed" /\ fork[f].pc # "idle"
      BY <1>6, <3>1, <3>3
    <3> QED
      BY <1>6, <3>2, <3>3
  <2> QED
    BY <1>1, <2>1 DEF ForksFit, UnderWay
<1>8. TypeOK'
  <2>1. fork' \in [Stages -> [pc : Pcs, left : SUBSET Keys, parent : (SUBSET Nat) \cup {Unknown}]]
    BY <1>1, <1>6
  <2>2. writes' \in Seq(Revisions)
    BY <1>1
  <2>3. receipts' \subseteq Stages \X Keys \X {"model", "graph"} /\ faults' \in Nat
    BY <1>1 DEF IInv, TypeOK
  <2>4. req' \in [Stages -> [trunk : Revisions, keys : SUBSET Keys, valued : SUBSET Keys]]
    BY <1>1 DEF IInv, TypeOK
  <2> QED
    BY <1>1, <1>4, <1>5, <2>1, <2>2, <2>3, <2>4 DEF IInv, TypeOK
<1>9. StoreClosed'
  BY <1>4, <1>5 DEF StoreClosed
<1>10. BranchesFit'
  BY <1>1, <1>3, <1>4, <1>5 DEF BranchesFit
<1>11. Honest(ancestry)'
  <2>1. Honest(<<>>)
    BY DEF Honest
  <2> QED
    BY <1>1, <2>1 DEF Honest
<1> QED
  BY <1>4, <1>5, <1>7, <1>8, <1>9, <1>10, <1>11 DEF IInv

(* Nothing is written but the first model and its graph.                   *)
LEMMA InitHolds == ASSUME Init PROVE IInv
<1>1. /\ models = {<<>>} /\ graphs = {[id |-> <<>>, binds |-> <<<<>>>>]} /\ crossed = {}
      /\ writes = <<>> /\ ancestry = <<>> /\ receipts = {} /\ faults = 0
      /\ req = [f \in Stages |-> [trunk |-> <<>>, keys |-> {}, valued |-> {}]]
      /\ fork = [f \in Stages |-> [pc |-> "idle", left |-> {}, parent |-> Unknown]]
  BY DEF Init, Idle
<1> DEFINE g0 == [id |-> <<>>, binds |-> <<<<>>>>]
<1>2. <<>> \in Revisions /\ ~IsFork(<<>>) /\ Prefixes(<<>>) = {<<>>}
  <2>1. <<>> \in Revisions
    BY DEF Revisions
  <2>2. Prefixes(<<>>) = {SubSeq(<<>>, 1, i) : i \in {0}} /\ SubSeq(<<>>, 1, 0) = <<>>
    <3>1. 0..Len(<<>>) = {0}
      OBVIOUS
    <3>2. SubSeq(<<>>, 1, 0) = <<>>
      OBVIOUS
    <3> QED
      BY <3>1, <3>2, Zenon DEF Prefixes
  <2> QED
    BY <2>1, <2>2 DEF IsFork
<1>3. g0 \in Graphs /\ g0.id = <<>> /\ g0.binds = <<<<>>>> /\ DOMAIN g0.binds = {1} /\ g0.binds[1] = <<>>
  <2>1. <<<<>>>> \in Seq(Revisions) /\ <<<<>>>> # <<>>
    BY <1>2
  <2> QED
    BY <2>1 DEF Graphs
<1> HIDE DEF g0
<1>4. graphs = {g0}
  BY <1>1 DEF g0
<1>5. TypeOK
  <2>1. [pc |-> "idle", left |-> {}, parent |-> Unknown] \in [pc : Pcs, left : SUBSET Keys, parent : (SUBSET Nat) \cup {Unknown}]
    BY DEF Pcs
  <2>2. [trunk |-> <<>>, keys |-> {}, valued |-> {}] \in [trunk : Revisions, keys : SUBSET Keys, valued : SUBSET Keys]
    BY <1>2
  <2> QED
    BY <1>1, <1>2, <1>3, <1>4, <2>1, <2>2 DEF TypeOK
<1>6. StoreClosed
  BY <1>1, <1>2, <1>3, <1>4 DEF StoreClosed
<1>7. ForksFit
  BY <1>1, FuturesAssumption DEF ForksFit, UnderWay
<1>8. BranchesFit
  BY <1>1, <1>2, <1>3, <1>4 DEF BranchesFit
<1>9. StaysOnLine
  BY <1>1, <1>3, <1>4 DEF StaysOnLine
<1>10. JointAlongBranches
  BY <1>1, <1>2 DEF JointAlongBranches
<1>11. Honest(ancestry)
  BY <1>1 DEF Honest
<1> QED
  BY <1>5, <1>6, <1>7, <1>8, <1>9, <1>10, <1>11 DEF IInv

-----------------------------------------------------------------------------
(* What holds of every behaviour.                                          *)

LEMMA StepKeeps == IInv /\ [Next]_futureVars => IInv'
<1> SUFFICES ASSUME IInv, [Next]_futureVars PROVE IInv'
  OBVIOUS
<1>1. CASE Revise
  BY <1>1, ReviseKeeps
<1>2. CASE ReviseGraph \/ ReplayGraph
  BY <1>2, ReviseGraphKeeps, ReplayGraphKeeps
<1>3. CASE \E f \in Stages : StartFork(f) \/ ForkModel(f) \/ ForkGraph(f) \/ ForkFails(f)
  BY <1>3, StartForkKeeps, ForkModelKeeps, ForkGraphKeeps, ForkFailsKeeps
<1>4. CASE Restart
  BY <1>4, RestartKeeps
<1>5. CASE UNCHANGED futureVars
  <2>1. /\ UNCHANGED <<models, graphs, crossed, writes, receipts, req, fork>>
        /\ ancestry' = ancestry /\ faults' = faults
    BY <1>5 DEF futureVars, storeVars, memoryVars, forkVars
  <2>2. Honest(ancestry') /\ faults' \in Nat
    BY <2>1 DEF IInv, TypeOK
  <2> QED
    BY <2>1, <2>2, ReadKeeps
<1> QED
  BY <1>1, <1>2, <1>3, <1>4, <1>5 DEF Next, FuturesNext

LEMMA Invariance == Spec => []IInv
<1>1. Init => IInv
  BY InitHolds
<1> QED
  BY <1>1, StepKeeps, PTL DEF Spec

(* What was asked of a stage is one fork and one first graph.              *)
LEMMA ForkedOnce == ASSUME IInv PROVE StageForkedOnce
<1> SUFFICES ASSUME NEW f \in Stages, NEW k \in req[f].keys
             PROVE  LET forked == {m \in models : IsFork(m) /\ Last(m).stage = f /\ Last(m).branch = k}
                        opened == {g.binds[1] : g \in {h \in graphs : h.id = <<f, k>>}}
                    IN  /\ Cardinality(forked) <= 1 /\ opened \subseteq forked
                        /\ fork[f].pc = "done" => opened # {}
  BY Zenon DEF StageForkedOnce
<1> DEFINE forked == {m \in models : IsFork(m) /\ Last(m).stage = f /\ Last(m).branch = k}
           opened == {g.binds[1] : g \in {h \in graphs : h.id = <<f, k>>}}
           b == Branch(f, k)
<1>1. k \in Keys
  BY DEF IInv, TypeOK
<1>2. forked \subseteq {b}
  BY DEF IInv, BranchesFit
<1>3. Cardinality(forked) <= 1
  <2>1. IsFiniteSet({b}) /\ Cardinality({b}) = 1
    BY FS_Singleton
  <2> HIDE DEF forked, b
  <2>2. Cardinality(forked) <= Cardinality({b})
    BY <1>2, <2>1, FS_Subset
  <2> QED
    BY <2>1, <2>2
<1>4. req[f].trunk \in models
  BY DEF IInv, ForksFit
<1>5. IsFork(b) /\ Last(b).stage = f /\ Last(b).branch = k
  BY <1>1, <1>4, BranchIs DEF IInv
<1>6. opened \subseteq forked
  <2>1. \A g \in graphs : g.id = <<f, k>> => b \in models /\ g.binds[1] = b
    BY <1>1 DEF IInv, BranchesFit
  <2> HIDE DEF b
  <2> QED
    BY <1>5, <2>1
<1>7. fork[f].pc = "done" => opened # {}
  <2> HAVE fork[f].pc = "done"
  <2>1. fork[f].left = {}
    BY DEF IInv, ForksFit
  <2>2. \E g \in graphs : g.id = <<f, k>>
    BY <2>1 DEF IInv, ForksFit
  <2> QED
    BY <2>2
<1> QED
  BY <1>3, <1>6, <1>7

(* The store, what is remembered and what is under way have their types:   *)
(* revisions are sequences of changes, graphs of revisions.                *)
THEOREM TypeInvariant == Spec => []TypeOK
<1>1. IInv => TypeOK
  BY DEF IInv
<1> QED
  BY <1>1, Invariance, PTL

(* The branches ancestryCache says a revision lies in are the forks of its *)
(* ancestry, whatever was dropped, rewritten or lost with the process.     *)
THEOREM AncestryTrue == Spec => []AncestryIsTrue
<1>1. IInv => AncestryIsTrue
  BY DEF IInv, Honest, AncestryIsTrue
<1> QED
  BY <1>1, Invariance, PTL

(* assertBranchSourceTransition keeps a graph in the branches it lies in,  *)
(* along any number of revisions; only the import of a history, which does *)
(* not ask it, takes a graph to others.                                    *)
THEOREM GraphsStayOnLine == Spec => []StaysOnLine
<1>1. IInv => StaysOnLine
  BY DEF IInv
<1> QED
  BY <1>1, Invariance, PTL

(* The joint probability forkStage writes on a branch is that of all the   *)
(* branches it lies in, though it reads only the innermost of them.        *)
THEOREM JointsMultiply == Spec => []JointAlongBranches
<1>1. IInv => JointAlongBranches
  BY DEF IInv
<1> QED
  BY <1>1, Invariance, PTL

(* A stage that failed, lost its server and was asked for again has each   *)
(* of its branches once, and all of them when it is answered.              *)
THEOREM StagesForkedOnce == Spec => []StageForkedOnce
BY ForkedOnce, Invariance, PTL

-----------------------------------------------------------------------------
(* The live view.                                                          *)

(* What was opened is in the store.                                        *)
Opened ==
  anchor # None => anchor.model \in models /\ (anchor.graph # None => anchor.graph \in graphs)

(* What a refresh has taken so far is on the line that was opened.         *)
RefreshFits ==
  /\ refresh = [pc |-> refresh.pc, graph |-> refresh.graph, model |-> refresh.model]
  /\ refresh.pc # "idle" =>
       anchor # None /\ (refresh.graph # None => refresh.graph \in graphs /\ Following(refresh.graph))
  /\ refresh.pc = "chosen" =>
       /\ refresh.model \in Revisions /\ IsPrefix(BoundOf(refresh.graph), refresh.model)
       /\ Forks(refresh.model) = Forks(BoundOf(refresh.graph))

ViewInv == IInv /\ IsFiniteSet(graphs) /\ Opened /\ RefreshFits /\ ShowsOneLine

(* What was written after a revision and is followed lies in the same      *)
(* branches.                                                               *)
LEMMA FollowedOnLine ==
  ASSUME writes \in Seq(Revisions), NEW a \in Revisions
  PROVE  /\ NewestWritten(a) \in Revisions /\ IsPrefix(a, NewestWritten(a))
         /\ Forks(NewestWritten(a)) = Forks(a)
<1> DEFINE leaves == {w \in Reached(a) : ~\E v \in Reached(a) : v # w /\ Front(v) = w}
           places == {i \in DOMAIN writes : writes[i] \in leaves}
<1>1. CASE leaves = {}
  <2>1. NewestWritten(a) = a
    BY <1>1 DEF NewestWritten
  <2>2. IsPrefix(a, a)
    BY DEF IsPrefix, Revisions
  <2> QED
    BY <2>1, <2>2
<1>2. CASE leaves # {}
  <2>1. places \subseteq Nat /\ IsFiniteSet(places)
    <3>1. DOMAIN writes = 1..Len(writes) /\ Len(writes) \in Nat
      OBVIOUS
    <3>2. IsFiniteSet(1..Len(writes)) /\ places \subseteq 1..Len(writes)
      BY <3>1, FS_Interval
    <3> QED
      BY <3>2, FS_Subset
  <2>2. leaves \subseteq Reached(a)
    OBVIOUS
  <2>3. places # {}
    <3>1. \A w \in Reached(a) : \E i \in DOMAIN writes : writes[i] = w
      BY DEF Reached, ToSet
    <3> QED
      BY <1>2, <3>1
  <2>4. NewestWritten(a) = writes[Max(places)]
    BY <1>2 DEF NewestWritten
  <2>5. \A i \in places : i \in DOMAIN writes /\ writes[i] \in leaves
    OBVIOUS
  <2> HIDE DEF places, leaves
  <2>6. Max(places) \in places
    BY <2>1, <2>3, Largest
  <2> DEFINE w == writes[Max(places)]
  <2>7. w \in Revisions /\ w \in Reached(a)
    BY <2>2, <2>5, <2>6
  <2> HIDE DEF w
  <2>8. IsPrefix(a, w) /\ \A i \in Len(a) + 1..Len(w) : ~IsFork(SubSeq(w, 1, i))
    BY <2>7 DEF Reached, IsStrictPrefix, Follows
  <2>9. Forks(w) = Forks(a)
    <3>1. Prefixes(a) = {p \in Prefixes(w) : Len(p) <= Len(a)}
      BY <2>7, <2>8, PrefixOf DEF Revisions
    <3>2. ASSUME NEW p \in Prefixes(w), IsFork(p) PROVE Len(p) <= Len(a)
      <4>1. PICK i \in 0..Len(w) : p = SubSeq(w, 1, i)
        BY DEF Prefixes
      <4>2. Len(p) = i
        BY <2>7, <4>1, Prefix DEF Revisions
      <4>3. Len(a) \in Nat /\ Len(w) \in Nat
        BY <2>7 DEF Revisions
      <4> QED
        BY <2>8, <3>2, <4>1, <4>2, <4>3
    <3> QED
      BY <3>1, <3>2 DEF Forks
  <2> QED
    BY <2>4, <2>7, <2>8, <2>9 DEF w
<1> QED
  BY <1>1, <1>2

(* Of the descendants of what was opened one has the most revisions.       *)
LEMMA HeadFollows ==
  ASSUME IInv, IsFiniteSet(graphs), NEW g \in graphs, Following(g)
  PROVE  FollowedHead \in graphs /\ Following(FollowedHead)
<1> DEFINE lens == [h \in Descendants |-> Len(h.binds)]
           S == {Len(h.binds) : h \in Descendants}
<1>1. IsFiniteSet(Descendants) /\ Descendants \subseteq graphs /\ g \in Descendants
  BY FS_Subset DEF Descendants
<1>2. \A h \in Descendants : Len(h.binds) \in Nat
  BY <1>1 DEF IInv, TypeOK, Graphs
<1>3. lens \in Surjection(Descendants, S)
  BY DEF Surjection
<1>4. IsFiniteSet(S)
  BY <1>1, <1>3, FS_Surjection
<1>5. S \subseteq Nat /\ S # {}
  BY <1>1, <1>2
<1>6. \E n \in S : \A i \in S : n >= i
  <2> HIDE DEF S
  <2> QED
    BY <1>4, <1>5, Largest
<1>7. \E h \in Descendants : \A i \in Descendants : Len(i.binds) <= Len(h.binds)
  BY <1>2, <1>6
<1>8. FollowedHead \in Descendants
  BY <1>7 DEF FollowedHead
<1> QED
  BY <1>8 DEF Descendants

(* Whatever is written, nothing is taken away.                             *)
LEMMA StoreGrows ==
  ASSUME FuturesNext
  PROVE  /\ models \subseteq models' /\ graphs \subseteq graphs'
         /\ IsFiniteSet(graphs) => IsFiniteSet(graphs')
<1>1. models \subseteq models'
  BY DEF FuturesNext, Revise, ReviseGraph, ReplayGraph, StartFork, ForkModel, ForkGraph, ForkFails, StoreModel, storeVars
<1>2. graphs' = graphs \/ \E g : graphs' = graphs \cup {g}
  BY DEF FuturesNext, Revise, ReviseGraph, ReplayGraph, StartFork, ForkModel, ForkGraph, ForkFails, storeVars
<1>3. IsFiniteSet(graphs) => IsFiniteSet(graphs')
  BY <1>2, FS_AddElement
<1> QED
  BY <1>1, <1>2, <1>3

(* What is shown and what a refresh took change with them alone.           *)
LEMMA ViewStays ==
  ASSUME Opened, RefreshFits, ShowsOneLine, models \subseteq models', graphs \subseteq graphs', UNCHANGED anchor
  PROVE  /\ Opened'
         /\ refresh' = refresh => RefreshFits'
         /\ shown' = shown => ShowsOneLine'
<1>1. Opened'
  BY DEF Opened
<1>2. ASSUME refresh' = refresh PROVE RefreshFits'
  <2>1. Following(refresh.graph)' = Following(refresh.graph) /\ BoundOf(refresh.graph)' = BoundOf(refresh.graph)
    BY <1>2 DEF Following, BoundOf, Bound
  <2> QED
    BY <1>2, <2>1 DEF RefreshFits
<1>3. ASSUME shown' = shown PROVE ShowsOneLine'
  <2>1. Following(shown.graph)' = Following(shown.graph) /\ BoundOf(shown.graph)' = BoundOf(shown.graph)
    BY <1>3 DEF Following, BoundOf, Bound
  <2> QED
    BY <1>3, <2>1 DEF ShowsOneLine
<1> QED
  BY <1>1, <1>2, <1>3

(* The models a view reads are revisions.                                  *)
LEMMA BoundRevision ==
  ASSUME IInv, Opened, anchor # None, NEW g, g # None => g \in graphs
  PROVE  BoundOf(g) \in Revisions
<1>1. CASE g = None
  BY <1>1 DEF BoundOf, Opened, IInv, TypeOK
<1>2. CASE g # None
  <2>1. g.binds \in Seq(Revisions) /\ g.binds # <<>>
    BY <1>2 DEF IInv, TypeOK, Graphs
  <2> QED
    BY <1>2, <2>1, Regrown DEF BoundOf, Bound
<1> QED
  BY <1>1, <1>2

(* What is said of a model shown is true, and so is what is remembered.    *)
LEMMA ShownTrue ==
  ASSUME IInv, NEW g, NEW m \in Revisions
  PROVE  Ancestry(g, m).forks = Forks(m) /\ Honest(Ancestry(g, m).cache)
BY BranchesTrue DEF IInv, Ancestry

LEMMA OpenKeeps == ASSUME ViewInv, Open PROVE ViewInv'
<1>1. PICK g \in graphs \cup {None}, m \in models :
        /\ g # None => m = Bound(g)
        /\ anchor' = [graph |-> g, model |-> m]
        /\ shown' = [graph |-> g, model |-> m, forks |-> Ancestry(g, m).forks]
        /\ ancestry' = Ancestry(g, m).cache
  BY Zenon DEF Open, Show
<1>2. /\ refresh' = NoRefresh /\ UNCHANGED <<models, graphs, crossed, writes, receipts, req, fork, faults>>
  BY DEF Open, storeVars, forkVars
<1>3. m \in Revisions
  BY DEF ViewInv, IInv, TypeOK
<1>4. Ancestry(g, m).forks = Forks(m) /\ Honest(Ancestry(g, m).cache)
  BY <1>3, ShownTrue DEF ViewInv
<1>5. IInv'
  <2>1. Honest(ancestry') /\ faults' \in Nat
    BY <1>1, <1>2, <1>4 DEF ViewInv, IInv, TypeOK
  <2> QED
    BY <1>2, <2>1, ReadKeeps DEF ViewInv
<1>6. Opened' /\ IsFiniteSet(graphs)'
  BY <1>1, <1>2 DEF Opened, ViewInv
<1>7. RefreshFits'
  BY <1>2 DEF RefreshFits, NoRefresh
<1>8. ShowsOneLine'
  <2>1. shown'.graph = g /\ shown'.model = m /\ shown'.forks = Forks(m) /\ anchor'.graph = g /\ anchor'.model = m
    BY <1>1, <1>4
  <2>2. IsPrefix(m, m) /\ (g # None => IsPrefix(g.binds, g.binds))
    <3>1. g # None => g.binds \in Seq(Revisions)
      BY DEF ViewInv, IInv, TypeOK, Graphs
    <3> QED
      BY <1>3, <3>1 DEF IsPrefix, Revisions
  <2>3. BoundOf(shown.graph)' = m
    BY <1>1, <2>1 DEF BoundOf
  <2>4. g # None => Following(shown.graph)'
    BY <2>1, <2>2 DEF Following
  <2> QED
    BY <2>1, <2>2, <2>3, <2>4 DEF ShowsOneLine
<1> QED
  BY <1>5, <1>6, <1>7, <1>8 DEF ViewInv

LEMMA ListKeeps == ASSUME ViewInv, List PROVE ViewInv'
<1>1. /\ anchor # None
      /\ \/ refresh' = refresh
         \/ refresh' = [NoRefresh EXCEPT !.pc = "listed",
                                         !.graph = IF anchor.graph = None THEN None ELSE FollowedHead]
      /\ UNCHANGED <<models, graphs, crossed, writes, ancestry, receipts, req, fork, faults, anchor, shown>>
  BY DEF List, futureVars, storeVars, memoryVars, forkVars
<1>2. IInv'
  <2>1. Honest(ancestry') /\ faults' \in Nat
    BY <1>1 DEF ViewInv, IInv, TypeOK
  <2> QED
    BY <1>1, <2>1, ReadKeeps DEF ViewInv
<1>3. Opened' /\ ShowsOneLine' /\ (refresh' = refresh => RefreshFits')
  BY <1>1, ViewStays DEF ViewInv
<1>4. ASSUME refresh' # refresh PROVE RefreshFits'
  <2> DEFINE g == IF anchor.graph = None THEN None ELSE FollowedHead
  <2>1. refresh' = [pc |-> "listed", graph |-> g, model |-> None]
    BY <1>1, <1>4 DEF NoRefresh
  <2>2. g # None => g \in graphs /\ Following(g)
    <3> HAVE g # None
    <3>1. anchor.graph \in graphs
      BY <1>1 DEF ViewInv, Opened
    <3>2. Following(anchor.graph)
      <4>1. anchor.graph.binds \in Seq(Revisions)
        BY <3>1 DEF ViewInv, IInv, TypeOK, Graphs
      <4> QED
        BY <4>1 DEF Following, IsPrefix
    <3> QED
      BY <3>1, <3>2, HeadFollows DEF ViewInv
  <2> HIDE DEF g
  <2>3. refresh'.graph = g /\ refresh'.pc = "listed" /\ refresh' = [pc |-> refresh'.pc, graph |-> refresh'.graph, model |-> refresh'.model]
    BY <2>1
  <2>4. g # None => Following(refresh.graph)'
    BY <1>1, <2>2, <2>3 DEF Following
  <2> QED
    BY <1>1, <2>2, <2>3, <2>4 DEF RefreshFits
<1> QED
  BY <1>1, <1>2, <1>3, <1>4 DEF ViewInv

LEMMA ChooseKeeps == ASSUME ViewInv, Choose PROVE ViewInv'
<1> DEFINE b == BoundOf(refresh.graph)
           m == NewestWritten(b)
<1>1. /\ refresh.pc = "listed" /\ refresh' = [refresh EXCEPT !.pc = "chosen", !.model = m]
      /\ UNCHANGED <<models, graphs, crossed, writes, ancestry, receipts, req, fork, faults, anchor, shown>>
  BY DEF Choose, NewestAfterListed, futureVars, storeVars, memoryVars, forkVars
<1>2. IInv'
  <2>1. Honest(ancestry') /\ faults' \in Nat
    BY <1>1 DEF ViewInv, IInv, TypeOK
  <2> QED
    BY <1>1, <2>1, ReadKeeps DEF ViewInv
<1>3. Opened' /\ ShowsOneLine'
  BY <1>1, ViewStays DEF ViewInv
<1>4. /\ anchor # None /\ (refresh.graph # None => refresh.graph \in graphs /\ Following(refresh.graph))
      /\ refresh = [pc |-> refresh.pc, graph |-> refresh.graph, model |-> refresh.model]
  BY <1>1 DEF ViewInv, RefreshFits
<1>5. m \in Revisions /\ IsPrefix(b, m) /\ Forks(m) = Forks(b)
  BY <1>4, BoundRevision, FollowedOnLine DEF ViewInv, IInv, TypeOK
<1> HIDE DEF m, b
<1>6. refresh' = [pc |-> "chosen", graph |-> refresh.graph, model |-> m]
  BY <1>1, <1>4
<1>7. refresh'.graph = refresh.graph /\ refresh'.model = m /\ refresh'.pc = "chosen"
  BY <1>6
<1>8. BoundOf(refresh.graph)' = b /\ Following(refresh.graph)' = Following(refresh.graph)
  BY <1>1, <1>7 DEF BoundOf, Following, Bound, b
<1>9. RefreshFits'
  BY <1>1, <1>4, <1>5, <1>6, <1>7, <1>8 DEF RefreshFits
<1> QED
  BY <1>1, <1>2, <1>3, <1>9 DEF ViewInv

LEMMA SettleKeeps == ASSUME ViewInv, Settle PROVE ViewInv'
<1> DEFINE g == refresh.graph
           m == refresh.model
<1>1. /\ refresh.pc = "chosen" /\ refresh' = NoRefresh
      /\ UNCHANGED <<models, graphs, crossed, writes, receipts, req, fork, faults, anchor>>
      /\ \/ shown' = shown /\ ancestry' = ancestry
         \/ /\ shown' = [graph |-> g, model |-> m, forks |-> Ancestry(g, m).forks]
            /\ ancestry' = Ancestry(g, m).cache
  BY DEF Settle, Cleared, Show, storeVars, forkVars
<1>2. /\ anchor # None /\ (g # None => g \in graphs /\ Following(g))
      /\ m \in Revisions /\ IsPrefix(BoundOf(g), m) /\ Forks(m) = Forks(BoundOf(g))
  BY <1>1 DEF ViewInv, RefreshFits
<1>3. Ancestry(g, m).forks = Forks(m) /\ Honest(Ancestry(g, m).cache)
  BY <1>2, ShownTrue DEF ViewInv
<1> HIDE DEF g, m
<1>4. IInv'
  <2>1. Honest(ancestry') /\ faults' \in Nat
    BY <1>1, <1>3 DEF ViewInv, IInv, TypeOK
  <2> QED
    BY <1>1, <2>1, ReadKeeps DEF ViewInv
<1>5. Opened' /\ (shown' = shown => ShowsOneLine')
  BY <1>1, ViewStays DEF ViewInv
<1>6. RefreshFits'
  BY <1>1 DEF RefreshFits, NoRefresh
<1>7. ASSUME shown' # shown PROVE ShowsOneLine'
  <2>1. shown'.graph = g /\ shown'.model = m /\ shown'.forks = Forks(m)
    BY <1>1, <1>3, <1>7
  <2>2. BoundOf(shown.graph)' = BoundOf(g) /\ Following(shown.graph)' = Following(g)
    BY <1>1, <2>1 DEF BoundOf, Following, Bound
  <2> QED
    BY <1>2, <2>1, <2>2 DEF ShowsOneLine
<1> QED
  BY <1>1, <1>4, <1>5, <1>6, <1>7 DEF ViewInv

(* What is written meanwhile leaves the view as it is.                     *)
LEMMA WriteKeeps == ASSUME ViewInv, FuturesNext, UNCHANGED viewVars PROVE ViewInv'
<1>1. models \subseteq models' /\ graphs \subseteq graphs' /\ IsFiniteSet(graphs)'
  BY StoreGrows DEF ViewInv
<1>2. IInv'
  BY StepKeeps DEF Next, ViewInv
<1>3. UNCHANGED <<anchor, shown, refresh>>
  BY DEF viewVars
<1>4. Opened' /\ RefreshFits' /\ ShowsOneLine'
  BY <1>1, <1>3, ViewStays DEF ViewInv
<1> QED
  BY <1>1, <1>2, <1>4 DEF ViewInv

(* A refresh that fails, and a page that is loaded, show nothing new.      *)
LEMMA QuietKeeps ==
  ASSUME ViewInv, UNCHANGED <<models, graphs, crossed, writes, ancestry, receipts, req, fork, anchor, shown>>,
         faults' \in Nat, refresh' = refresh \/ refresh' = NoRefresh
  PROVE  ViewInv'
<1>1. Honest(ancestry')
  BY DEF ViewInv, IInv
<1>2. IInv' /\ IsFiniteSet(graphs)'
  BY <1>1, ReadKeeps DEF ViewInv
<1>3. Opened' /\ ShowsOneLine' /\ (refresh' = refresh => RefreshFits')
  BY ViewStays DEF ViewInv
<1>4. refresh' = NoRefresh => RefreshFits'
  BY DEF RefreshFits, NoRefresh
<1> QED
  BY <1>2, <1>3, <1>4 DEF ViewInv

LEMMA CloseKeeps == ASSUME ViewInv, Close PROVE ViewInv'
<1>1. Restart /\ anchor' = None /\ refresh' = NoRefresh
  BY DEF Close
<1>2. IInv'
  BY <1>1, StepKeeps DEF Next, ViewInv
<1>3. IsFiniteSet(graphs)'
  <2>1. graphs' = graphs \/ \E g : graphs' = graphs \cup {g}
    BY <1>1 DEF Restart, storeVars
  <2> QED
    BY <2>1, FS_AddElement DEF ViewInv
<1>4. Opened' /\ ShowsOneLine' /\ RefreshFits'
  BY <1>1 DEF Opened, ShowsOneLine, RefreshFits, NoRefresh
<1> QED
  BY <1>2, <1>3, <1>4 DEF ViewInv

LEMMA ViewInitHolds == ASSUME ViewInit PROVE ViewInv
<1>1. IInv
  BY InitHolds DEF ViewInit
<1>2. IsFiniteSet(graphs)
  BY FS_Singleton DEF ViewInit, Init
<1>3. Opened /\ RefreshFits /\ ShowsOneLine
  BY DEF ViewInit, Opened, RefreshFits, ShowsOneLine, NoRefresh
<1> QED
  BY <1>1, <1>2, <1>3 DEF ViewInv

LEMMA ViewStepKeeps == ViewInv /\ [ViewNext]_vars => ViewInv'
<1> SUFFICES ASSUME ViewInv, [ViewNext]_vars PROVE ViewInv'
  OBVIOUS
<1>0. faults \in Nat
  BY DEF ViewInv, IInv, TypeOK
<1>1. CASE FuturesNext /\ UNCHANGED viewVars
  BY <1>1, WriteKeeps
<1>2. CASE Open
  BY <1>2, OpenKeeps
<1>3. CASE List
  BY <1>3, ListKeeps
<1>4. CASE Choose
  BY <1>4, ChooseKeeps
<1>5. CASE Settle
  BY <1>5, SettleKeeps
<1>6. CASE RefreshFails
  <2>1. /\ UNCHANGED <<models, graphs, crossed, writes, ancestry, receipts, req, fork, anchor, shown>>
        /\ faults' \in Nat /\ refresh' = NoRefresh
    BY <1>0, <1>6 DEF RefreshFails, Fault, storeVars, memoryVars, forkVars
  <2> QED
    BY <2>1, QuietKeeps
<1>7. CASE Reload \/ UNCHANGED vars
  <2>1. /\ UNCHANGED <<models, graphs, crossed, writes, ancestry, receipts, req, fork, anchor, shown>>
        /\ faults' \in Nat /\ refresh' = refresh
    BY <1>0, <1>7 DEF Reload, vars, viewVars, futureVars, storeVars, memoryVars, forkVars
  <2> QED
    BY <2>1, QuietKeeps
<1>8. CASE Close
  BY <1>8, CloseKeeps
<1> QED
  BY <1>1, <1>2, <1>3, <1>4, <1>5, <1>6, <1>7, <1>8 DEF ViewNext, Refresh

(* Whatever is written while a snapshot is rebuilt, its graph descends     *)
(* from the one that was opened, its model is on that graph's line, and    *)
(* the branches it is said to lie in are the model's and the graph's.      *)
THEOREM SnapshotsAgree == ViewSpec => []ShowsOneLine
<1>1. ViewInit => ViewInv
  BY ViewInitHolds
<1>2. ViewInv => ShowsOneLine
  BY DEF ViewInv
<1> QED
  BY <1>1, <1>2, ViewStepKeeps, PTL DEF ViewSpec
===============================================================================
