-------------------------- MODULE GraphRecords_proofs --------------------------
(***************************************************************************)
(* Proofs about the recording tools, for every set of calls, every mix of  *)
(* tools, and every number of refusals, uncertain outcomes and restarts.   *)
(***************************************************************************)
EXTENDS GraphRecords, SequenceTheorems, FiniteSetTheorems, WellFoundedInduction, TLAPS

-----------------------------------------------------------------------------
(* The invariant.                                                          *)

Changes == [by : Calls, drops : BOOLEAN]

(* A record of a graph, and a graph, whatever calls wrote them.            *)
NoteRecords == [kind : {"note"}, by : Calls, part : {"notes", "more"}, time : Nat, about : Calls \cup {None}]
OtherRecords ==
       [kind : {"setting"}, by : Calls, on : BOOLEAN]
  \cup [kind : {"message"}, by : Calls]
  \cup [kind : {"bind"}, by : Calls, model : Seq(Changes)]
Records == NoteRecords \cup OtherRecords

Requests == [tool : Tools, by : Calls, graph : Seq(Records), model : Seq(Changes),
             about : Calls \cup {None}, on : BOOLEAN]

StepsOf(tool) == {Steps(tool)[i] : i \in DOMAIN Steps(tool)}

StoreTyped ==
  /\ models \subseteq Seq(Changes) /\ <<>> \in models
  /\ graphs \subseteq Seq(Records) /\ <<>> \in graphs
  /\ writer \in [graphs -> Calls \cup {None}]
  /\ \A g \in graphs \ {<<>>} : writer[g] \in Calls

(* A call is at a step of its tool, and is told it succeeded at the last.  *)
CallsTyped ==
  /\ req \in [Calls -> Requests]
  /\ \A c \in Calls : req[c].graph \in graphs /\ req[c].model \in models
  /\ pc \in [Calls -> {"idle", "revise", "rebind", "begin", "notes", "more", "done"}]
  /\ \A c \in Calls : pc[c] \in {"idle"} \cup StepsOf(Tool(c))
  /\ at \in [Calls -> graphs]
  /\ base \in [Calls -> graphs \cup {None}]
  /\ time \in [Calls -> Nat]
  /\ told \in [Calls -> {"nothing", "ok", "error", "conflict", "lost"}]
  /\ \A c \in Calls : told[c] = "ok" => pc[c] = "done"
  /\ before \in [Calls -> SUBSET Calls]
  /\ unlisted \subseteq Calls

(* What a sure receipt names was stored.                                   *)
ReceiptsTyped ==
  /\ faults \in Nat
  /\ \A k \in DOMAIN receipts :
       /\ k \in Calls \X (Writes \cup {"revise"})
       /\ receipts[k] \in [base : graphs, record : Records \cup {None}, sure : BOOLEAN]
       /\ receipts[k].sure => Append(receipts[k].base, receipts[k].record) \in graphs

TypeOK == StoreTyped /\ CallsTyped /\ ReceiptsTyped

(* A retry is the request of the call that was made first.                 *)
RequestsAgree ==
  \A c \in Calls :
    /\ req[req[c].by] = req[c]
    /\ IF pc[c] = "idle" THEN req[c].by = c ELSE pc[req[c].by] # "idle"

(* A graph holds each part of a call's notes once, a carve's second part   *)
(* at the time of its first; the model it is bound to only grew, and holds *)
(* what its notes link to.                                                 *)
GraphSound(g) ==
  /\ \A i \in Of(g, "note") :
       /\ pc[g[i].by] # "idle"
       /\ g[i].part = "more" => Tool(g[i].by) = "carve"
  /\ \A i, j \in Of(g, "note") : g[i].by = g[j].by /\ g[i].part = g[j].part => i = j
  /\ \A i \in Of(g, "note") : g[i].part = "more" =>
       \E j \in Of(g, "note") : g[j].by = g[i].by /\ g[j].part = "notes" /\ g[j].time = g[i].time
  /\ \A n \in 0..Len(g) : IsPrefix(Bound(SubSeq(g, 1, n)), Bound(g))
  /\ Anchors(g) \subseteq Holds(Bound(g))

WritersMade == \A g \in graphs \ {<<>>} : pc[writer[g]] # "idle"
BeforeDone == \A c \in Calls : \A d \in before[c] : pc[d] = "done"

(* What a call means to write beside, no call wrote that ended before it.  *)
FoundLate(c) ==
  pc[c] \in Writes /\ base[c] # None /\ Tool(c) # "rebind" /\ c \notin unlisted
    => \/ Key(c, pc[c]) \in DOMAIN receipts
       \/ \A g \in graphs \ {<<>>} : Front(g) = base[c] => writer[g] \notin before[c]

Noting(c) == Tool(c) \in Compound /\ pc[c] \in {"notes", "more"}

(* Once its graph is bound, a compound tool stays on lines bound to its    *)
(* model or to a successor.                                                *)
BoundRight(c) ==
  /\ Tool(c) \in Compound /\ pc[c] \in {"begin", "notes", "more"} => IsPrefix(ModelOf(c), Bound(at[c]))
  /\ Noting(c) /\ base[c] # None => IsPrefix(ModelOf(c), Bound(base[c]))
  /\ pc[c] = "begin" => base[c] = None

(* A carve that has its second notes to write left its first ones, on the  *)
(* line that it writes on.                                                 *)
BegunRight(c) ==
  pc[c] = "more" =>
    /\ \E j \in Of(at[c], "note") : at[c][j].by = req[c].by /\ at[c][j].part = "notes" /\ at[c][j].time = time[c]
    /\ base[c] # None /\ Key(c, "more") \notin DOMAIN receipts => IsPrefix(at[c], base[c])

(* What a compound tool that succeeded names ends in its last notes.       *)
Ended(c) ==
  told[c] = "ok" /\ Tool(c) \in Compound =>
    /\ at[c] # <<>>
    /\ LET r == at[c][Len(at[c])]
       IN r.kind = "note" /\ r.by = req[c].by /\ r.part = (IF Tool(c) = "carve" THEN "more" ELSE "notes")
    /\ IsPrefix(ModelOf(c), Bound(at[c]))

(* What a retry is written against again was bound when it was found.      *)
ReceiptsBound ==
  \A k \in DOMAIN receipts :
    /\ pc[k[1]] # "idle"
    /\ k[2] \in {"notes", "more"} /\ Tool(k[1]) \in Compound => IsPrefix(ModelOf(k[1]), Bound(receipts[k].base))

Sound ==
  /\ \A g \in graphs : GraphSound(g)
  /\ WritersMade /\ BeforeDone
  /\ \A c \in Calls : FoundLate(c) /\ BoundRight(c) /\ BegunRight(c) /\ Ended(c)
  /\ ReceiptsBound

IInv == TypeOK /\ RequestsAgree /\ Sound /\ ForksAreRaces

-----------------------------------------------------------------------------
(* Sequences.                                                              *)

(* The greatest of some positions is one of them.                          *)
LEMMA LastOf ==
  ASSUME NEW n \in Nat, NEW S, S \subseteq 1..n, S # {}
  PROVE  Max(S) \in S /\ \A y \in S : Max(S) >= y
<1> DEFINE T == {n - x : x \in S}
           R == {p \in Nat \X Nat : p[1] < p[2]}
<1>1. T \subseteq Nat /\ T # {}
  <2>1. \A x \in S : n - x \in Nat
    OBVIOUS
  <2> QED
    BY <2>1
<1>2. IsWellFoundedOn(R, Nat)
  BY NatLessThanWellFounded, Zenon DEF OpToRel
<1>3. PICK k \in T : \A m \in T : ~(<<m, k>> \in R)
  <2> HIDE DEF T, R
  <2> QED
    BY <1>1, <1>2, WFMin
<1>4. PICK x \in S : k = n - x
  BY <1>3
<1>5. ASSUME NEW y \in S PROVE x >= y
  <2>1. n - y \in T /\ n - y \in Nat /\ n - x \in Nat
    BY <1>1, <1>4
  <2>2. ~(n - y < n - x)
    BY <1>3, <1>4, <2>1
  <2> QED
    BY <1>4, <2>1, <2>2
<1> QED
  BY <1>4, <1>5 DEF Max

(* What it is to be a prefix.                                              *)
LEMMA PrefixIs ==
  ASSUME NEW X, NEW s \in Seq(X), NEW t \in Seq(X)
  PROVE  /\ IsPrefix(s, t) <=> Len(s) <= Len(t) /\ s = SubSeq(t, 1, Len(s))
         /\ IsPrefix(s, t) <=> Len(s) <= Len(t) /\ \A i \in 1..Len(s) : s[i] = t[i]
<1>1. SubSeq(s, 1, Len(s)) = s
  BY SubSeqFull
<1>2. ASSUME Len(s) <= Len(t) PROVE s = SubSeq(t, 1, Len(s)) <=> \A i \in 1..Len(s) : s[i] = t[i]
  <2> DEFINE u == SubSeq(t, 1, Len(s))
  <2>1. /\ u \in Seq(X) /\ Len(u) = Len(s)
        /\ \A i \in 1..Len(s) : u[i] = t[i]
    BY <1>2, SubSeqProperties
  <2> HIDE DEF u
  <2>2. (\A i \in 1..Len(s) : s[i] = t[i]) => s = u
    BY <2>1, SeqEqual
  <2> QED
    BY <2>1, <2>2 DEF u
<1> QED
  BY <1>1, <1>2 DEF IsPrefix

(* A prefix is shorter or the whole, and stays one.                        *)
LEMMA PrefixOrder ==
  ASSUME NEW X, NEW s \in Seq(X), NEW t \in Seq(X), NEW u \in Seq(X)
  PROVE  /\ IsPrefix(s, s) /\ IsPrefix(<<>>, s)
         /\ IsPrefix(s, t) /\ IsPrefix(t, u) => IsPrefix(s, u)
         /\ \A x \in X : IsPrefix(s, Append(s, x)) /\ (IsPrefix(s, t) => IsPrefix(s, Append(t, x)))
         /\ IsPrefix(s, t) /\ Len(s) = Len(t) => s = t
<1>1. /\ Len(s) \in Nat /\ Len(t) \in Nat /\ Len(u) \in Nat
      /\ <<>> \in Seq(X) /\ Len(<<>>) = 0
  OBVIOUS
<1>2. IsPrefix(s, s) /\ IsPrefix(<<>>, s)
  <2>1. IsPrefix(s, s)
    BY <1>1, PrefixIs
  <2>2. IsPrefix(<<>>, s)
    <3>1. \A i \in 1..Len(<<>>) : <<>>[i] = s[i]
      OBVIOUS
    <3>2. Len(<<>>) <= Len(s)
      OBVIOUS
    <3> QED
      BY <1>1, <3>1, <3>2, PrefixIs
  <2> QED
    BY <2>1, <2>2
<1>3. IsPrefix(s, t) /\ IsPrefix(t, u) => IsPrefix(s, u)
  BY <1>1, PrefixIs
<1>4. \A a \in Seq(X) : Len(a) = Len(t) + 1 /\ (\A i \in 1..Len(t) : a[i] = t[i])
                          => IsPrefix(t, a) /\ (IsPrefix(s, t) => IsPrefix(s, a))
  BY <1>1, PrefixIs
<1>5. \A a \in Seq(X) : Len(a) = Len(s) + 1 /\ (\A i \in 1..Len(s) : a[i] = s[i]) => IsPrefix(s, a)
  BY <1>1, PrefixIs
<1>6. IsPrefix(s, t) /\ Len(s) = Len(t) => s = t
  BY PrefixIs, SubSeqFull
<1>7. ASSUME NEW x \in X PROVE IsPrefix(s, Append(s, x)) /\ (IsPrefix(s, t) => IsPrefix(s, Append(t, x)))
  <2>1. /\ Append(s, x) \in Seq(X) /\ Len(Append(s, x)) = Len(s) + 1 /\ \A i \in 1..Len(s) : Append(s, x)[i] = s[i]
        /\ Append(t, x) \in Seq(X) /\ Len(Append(t, x)) = Len(t) + 1 /\ \A i \in 1..Len(t) : Append(t, x)[i] = t[i]
    OBVIOUS
  <2> QED
    BY <2>1, <1>4, <1>5
<1> QED
  BY <1>1, <1>2, <1>3, <1>6, <1>7

(* A sequence with one element more.                                       *)
LEMMA Grown ==
  ASSUME NEW X, NEW s \in Seq(X), NEW x \in X
  PROVE  LET t == Append(s, x)
         IN  /\ t \in Seq(X) /\ t # <<>> /\ Len(t) = Len(s) + 1 /\ Len(s) \in Nat
             /\ DOMAIN t = 1..(Len(s) + 1) /\ DOMAIN s = 1..Len(s)
             /\ \A i \in 1..Len(s) : t[i] = s[i]
             /\ t[Len(s) + 1] = x
             /\ Front(t) = s
             /\ \A n \in 0..Len(s) : SubSeq(t, 1, n) = SubSeq(s, 1, n)
             /\ SubSeq(t, 1, Len(t)) = t
<1> DEFINE t == Append(s, x)
<1>1. /\ t \in Seq(X) /\ t # <<>> /\ Len(t) = Len(s) + 1 /\ Len(s) \in Nat
      /\ DOMAIN t = 1..(Len(s) + 1) /\ DOMAIN s = 1..Len(s)
      /\ \A i \in 1..Len(s) : t[i] = s[i]
      /\ t[Len(s) + 1] = x
  OBVIOUS
<1> HIDE DEF t
<1>2. ASSUME NEW n \in 0..Len(s) PROVE SubSeq(t, 1, n) = SubSeq(s, 1, n)
  <2>1. /\ SubSeq(t, 1, n) \in Seq(X) /\ Len(SubSeq(t, 1, n)) = n
        /\ \A i \in 1..n : SubSeq(t, 1, n)[i] = t[i]
    BY <1>1, SubSeqProperties
  <2>2. /\ SubSeq(s, 1, n) \in Seq(X) /\ Len(SubSeq(s, 1, n)) = n
        /\ \A i \in 1..n : SubSeq(s, 1, n)[i] = s[i]
    BY <1>1, SubSeqProperties
  <2> QED
    BY <1>1, <2>1, <2>2, SeqEqual
<1>3. Front(t) = s
  BY <1>1, <1>2, SubSeqFull DEF Front
<1>4. SubSeq(t, 1, Len(t)) = t
  BY <1>1, SubSeqFull
<1> QED
  BY <1>1, <1>2, <1>3, <1>4 DEF t

(* A sequence that is not empty extends what it had before.                *)
LEMMA Extends ==
  ASSUME NEW X, NEW s \in Seq(X), s # <<>>
  PROVE  Front(s) \in Seq(X) /\ IsStrictPrefix(Front(s), s)
<1>1. Len(s) \in Nat /\ Len(s) # 0
  BY EmptySeq
<1>2. /\ Front(s) \in Seq(X) /\ Len(Front(s)) = Len(s) - 1
      /\ \A i \in 1..(Len(s) - 1) : Front(s)[i] = s[i]
  <2> DEFINE n == Len(s) - 1
  <2>1. n \in 0..Len(s)
    BY <1>1
  <2> HIDE DEF n
  <2>2. /\ SubSeq(s, 1, n) \in Seq(X) /\ Len(SubSeq(s, 1, n)) = n
        /\ \A i \in 1..n : SubSeq(s, 1, n)[i] = s[i]
    BY <1>1, <2>1, SubSeqProperties
  <2> QED
    BY <2>2 DEF Front, n
<1>3. IsPrefix(Front(s), s)
  BY <1>1, <1>2, PrefixIs
<1> QED
  BY <1>1, <1>2, <1>3 DEF IsStrictPrefix

-----------------------------------------------------------------------------
(* A graph with one record more.                                           *)

(* The kind of a record tells its shape.                                   *)
LEMMA RecordKinds ==
  ASSUME NEW r \in Records
  PROVE  /\ r.kind = "note" <=> r \in NoteRecords
         /\ r.kind = "bind" => r.model \in Seq(Changes)
BY DEF Records, NoteRecords, OtherRecords

(* The records of one kind.                                                *)
LEMMA OfGrown ==
  ASSUME NEW g \in Seq(Records), NEW r \in Records, NEW kind
  PROVE  /\ Of(g, kind) \subseteq 1..Len(g) /\ Len(g) \in Nat
         /\ Of(Append(g, r), kind) = (IF r.kind = kind THEN Of(g, kind) \cup {Len(g) + 1} ELSE Of(g, kind))
         /\ \A i \in Of(g, kind) : Append(g, r)[i] = g[i]
<1> DEFINE t == Append(g, r)
<1>1. /\ DOMAIN t = 1..(Len(g) + 1) /\ DOMAIN g = 1..Len(g) /\ Len(g) \in Nat
      /\ \A i \in 1..Len(g) : t[i] = g[i]
      /\ t[Len(g) + 1] = r
  BY Grown
<1> HIDE DEF t
<1>2. Of(g, kind) \subseteq 1..Len(g)
  BY <1>1 DEF Of
<1>3. \A i : i \in Of(t, kind) <=> i \in Of(g, kind) \/ (r.kind = kind /\ i = Len(g) + 1)
  BY <1>1 DEF Of
<1> QED
  BY <1>1, <1>2, <1>3 DEF t

(* The model a graph is bound to.                                          *)
LEMMA BoundGrown ==
  ASSUME NEW g \in Seq(Records), NEW r \in Records
  PROVE  /\ Bound(g) \in Seq(Changes)
         /\ Bound(Append(g, r)) = (IF r.kind = "bind" THEN r.model ELSE Bound(g))
<1> DEFINE t == Append(g, r)
           S == Of(g, "bind")
<1>1. /\ S \subseteq 1..Len(g) /\ Len(g) \in Nat
      /\ Of(t, "bind") = (IF r.kind = "bind" THEN S \cup {Len(g) + 1} ELSE S)
      /\ \A i \in S : t[i] = g[i]
  BY OfGrown
<1>2. t[Len(g) + 1] = r
  BY Grown
<1>3. S # {} => Max(S) \in S
  BY <1>1, LastOf
<1>4. \A i \in S : g[i] \in Records /\ g[i].kind = "bind"
  BY <1>1 DEF Of
<1>5. Bound(g) \in Seq(Changes)
  BY <1>3, <1>4, RecordKinds DEF Bound
<1>6. CASE r.kind = "bind"
  <2> DEFINE n == Len(g) + 1
             T == S \cup {n}
  <2>1. T \subseteq 1..n /\ n \in Nat /\ T # {}
    BY <1>1
  <2>2. Max(T) \in T /\ \A y \in T : Max(T) >= y
    <3> HIDE DEF T, n
    <3> QED
      BY <2>1, LastOf
  <2>3. Max(T) = n
    <3>1. PICK m : m = Max(T)
      OBVIOUS
    <3>2. (m \in S \/ m = n) /\ m >= n
      BY <2>2, <3>1, Zenon
    <3>3. m = n
      BY <1>1, <3>2
    <3> QED
      BY <3>1, <3>3
  <2>4. Bound(t) = t[n].model
    <3>1. Of(t, "bind") = T
      BY <1>1, <1>6
    <3>2. Bound(t) = t[Max(Of(t, "bind"))].model
      BY <2>1, <3>1, Zenon DEF Bound
    <3> QED
      BY <2>3, <3>1, <3>2, Zenon
  <2> QED
    BY <1>2, <1>5, <1>6, <2>4
<1>7. CASE r.kind # "bind"
  <2>1. Of(t, "bind") = S
    BY <1>1, <1>7
  <2>2. S # {} => t[Max(S)] = g[Max(S)]
    BY <1>1, <1>3
  <2> HIDE DEF t
  <2>3. Bound(t) = Bound(g)
    BY <2>1, <2>2 DEF Bound
  <2> QED
    BY <1>5, <1>7, <2>3 DEF t
<1> QED
  BY <1>6, <1>7

(* The records a graph links to.                                           *)
LEMMA AnchorsGrown ==
  ASSUME NEW g \in Seq(Records), NEW r \in Records
  PROVE  /\ Anchors(Append(g, r)) = Anchors(g) \cup Anchors(<<r>>)
         /\ r.kind # "note" => Anchors(<<r>>) = {}
<1> DEFINE t == Append(g, r)
<1>1. /\ Of(g, "note") \subseteq 1..Len(g)
      /\ Of(t, "note") = (IF r.kind = "note" THEN Of(g, "note") \cup {Len(g) + 1} ELSE Of(g, "note"))
      /\ \A i \in Of(g, "note") : t[i] = g[i]
  BY OfGrown
<1>2. t[Len(g) + 1] = r
  BY Grown
<1>3. /\ Of(<<r>>, "note") = (IF r.kind = "note" THEN {1} ELSE {})
      /\ <<r>>[1] = r
  BY DEF Of
<1> HIDE DEF t
<1>4. Anchors(<<r>>) = (IF r.kind = "note" THEN {r.about} \ {None} ELSE {})
  BY <1>3 DEF Anchors
<1>5. \A x : x \in Anchors(t) <=> x \in Anchors(g) \/ x \in Anchors(<<r>>)
  BY <1>1, <1>2, <1>4 DEF Anchors
<1> QED
  BY <1>4, <1>5 DEF t

(* A graph stays sound when a record is added that binds it further or is  *)
(* a note it has not got.                                                  *)
LEMMA GraphSoundGrown ==
  ASSUME NEW g \in Seq(Records), NEW r \in Records, GraphSound(g),
         r.kind = "bind" => IsPrefix(Bound(g), r.model) /\ Anchors(g) \subseteq Holds(r.model),
         r.kind = "note" =>
           /\ pc[r.by] # "idle" /\ Anchors(<<r>>) \subseteq Holds(Bound(g))
           /\ \A i \in Of(g, "note") : ~(g[i].by = r.by /\ g[i].part = r.part)
           /\ r.part = "more" =>
                /\ Tool(r.by) = "carve"
                /\ \E j \in Of(g, "note") : g[j].by = r.by /\ g[j].part = "notes" /\ g[j].time = r.time
  PROVE  GraphSound(Append(g, r))
<1> DEFINE t == Append(g, r)
           N == Of(g, "note")
           n == Len(g) + 1
<1>1. /\ N \subseteq 1..Len(g) /\ Len(g) \in Nat
      /\ Of(t, "note") = (IF r.kind = "note" THEN N \cup {n} ELSE N)
      /\ \A i \in N : t[i] = g[i]
  BY OfGrown
<1>2. /\ t[n] = r /\ Len(t) = n
      /\ \A k \in 0..Len(g) : SubSeq(t, 1, k) = SubSeq(g, 1, k)
      /\ SubSeq(t, 1, n) = t
  BY Grown
<1>3. /\ Bound(g) \in Seq(Changes)
      /\ Bound(t) = (IF r.kind = "bind" THEN r.model ELSE Bound(g))
  BY BoundGrown
<1>4. Bound(t) \in Seq(Changes) /\ IsPrefix(Bound(g), Bound(t)) /\ IsPrefix(Bound(t), Bound(t))
  <2>1. Bound(t) \in Seq(Changes)
    BY <1>3, RecordKinds
  <2>2. IsPrefix(Bound(g), Bound(g)) /\ IsPrefix(Bound(t), Bound(t))
    BY <1>3, <2>1, PrefixIs
  <2> QED
    BY <1>3, <2>1, <2>2
<1>5. Anchors(t) = Anchors(g) \cup Anchors(<<r>>) /\ (r.kind # "note" => Anchors(<<r>>) = {})
  BY AnchorsGrown
<1> HIDE DEF t, n
<1>old. ASSUME NEW i \in Of(t, "note") PROVE (i \in N /\ t[i] = g[i]) \/ (i = n /\ t[i] = r /\ r.kind = "note")
  BY <1>1, <1>2
<1>in. N \subseteq Of(t, "note") /\ \A i \in N : t[i] = g[i]
  BY <1>1
<1>6. ASSUME NEW i \in Of(t, "note")
      PROVE  pc[t[i].by] # "idle" /\ (t[i].part = "more" => Tool(t[i].by) = "carve")
  <2>1. CASE i \in N /\ t[i] = g[i]
    <3>1. pc[g[i].by] # "idle" /\ (g[i].part = "more" => Tool(g[i].by) = "carve")
      BY <2>1 DEF GraphSound
    <3> QED
      BY <2>1, <3>1
  <2>2. CASE t[i] = r /\ r.kind = "note"
    BY <2>2
  <2> QED
    BY <1>old, <2>1, <2>2
<1>7. ASSUME NEW i \in Of(t, "note"), NEW j \in Of(t, "note"), t[i].by = t[j].by, t[i].part = t[j].part
      PROVE  i = j
  <2>1. CASE i \in N /\ t[i] = g[i] /\ j \in N /\ t[j] = g[j]
    BY <1>7, <2>1 DEF GraphSound
  <2>2. r.kind = "note" => \A k \in N : ~(g[k].by = r.by /\ g[k].part = r.part)
    OBVIOUS
  <2>3. CASE i = n /\ t[i] = r /\ r.kind = "note"
    BY <1>7, <1>old, <2>2, <2>3
  <2>4. CASE j = n /\ t[j] = r /\ r.kind = "note"
    BY <1>7, <1>old, <2>2, <2>4
  <2> QED
    BY <1>old, <2>1, <2>3, <2>4
<1>8. ASSUME NEW i \in Of(t, "note"), t[i].part = "more"
      PROVE  \E j \in Of(t, "note") : t[j].by = t[i].by /\ t[j].part = "notes" /\ t[j].time = t[i].time
  <2>1. \E j \in N : g[j].by = t[i].by /\ g[j].part = "notes" /\ g[j].time = t[i].time
    <3>1. CASE i \in N /\ t[i] = g[i]
      <4>1. g[i].part = "more" => \E j \in N : g[j].by = g[i].by /\ g[j].part = "notes" /\ g[j].time = g[i].time
        BY <3>1 DEF GraphSound
      <4> QED
        BY <1>8, <3>1, <4>1
    <3>2. CASE t[i] = r /\ r.kind = "note"
      BY <1>8, <3>2
    <3> QED
      BY <1>old, <3>1, <3>2
  <2>2. PICK j \in N : g[j].by = t[i].by /\ g[j].part = "notes" /\ g[j].time = t[i].time
    BY <2>1
  <2>3. t[j] = g[j] /\ j \in Of(t, "note")
    BY <1>in
  <2> QED
    BY <2>2, <2>3
<1>9. \A k \in 0..Len(t) : IsPrefix(Bound(SubSeq(t, 1, k)), Bound(t))
  <2>1. ASSUME NEW k \in 0..Len(g) PROVE IsPrefix(Bound(SubSeq(t, 1, k)), Bound(t))
    <3>1. SubSeq(g, 1, k) \in Seq(Records)
      BY SubSeqProperties
    <3>2. Bound(SubSeq(g, 1, k)) \in Seq(Changes)
      <4> DEFINE p == SubSeq(g, 1, k)
      <4>1. p \in Seq(Records)
        BY <3>1
      <4> HIDE DEF p
      <4>2. Bound(p) \in Seq(Changes)
        BY <4>1, BoundGrown
      <4> QED
        BY <4>2 DEF p
    <3>3. IsPrefix(Bound(SubSeq(g, 1, k)), Bound(g))
      BY DEF GraphSound
    <3>4. \A x, y, z \in Seq(Changes) : IsPrefix(x, y) /\ IsPrefix(y, z) => IsPrefix(x, z)
      BY PrefixIs
    <3> QED
      BY <1>2, <1>3, <1>4, <3>2, <3>3, <3>4
  <2>2. \A k \in 0..Len(t) : k \in 0..Len(g) \/ k = n
    BY <1>1, <1>2 DEF n
  <2> QED
    BY <1>2, <1>4, <2>1, <2>2
<1>10. Anchors(t) \subseteq Holds(Bound(t))
  BY <1>3, <1>5 DEF GraphSound
<1> QED
  BY <1>6, <1>7, <1>8, <1>9, <1>10 DEF GraphSound, t

(* What a graph says stays so: calls that were made stay the calls they    *)
(* were.                                                                   *)
LEMMA GraphSoundKept ==
  ASSUME NEW g, GraphSound(g), \A i \in Of(g, "note") : g[i].by \in Calls,
         \A c \in Calls : pc[c] # "idle" => pc'[c] # "idle" /\ req'[c] = req[c]
  PROVE  GraphSound(g)'
<1>1. \A i \in Of(g, "note") :
        /\ pc'[g[i].by] # "idle"
        /\ g[i].part = "more" => Tool(g[i].by)' = "carve"
  BY DEF GraphSound, Tool
<1> QED
  BY <1>1 DEF GraphSound

-----------------------------------------------------------------------------
(* Types.                                                                  *)

(* The steps of each tool, and what comes after each.                      *)
LEMMA StepsAre ==
  ASSUME NEW tool \in Tools
  PROVE  /\ tool = "carve" => StepsOf(tool) = {"revise", "rebind", "begin", "notes", "more", "done"}
         /\ tool = "breadth" => StepsOf(tool) = {"revise", "rebind", "begin", "notes", "done"}
         /\ tool = "prune" => StepsOf(tool) = {"revise", "done"}
         /\ tool = "rebind" => StepsOf(tool) = {"rebind", "done"}
         /\ tool \notin Compound \cup {"prune", "rebind"} => StepsOf(tool) = {"notes", "done"}
<1> USE DEF StepsOf, Compound
<1>1. ASSUME tool = "carve" PROVE StepsOf(tool) = {"revise", "rebind", "begin", "notes", "more", "done"}
  <2>1. Steps(tool) = <<"revise", "rebind", "begin", "notes", "more", "done">>
    BY <1>1 DEF Steps
  <2> QED
    BY <2>1
<1>2. ASSUME tool = "breadth" PROVE StepsOf(tool) = {"revise", "rebind", "begin", "notes", "done"}
  <2>1. Steps(tool) = <<"revise", "rebind", "begin", "notes", "done">>
    BY <1>2 DEF Steps
  <2> QED
    BY <2>1
<1>3. ASSUME tool = "prune" PROVE StepsOf(tool) = {"revise", "done"}
  <2>1. Steps(tool) = <<"revise", "done">>
    BY <1>3 DEF Steps
  <2> QED
    BY <2>1
<1>4. ASSUME tool = "rebind" PROVE StepsOf(tool) = {"rebind", "done"}
  <2>1. Steps(tool) = <<"rebind", "done">>
    BY <1>4 DEF Steps
  <2> QED
    BY <2>1
<1>5. ASSUME tool \notin Compound \cup {"prune", "rebind"} PROVE StepsOf(tool) = {"notes", "done"}
  <2>1. Steps(tool) = <<"notes", "done">>
    BY <1>5 DEF Steps
  <2> QED
    BY <2>1
<1> QED
  BY <1>1, <1>2, <1>3, <1>4, <1>5, Zenon

(* What comes after a step of a tool.                                      *)
LEMMA AfterIs ==
  ASSUME NEW c \in Calls, Tool(c) \in Tools, pc[c] \in StepsOf(Tool(c)), pc[c] # "done"
  PROVE  /\ After(c) \in StepsOf(Tool(c))
         /\ Tool(c) \in Compound =>
              /\ pc[c] = "revise" => After(c) = "rebind"
              /\ pc[c] = "rebind" => After(c) = "begin"
              /\ pc[c] = "begin" => After(c) = "notes"
              /\ pc[c] = "notes" => After(c) = IF Tool(c) = "carve" THEN "more" ELSE "done"
              /\ pc[c] = "more" => After(c) = "done"
         /\ Tool(c) \notin Compound => After(c) = "done"
<1> DEFINE s == Steps(Tool(c))
<1>1. ASSUME NEW n \in DOMAIN s, n > 1, s[n - 1] = pc[c],
             \A i \in DOMAIN s : i > 1 /\ s[i - 1] = pc[c] => i = n
      PROVE  After(c) = s[n]
  <2>1. (CHOOSE i \in DOMAIN s : i > 1 /\ s[i - 1] = pc[c]) = n
    BY <1>1
  <2> QED
    BY <2>1 DEF After
<1>2. CASE Tool(c) = "carve"
  <2>1. s = <<"revise", "rebind", "begin", "notes", "more", "done">>
    BY <1>2 DEF Steps
  <2>2. StepsOf(Tool(c)) = {"revise", "rebind", "begin", "notes", "more", "done"}
    BY <1>2, StepsAre
  <2>3. DOMAIN s = 1..6 /\ s[1] = "revise" /\ s[2] = "rebind" /\ s[3] = "begin" /\ s[4] = "notes" /\ s[5] = "more" /\ s[6] = "done"
    BY <2>1
  <2> HIDE DEF s
  <2>4. /\ pc[c] = "revise" => After(c) = "rebind"
        /\ pc[c] = "rebind" => After(c) = "begin"
        /\ pc[c] = "begin" => After(c) = "notes"
    BY <1>1, <2>3
  <2>5. /\ pc[c] = "notes" => After(c) = "more"
        /\ pc[c] = "more" => After(c) = "done"
    BY <1>1, <2>3
  <2> QED
    BY <1>2, <2>2, <2>4, <2>5 DEF Compound
<1>3. CASE Tool(c) = "breadth"
  <2>1. s = <<"revise", "rebind", "begin", "notes", "done">>
    BY <1>3 DEF Steps
  <2>2. StepsOf(Tool(c)) = {"revise", "rebind", "begin", "notes", "done"}
    BY <1>3, StepsAre
  <2>3. DOMAIN s = 1..5 /\ s[1] = "revise" /\ s[2] = "rebind" /\ s[3] = "begin" /\ s[4] = "notes" /\ s[5] = "done"
    BY <2>1
  <2> HIDE DEF s
  <2>4. /\ pc[c] = "revise" => After(c) = "rebind"
        /\ pc[c] = "rebind" => After(c) = "begin"
        /\ pc[c] = "begin" => After(c) = "notes"
        /\ pc[c] = "notes" => After(c) = "done"
    BY <1>1, <2>3
  <2> QED
    BY <1>3, <2>2, <2>4 DEF Compound
<1>4. CASE Tool(c) \notin Compound
  <2>1. /\ \E x \in {"revise", "rebind", "notes"} : s = <<x, "done">> /\ x # "done"
        /\ DOMAIN s = {1, 2}
    <3>1. Tool(c) = "prune" => s = <<"revise", "done">>
      BY DEF Steps
    <3>2. Tool(c) = "rebind" => s = <<"rebind", "done">>
      BY DEF Steps
    <3>3. Tool(c) \notin Compound \cup {"prune", "rebind"} => s = <<"notes", "done">>
      BY DEF Steps, Compound
    <3>4. s = <<"revise", "done">> \/ s = <<"rebind", "done">> \/ s = <<"notes", "done">>
      BY <1>4, <3>1, <3>2, <3>3
    <3> HIDE DEF s
    <3> QED
      BY <3>4
  <2>2. StepsOf(Tool(c)) = {s[1], s[2]} /\ s[2] = "done" /\ s[1] # "done"
    BY <2>1 DEF StepsOf
  <2> HIDE DEF s
  <2>3. After(c) = "done"
    BY <1>1, <2>1, <2>2
  <2> QED
    BY <1>4, <2>2, <2>3
<1> QED
  BY <1>2, <1>3, <1>4 DEF Compound

(* Where a tool may be.                                                    *)
LEMMA WhereItIs ==
  ASSUME CallsTyped, NEW c \in Calls
  PROVE  /\ Tool(c) \in Tools
         /\ pc[c] \in {"idle", "done", "revise", "rebind", "begin", "notes", "more"}
         /\ "done" \in StepsOf(Tool(c))
         /\ pc[c] = "more" => Tool(c) = "carve"
         /\ pc[c] \in {"rebind", "begin"} => Tool(c) \in Compound \cup {"rebind"}
         /\ pc[c] = "begin" => Tool(c) \in Compound
         /\ pc[c] = "notes" => Tool(c) \notin {"prune", "rebind"}
<1>1. Tool(c) \in Tools
  BY DEF CallsTyped, Requests, Tool
<1>2. pc[c] \in {"idle"} \cup StepsOf(Tool(c))
  BY DEF CallsTyped
<1>3. Tool(c) \in {"carve", "breadth", "prune", "rebind"} \/ Tool(c) \notin Compound \cup {"prune", "rebind"}
  BY DEF Compound
<1> QED
  BY <1>1, <1>2, <1>3, StepsAre DEF Compound

(* The model a call means to have.                                         *)
LEMMA ModelOfTyped ==
  ASSUME TypeOK, NEW c \in Calls
  PROVE  ModelOf(c) \in Seq(Changes)
<1>1. req[c] \in Requests
  BY DEF TypeOK, CallsTyped
<1>2. req[c].model \in Seq(Changes) /\ [by |-> req[c].by, drops |-> Tool(c) = "prune"] \in Changes
  BY <1>1 DEF Requests, Changes
<1> QED
  BY <1>2 DEF ModelOf

(* What a call writes is a record: of its binding, or of its notes.        *)
LEMMA AdditionIs ==
  ASSUME TypeOK, NEW c \in Calls, pc[c] \in Writes, NEW b \in graphs
  PROVE  LET r == Addition(c, b)
         IN  /\ r \in Records
             /\ r.kind = "bind" <=> pc[c] = "rebind"
             /\ r.kind = "bind" => r.model = ModelOf(c)
             /\ r.kind = "note" => r.by = req[c].by /\ r.part = pc[c]
             /\ Noting(c) => r.kind = "note"
             /\ pc[c] = "more" => r.time = time[c]
             /\ Tool(c) = "carve" /\ pc[c] = "notes" => r.time = time[c]
<1> DEFINE r == Addition(c, b)
<1>1. /\ Tool(c) \in Tools
      /\ pc[c] \in {"rebind", "notes", "more"}
      /\ pc[c] = "more" => Tool(c) = "carve"
      /\ pc[c] = "notes" => Tool(c) \notin {"prune", "rebind"}
  BY WhereItIs DEF TypeOK, Writes
<1>2. req[c] \in Requests /\ time[c] \in Nat
  BY DEF TypeOK, CallsTyped
<1>3. req[c].by \in Calls /\ req[c].about \in Calls \cup {None} /\ req[c].on \in BOOLEAN /\ req[c].graph \in Seq(Records)
  BY <1>2 DEF Requests
<1>4. Len(b) \in Nat /\ Len(req[c].graph) \in Nat
  BY <1>3 DEF TypeOK, StoreTyped
<1>note. ASSUME NEW t \in Nat, NEW about \in Calls \cup {None}, pc[c] \in {"notes", "more"}
         PROVE  /\ Note(c, t, about) \in Records
                /\ Note(c, t, about).kind = "note" /\ Note(c, t, about).by = req[c].by
                /\ Note(c, t, about).part = pc[c] /\ Note(c, t, about).time = t
  BY <1>note, <1>3 DEF Note, Records, NoteRecords
<1>5. CASE pc[c] = "rebind"
  <2>1. r = Binding(c)
    BY <1>5 DEF Addition
  <2>2. ModelOf(c) \in Seq(Changes)
    BY ModelOfTyped
  <2>3. Binding(c) \in [kind : {"bind"}, by : Calls, model : Seq(Changes)]
    BY <1>3, <2>2 DEF Binding
  <2>4. Binding(c).kind = "bind" /\ Binding(c).model = ModelOf(c)
    BY DEF Binding
  <2> QED
    BY <1>5, <2>1, <2>3, <2>4 DEF Records, OtherRecords, Noting
<1>6. CASE pc[c] # "rebind" /\ Tool(c) = "carve"
  <2>1. r = Note(c, time[c], req[c].by)
    BY <1>6 DEF Addition, CarveNote
  <2> QED
    BY <1>1, <1>2, <1>3, <1>6, <1>note, <2>1
<1>7. CASE pc[c] # "rebind" /\ Tool(c) = "breadth"
  <2>1. r = Note(c, Len(b), req[c].by)
    BY <1>7 DEF Addition, BreadthNote
  <2> QED
    BY <1>1, <1>3, <1>4, <1>7, <1>note, <2>1
<1>8. CASE pc[c] # "rebind" /\ Tool(c) \in {"note", "review", "memory"}
  <2>1. r = Note(c, Len(b), req[c].about) \/ r = Note(c, Len(req[c].graph), req[c].about)
    BY <1>8 DEF Addition, UnderstandingNote, ReviewNote, MemoryEntry
  <2> QED
    BY <1>1, <1>3, <1>4, <1>8, <1>note, <2>1
<1>9. CASE pc[c] # "rebind" /\ Tool(c) = "configure"
  <2>1. r = TranscriptSetting(c)
    BY <1>9 DEF Addition
  <2>2. TranscriptSetting(c) \in [kind : {"setting"}, by : Calls, on : BOOLEAN] /\ TranscriptSetting(c).kind = "setting"
    BY <1>3 DEF TranscriptSetting
  <2> QED
    BY <1>1, <1>9, <2>1, <2>2 DEF Records, OtherRecords, Noting, Compound
<1>10. CASE pc[c] # "rebind" /\ Tool(c) = "capture"
  <2>1. r = TranscriptMessage(c)
    BY <1>10 DEF Addition
  <2>2. TranscriptMessage(c) \in [kind : {"message"}, by : Calls] /\ TranscriptMessage(c).kind = "message"
    BY <1>3 DEF TranscriptMessage
  <2> QED
    BY <1>1, <1>10, <2>1, <2>2 DEF Records, OtherRecords, Noting, Compound
<1> QED
  BY <1>1, <1>5, <1>6, <1>7, <1>8, <1>9, <1>10 DEF Tools, Recorders, Keepers, Compound

-----------------------------------------------------------------------------
(* What a step of one call leaves as it was.                               *)

OthersStay(c) ==
  \A d \in Calls \ {c} :
    /\ req'[d] = req[d] /\ before'[d] = before[d] /\ pc'[d] = pc[d] /\ at'[d] = at[d]
    /\ base'[d] = base[d] /\ time'[d] = time[d] /\ told'[d] = told[d]

(* A call that was made stays what it was.                                 *)
MadeStay ==
  /\ \A d \in Calls : pc[d] # "idle" => pc'[d] # "idle" /\ req'[d] = req[d] /\ before'[d] = before[d]
  /\ unlisted \subseteq unlisted'

(* A call's own part of the invariant.                                     *)
CallFits(c) ==
  /\ FoundLate(c) /\ BoundRight(c) /\ BegunRight(c) /\ Ended(c)
  /\ \A d \in before[c] : pc[d] = "done"

(* Another call's step adds nothing beside what this one means to write    *)
(* that ended before this one was made: it is still under way.             *)
LEMMA OthersFit ==
  ASSUME IInv, NEW c \in Calls, OthersStay(c), pc[c] # "done", unlisted \subseteq unlisted',
         DOMAIN receipts \subseteq DOMAIN receipts',
         \A g \in graphs' : IF g \in graphs THEN writer'[g] = writer[g] ELSE writer'[g] = c,
         NEW d \in Calls \ {c}
  PROVE  CallFits(d)'
<1>1. /\ req'[d] = req[d] /\ before'[d] = before[d] /\ pc'[d] = pc[d] /\ at'[d] = at[d]
      /\ base'[d] = base[d] /\ time'[d] = time[d] /\ told'[d] = told[d]
  BY DEF OthersStay
<1>2. /\ Tool(d)' = Tool(d) /\ ModelOf(d)' = ModelOf(d)
      /\ \A step : Key(d, step)' = Key(d, step)
      /\ Key(d, pc[d])' = <<req[d].by, pc[d]>>
  BY <1>1 DEF Tool, ModelOf, Key
<1>3. FoundLate(d) /\ BoundRight(d) /\ BegunRight(d) /\ Ended(d)
  BY DEF IInv, Sound
<1>4. \A e \in before[d] : pc[e] = "done" /\ pc'[e] = "done"
  <2>1. before[d] \subseteq Calls
    BY DEF IInv, TypeOK, CallsTyped
  <2>2. \A e \in before[d] : pc[e] = "done"
    BY DEF IInv, Sound, BeforeDone
  <2> QED
    BY <2>1, <2>2 DEF OthersStay
<1>5. FoundLate(d)'
  <2> SUFFICES ASSUME pc[d] \in Writes, base[d] # None, Tool(d) # "rebind", d \notin unlisted,
                      <<req[d].by, pc[d]>> \notin DOMAIN receipts,
                      NEW g \in graphs' \ {<<>>}, Front(g) = base[d]
               PROVE  writer'[g] \notin before[d]
    BY <1>1, <1>2 DEF FoundLate, Key
  <2>1. CASE g \in graphs
    BY <1>3, <2>1 DEF FoundLate, Key
  <2>2. CASE g \notin graphs
    BY <1>4, <2>2
  <2> QED
    BY <2>1, <2>2
<1>6. BoundRight(d)'
  BY <1>1, <1>2, <1>3 DEF BoundRight, Noting
<1>7. BegunRight(d)'
  BY <1>1, <1>2, <1>3 DEF BegunRight, Key
<1>8. Ended(d)'
  BY <1>1, <1>2, <1>3 DEF Ended
<1> QED
  BY <1>1, <1>4, <1>5, <1>6, <1>7, <1>8 DEF CallFits

(* Positions of notes hold notes.                                          *)
LEMMA NotesTyped ==
  ASSUME StoreTyped, NEW g \in graphs
  PROVE  /\ g \in Seq(Records)
         /\ \A i \in Of(g, "note") : i \in 1..Len(g) /\ g[i] \in NoteRecords /\ g[i].by \in Calls
<1>1. g \in Seq(Records)
  BY DEF StoreTyped
<1>2. \A i \in Of(g, "note") : i \in 1..Len(g) /\ g[i] \in Records /\ g[i].kind = "note"
  BY <1>1 DEF Of
<1> QED
  BY <1>1, <1>2, RecordKinds DEF NoteRecords

(* The graphs that were there stay sound, their writers made, and what was *)
(* received bound as it was.                                               *)
LEMMA StoreFits ==
  ASSUME IInv, MadeStay
  PROVE  /\ \A g \in graphs : GraphSound(g)'
         /\ \A g \in graphs \ {<<>>} : pc'[writer[g]] # "idle"
         /\ \A k \in DOMAIN receipts :
              /\ pc'[k[1]] # "idle"
              /\ k[2] \in {"notes", "more"} /\ Tool(k[1])' \in Compound
                   => IsPrefix(ModelOf(k[1])', Bound(receipts[k].base))
<1>1. ASSUME NEW g \in graphs PROVE GraphSound(g)'
  <2>1. GraphSound(g) /\ \A i \in Of(g, "note") : g[i].by \in Calls
    BY NotesTyped DEF IInv, Sound, TypeOK
  <2> QED
    BY <2>1, GraphSoundKept DEF MadeStay
<1>2. ASSUME NEW g \in graphs \ {<<>>} PROVE pc'[writer[g]] # "idle"
  BY DEF IInv, Sound, WritersMade, TypeOK, StoreTyped, MadeStay
<1>3. ASSUME NEW k \in DOMAIN receipts
      PROVE  /\ pc'[k[1]] # "idle"
             /\ k[2] \in {"notes", "more"} /\ Tool(k[1])' \in Compound
                  => IsPrefix(ModelOf(k[1])', Bound(receipts[k].base))
  <2>1. k \in Calls \X (Writes \cup {"revise"})
    BY DEF IInv, TypeOK, ReceiptsTyped
  <2>2. /\ k[1] \in Calls /\ pc[k[1]] # "idle"
        /\ k[2] \in {"notes", "more"} /\ Tool(k[1]) \in Compound
             => IsPrefix(ModelOf(k[1]), Bound(receipts[k].base))
    BY <2>1 DEF IInv, Sound, ReceiptsBound
  <2>3. pc'[k[1]] # "idle" /\ req'[k[1]] = req[k[1]]
    BY <2>2 DEF MadeStay
  <2>4. Tool(k[1])' = Tool(k[1]) /\ ModelOf(k[1])' = ModelOf(k[1])
    BY <2>3 DEF Tool, ModelOf
  <2> QED
    BY <2>2, <2>3, <2>4
<1> QED
  BY <1>1, <1>2, <1>3

(* Two revisions that were there are apart as they were.                   *)
LEMMA RacesStay ==
  ASSUME IInv, MadeStay, NEW g \in graphs \ {<<>>}, NEW h \in graphs \ {<<>>}, g # h, Front(g) = Front(h),
         writer'[g] = writer[g], writer'[h] = writer[h]
  PROVE  \/ Overlap(writer[g], writer[h])'
         \/ \E k \in {g, h} : Tool(writer[k])' = "rebind" \/ writer'[k] \in unlisted'
<1>1. \A k \in {g, h} : writer[k] \in Calls /\ pc[writer[k]] # "idle"
  BY DEF IInv, TypeOK, StoreTyped, Sound, WritersMade
<1>2. \A k \in {g, h} : req'[writer[k]] = req[writer[k]] /\ before'[writer[k]] = before[writer[k]]
  BY <1>1 DEF MadeStay
<1>3. \/ Overlap(writer[g], writer[h])
      \/ \E k \in {g, h} : Tool(writer[k]) = "rebind" \/ writer[k] \in unlisted
  BY DEF IInv, ForksAreRaces
<1>4. Overlap(writer[g], writer[h]) => Overlap(writer[g], writer[h])'
  BY <1>2 DEF Overlap
<1>5. \A k \in {g, h} : Tool(writer[k])' = Tool(writer[k])
  BY <1>2 DEF Tool
<1> QED
  BY <1>3, <1>4, <1>5 DEF MadeStay

(* A step of one call that writes no graph.                                *)
LEMMA QuietStep ==
  ASSUME IInv, TypeOK', RequestsAgree', NEW c \in Calls, pc[c] # "done", OthersStay(c), MadeStay,
         graphs' = graphs, writer' = writer,
         \A k \in DOMAIN receipts : k \in DOMAIN receipts' /\ receipts'[k] = receipts[k],
         \A k \in DOMAIN receipts' \ DOMAIN receipts : pc'[k[1]] # "idle" /\ k[2] = "revise",
         CallFits(c)'
  PROVE  IInv'
<1>1. \A d \in Calls : CallFits(d)'
  <2>1. DOMAIN receipts \subseteq DOMAIN receipts' /\ unlisted \subseteq unlisted'
    BY DEF MadeStay
  <2>2. \A d \in Calls \ {c} : CallFits(d)'
    BY <2>1, OthersFit
  <2> QED
    BY <2>2
<1>2. BeforeDone' /\ \A d \in Calls : FoundLate(d)' /\ BoundRight(d)' /\ BegunRight(d)' /\ Ended(d)'
  BY <1>1 DEF CallFits, BeforeDone
<1>3. (\A g \in graphs : GraphSound(g))' /\ WritersMade'
  BY StoreFits DEF WritersMade
<1>4. ReceiptsBound'
  <2> SUFFICES ASSUME NEW k \in DOMAIN receipts'
               PROVE  /\ pc'[k[1]] # "idle"
                      /\ k[2] \in {"notes", "more"} /\ Tool(k[1])' \in Compound
                           => IsPrefix(ModelOf(k[1])', Bound(receipts'[k].base))
    BY DEF ReceiptsBound, Bound, Of
  <2>1. CASE k \in DOMAIN receipts
    BY <2>1, StoreFits
  <2>2. CASE k \notin DOMAIN receipts
    BY <2>2
  <2> QED
    BY <2>1, <2>2
<1>5. ForksAreRaces'
  <2> SUFFICES ASSUME NEW g \in graphs \ {<<>>}, NEW h \in graphs \ {<<>>}, g # h, Front(g) = Front(h)
               PROVE  \/ Overlap(writer[g], writer[h])'
                      \/ \E k \in {g, h} : Tool(writer[k])' = "rebind" \/ writer'[k] \in unlisted'
    BY DEF ForksAreRaces
  <2> QED
    BY RacesStay
<1> QED
  BY <1>2, <1>3, <1>4, <1>5 DEF IInv, Sound

-----------------------------------------------------------------------------
(* How a call goes on, or ends.                                            *)

InFlight(c) == pc[c] \notin {"idle", "done"}

(* The other calls are not touched.                                        *)
LEMMA MoveStays ==
  ASSUME CallsTyped, NEW c \in Calls, UNCHANGED <<req, before>>,
         (\E v : End(c, v)) \/ (\E g : Proceed(c, g))
  PROVE  OthersStay(c)
<1>1. \A d \in Calls \ {c} : req'[d] = req[d] /\ before'[d] = before[d]
  OBVIOUS
<1>2. ASSUME NEW v, End(c, v), NEW d \in Calls \ {c}
      PROVE  /\ pc'[d] = pc[d] /\ at'[d] = at[d] /\ base'[d] = base[d]
             /\ time'[d] = time[d] /\ told'[d] = told[d]
  BY <1>2 DEF End, CallsTyped
<1>3. ASSUME NEW g, Proceed(c, g), NEW d \in Calls \ {c}
      PROVE  /\ pc'[d] = pc[d] /\ at'[d] = at[d] /\ base'[d] = base[d]
             /\ time'[d] = time[d] /\ told'[d] = told[d]
  BY <1>3 DEF Proceed, CallsTyped
<1> QED
  BY <1>1, <1>2, <1>3 DEF OthersStay

(* A call that ends with an error means to write nothing more.             *)
LEMMA EndFits ==
  ASSUME IInv, NEW c \in Calls, NEW v \in {"error", "conflict"}, End(c, v), InFlight(c),
         req' = req, before' = before
  PROVE  /\ CallFits(c)'
         /\ pc' \in [Calls -> {"idle", "revise", "rebind", "begin", "notes", "more", "done"}]
         /\ \A d \in Calls : /\ pc'[d] \in {"idle"} \cup StepsOf(Tool(d))
                             /\ told'[d] = "ok" => pc'[d] = "done"
         /\ at' \in [Calls -> graphs] /\ base' \in [Calls -> graphs \cup {None}]
         /\ time' \in [Calls -> Nat]
         /\ told' \in [Calls -> {"nothing", "ok", "error", "conflict", "lost"}]
<1>1. CallsTyped /\ <<>> \in graphs
  BY DEF IInv, TypeOK, StoreTyped
<1>2. pc'[c] = "done" /\ told'[c] = v /\ time'[c] = 0
  BY <1>1 DEF End, CallsTyped
<1>3. OthersStay(c)
  BY <1>1, MoveStays
<1>4. pc' = [pc EXCEPT ![c] = "done"] /\ told' = [told EXCEPT ![c] = v] /\ at' = [at EXCEPT ![c] = <<>>]
      /\ base' = [base EXCEPT ![c] = None] /\ time' = [time EXCEPT ![c] = 0]
  BY DEF End
<1>5. /\ pc' \in [Calls -> {"idle", "revise", "rebind", "begin", "notes", "more", "done"}]
      /\ at' \in [Calls -> graphs] /\ base' \in [Calls -> graphs \cup {None}]
      /\ time' \in [Calls -> Nat]
      /\ told' \in [Calls -> {"nothing", "ok", "error", "conflict", "lost"}]
  BY <1>1, <1>4 DEF CallsTyped
<1>6. ASSUME NEW d \in Calls
      PROVE  pc'[d] \in {"idle"} \cup StepsOf(Tool(d)) /\ (told'[d] = "ok" => pc'[d] = "done")
  <2>1. CASE d = c
    BY <1>1, <1>2, <2>1, WhereItIs
  <2>2. CASE d # c
    BY <1>1, <1>3, <2>2 DEF OthersStay, CallsTyped
  <2> QED
    BY <2>1, <2>2
<1>7. \A d \in before'[c] : pc'[d] = "done"
  <2>1. \A d \in before[c] : d \in Calls /\ pc[d] = "done"
    BY <1>1 DEF IInv, Sound, BeforeDone, CallsTyped
  <2> QED
    BY <1>2, <1>3, <2>1 DEF OthersStay
<1>8. CallFits(c)'
  BY <1>2, <1>7 DEF CallFits, FoundLate, BoundRight, BegunRight, Ended, Noting, Writes
<1> QED
  BY <1>5, <1>6, <1>8

(* A compound tool goes on from a line that holds its model and, once it   *)
(* has noted, its note.                                                    *)
LEMMA ProceedFits ==
  ASSUME IInv, NEW c \in Calls, NEW g \in graphs', Proceed(c, g), InFlight(c), pc[c] # "begin",
         req' = req, before' = before, graphs \subseteq graphs', StoreTyped',
         Tool(c) \in Compound /\ pc[c] = "rebind" => IsPrefix(ModelOf(c), Bound(g)),
         Noting(c) =>
           /\ IsPrefix(ModelOf(c), Bound(g)) /\ g # <<>>
           /\ LET r == g[Len(g)]
              IN  /\ r.kind = "note" /\ r.by = req[c].by /\ r.part = pc[c]
                  /\ Tool(c) = "carve" /\ pc[c] = "notes" => r.time = time[c]
  PROVE  /\ CallFits(c)'
         /\ pc' \in [Calls -> {"idle", "revise", "rebind", "begin", "notes", "more", "done"}]
         /\ \A d \in Calls : /\ pc'[d] \in {"idle"} \cup StepsOf(Tool(d))
                             /\ told'[d] = "ok" => pc'[d] = "done"
         /\ at' \in [Calls -> graphs'] /\ base' \in [Calls -> graphs' \cup {None}]
         /\ time' \in [Calls -> Nat]
         /\ told' \in [Calls -> {"nothing", "ok", "error", "conflict", "lost"}]
<1>1. CallsTyped
  BY DEF IInv, TypeOK
<1>2. /\ Tool(c) \in Tools /\ pc[c] \in StepsOf(Tool(c)) /\ pc[c] # "done"
      /\ pc[c] \in {"revise", "rebind", "notes", "more"}
      /\ pc[c] = "more" => Tool(c) = "carve"
  BY <1>1, WhereItIs DEF InFlight, CallsTyped
<1>3. After(c) \in StepsOf(Tool(c))
  BY <1>2, AfterIs
<1>4. /\ pc'[c] = After(c) /\ at'[c] = g /\ base'[c] = None
      /\ told'[c] = (IF After(c) = "done" THEN "ok" ELSE told[c])
      /\ After(c) # "done" => time'[c] = time[c]
  BY <1>1 DEF Proceed, CallsTyped
<1>5. OthersStay(c)
  BY <1>1, MoveStays
<1>6. After(c) \in {"revise", "rebind", "begin", "notes", "more", "done"}
  <2>1. Tool(c) = "carve" \/ Tool(c) = "breadth" \/ Tool(c) = "prune" \/ Tool(c) = "rebind"
          \/ Tool(c) \notin Compound \cup {"prune", "rebind"}
    BY DEF Compound
  <2> QED
    BY <1>2, <1>3, <2>1, StepsAre
<1>7. /\ pc' \in [Calls -> {"idle", "revise", "rebind", "begin", "notes", "more", "done"}]
      /\ at' \in [Calls -> graphs'] /\ base' \in [Calls -> graphs' \cup {None}]
      /\ time' \in [Calls -> Nat]
      /\ told' \in [Calls -> {"nothing", "ok", "error", "conflict", "lost"}]
  <2>1. pc' = [pc EXCEPT ![c] = After(c)] /\ at' = [at EXCEPT ![c] = g] /\ base' = [base EXCEPT ![c] = None]
    BY DEF Proceed
  <2>2. told' = [told EXCEPT ![c] = "ok"] \/ told' = [told EXCEPT ![c] = told[c]]
    BY <1>1 DEF Proceed
  <2>3. time' = [time EXCEPT ![c] = 0] \/ time' = [time EXCEPT ![c] = time[c]]
    BY <1>1 DEF Proceed
  <2>4. pc' \in [Calls -> {"idle", "revise", "rebind", "begin", "notes", "more", "done"}]
    BY <1>1, <1>6, <2>1 DEF CallsTyped
  <2>5. at \in [Calls -> graphs'] /\ base \in [Calls -> graphs' \cup {None}]
    BY <1>1 DEF CallsTyped
  <2>6. at' \in [Calls -> graphs'] /\ base' \in [Calls -> graphs' \cup {None}]
    BY <2>1, <2>5
  <2>7. time' \in [Calls -> Nat]
    BY <1>1, <2>3 DEF CallsTyped
  <2>8. told' \in [Calls -> {"nothing", "ok", "error", "conflict", "lost"}]
    BY <1>1, <2>2 DEF CallsTyped
  <2> QED
    BY <2>4, <2>6, <2>7, <2>8
<1>8. ASSUME NEW d \in Calls
      PROVE  pc'[d] \in {"idle"} \cup StepsOf(Tool(d)) /\ (told'[d] = "ok" => pc'[d] = "done")
  <2>1. CASE d = c
    BY <1>1, <1>2, <1>3, <1>4, <2>1 DEF CallsTyped
  <2>2. CASE d # c
    BY <1>1, <1>5, <2>2 DEF OthersStay, CallsTyped
  <2> QED
    BY <2>1, <2>2
<1>9. \A d \in before'[c] : pc'[d] = "done"
  <2>1. \A d \in before[c] : d \in Calls /\ pc[d] = "done"
    BY <1>1 DEF IInv, Sound, BeforeDone, CallsTyped
  <2>2. c \notin before[c]
    BY <1>2, <2>1
  <2> QED
    BY <1>5, <2>1, <2>2 DEF OthersStay
<1>10. Tool(c)' = Tool(c) /\ ModelOf(c)' = ModelOf(c) /\ req'[c] = req[c]
  BY DEF Tool, ModelOf
<1>11. FoundLate(c)'
  BY <1>4 DEF FoundLate
<1>12. Tool(c) \in Compound /\ pc'[c] \in {"begin", "notes", "more"} => IsPrefix(ModelOf(c), Bound(g))
  BY <1>2, <1>4, AfterIs DEF Noting
<1>13. BoundRight(c)'
  BY <1>4, <1>10, <1>12 DEF BoundRight, Noting
<1>14. pc'[c] = "more" => pc[c] = "notes" /\ Tool(c) = "carve"
  BY <1>2, <1>4, AfterIs DEF Compound
<1>15. Noting(c) => LET r == g[Len(g)] IN Len(g) \in Of(g, "note")
  <2> SUFFICES ASSUME Noting(c) PROVE Len(g) \in Of(g, "note")
    OBVIOUS
  <2>1. g \in Seq(Records)
    BY DEF StoreTyped
  <2>2. Len(g) \in DOMAIN g
    BY <2>1, EmptySeq
  <2> QED
    BY <2>2 DEF Of
<1>16. BegunRight(c)'
  <2> SUFFICES ASSUME pc'[c] = "more"
               PROVE  \E j \in Of(g, "note") : g[j].by = req[c].by /\ g[j].part = "notes" /\ g[j].time = time[c]
    BY <1>4, <1>10 DEF BegunRight
  <2>1. Noting(c) /\ pc[c] = "notes" /\ Tool(c) = "carve"
    BY <1>14 DEF Noting, Compound
  <2> QED
    BY <1>15, <2>1
<1>17. Ended(c)'
  <2> SUFFICES ASSUME told'[c] = "ok", Tool(c) \in Compound
               PROVE  /\ g # <<>>
                      /\ LET r == g[Len(g)]
                         IN r.kind = "note" /\ r.by = req[c].by /\ r.part = (IF Tool(c) = "carve" THEN "more" ELSE "notes")
                      /\ IsPrefix(ModelOf(c), Bound(g))
    BY <1>4, <1>10 DEF Ended
  <2>1. After(c) = "done"
    BY <1>1, <1>2, <1>4 DEF CallsTyped
  <2>2. (pc[c] = "notes" /\ Tool(c) # "carve") \/ (pc[c] = "more" /\ Tool(c) = "carve")
    BY <1>2, <2>1, AfterIs
  <2>3. Noting(c)
    BY <2>2 DEF Noting
  <2> QED
    BY <2>2, <2>3
<1> QED
  BY <1>7, <1>8, <1>9, <1>11, <1>13, <1>16, <1>17 DEF CallFits

(* A call that ends, or goes on from a graph that is there.                *)
LEMMA MoveTyped ==
  ASSUME CallsTyped, UNCHANGED <<req, before, unlisted>>, graphs \subseteq graphs', models \subseteq models',
         pc' \in [Calls -> {"idle", "revise", "rebind", "begin", "notes", "more", "done"}],
         \A d \in Calls : /\ pc'[d] \in {"idle"} \cup StepsOf(Tool(d))
                          /\ told'[d] = "ok" => pc'[d] = "done",
         at' \in [Calls -> graphs'], base' \in [Calls -> graphs' \cup {None}],
         time' \in [Calls -> Nat],
         told' \in [Calls -> {"nothing", "ok", "error", "conflict", "lost"}]
  PROVE  CallsTyped'
<1>1. \A d \in Calls : Tool(d)' = Tool(d)
  BY DEF Tool
<1>2. req' \in [Calls -> Requests] /\ \A d \in Calls : req'[d].graph \in graphs' /\ req'[d].model \in models'
  BY DEF CallsTyped
<1>3. before' \in [Calls -> SUBSET Calls] /\ unlisted' \subseteq Calls
  BY DEF CallsTyped
<1> QED
  BY <1>1, <1>2, <1>3 DEF CallsTyped

(* A call that goes on or ends was made, and stays the request it was.     *)
LEMMA MoveMade ==
  ASSUME CallsTyped, NEW c \in Calls, UNCHANGED <<req, before, unlisted>>,
         (\E v : End(c, v)) \/ (\E g : Proceed(c, g)), InFlight(c)
  PROVE  MadeStay /\ OthersStay(c) /\ (RequestsAgree => RequestsAgree')
<1>1. OthersStay(c)
  BY MoveStays
<1>2. pc'[c] # "idle"
  <2>1. CASE \E v : End(c, v)
    BY <2>1 DEF End, CallsTyped
  <2>2. CASE \E g : Proceed(c, g)
    <3>1. Tool(c) \in Tools /\ pc[c] \in StepsOf(Tool(c)) /\ pc[c] # "done"
      BY WhereItIs DEF InFlight, CallsTyped
    <3>2. After(c) \in StepsOf(Tool(c))
      BY <3>1, AfterIs
    <3>3. Tool(c) = "carve" \/ Tool(c) = "breadth" \/ Tool(c) = "prune" \/ Tool(c) = "rebind"
            \/ Tool(c) \notin Compound \cup {"prune", "rebind"}
      BY DEF Compound
    <3>4. After(c) # "idle"
      BY <3>1, <3>2, <3>3, StepsAre
    <3> QED
      BY <2>2, <3>4 DEF Proceed, CallsTyped
  <2> QED
    BY <2>1, <2>2
<1>3. \A d \in Calls : pc'[d] # "idle" <=> pc[d] # "idle"
  BY <1>1, <1>2 DEF OthersStay, InFlight
<1>4. MadeStay
  BY <1>3 DEF MadeStay
<1>5. ASSUME RequestsAgree PROVE RequestsAgree'
  <2>1. \A d \in Calls : req[d].by \in Calls
    BY DEF CallsTyped, Requests
  <2> QED
    BY <1>3, <1>5, <2>1 DEF RequestsAgree
<1> QED
  BY <1>1, <1>4, <1>5

-----------------------------------------------------------------------------
(* The steps.                                                              *)

(* A step of a call that writes no graph and then ends, or goes on.        *)
LEMMA EndKeeps ==
  ASSUME IInv, NEW c \in Calls, NEW v \in {"error", "conflict"}, End(c, v), InFlight(c),
         UNCHANGED <<req, before, unlisted, graphs, writer>>, StoreTyped', ReceiptsTyped',
         models \subseteq models',
         \A k \in DOMAIN receipts : k \in DOMAIN receipts' /\ receipts'[k] = receipts[k],
         \A k \in DOMAIN receipts' \ DOMAIN receipts : k[1] = req[c].by /\ k[2] = "revise"
  PROVE  IInv'
<1>1. CallsTyped /\ RequestsAgree
  BY DEF IInv, TypeOK
<1>2. MadeStay /\ OthersStay(c) /\ RequestsAgree'
  BY <1>1, MoveMade
<1>3. CallFits(c)' /\ CallsTyped'
  <2>1. /\ CallFits(c)'
        /\ pc' \in [Calls -> {"idle", "revise", "rebind", "begin", "notes", "more", "done"}]
        /\ \A d \in Calls : /\ pc'[d] \in {"idle"} \cup StepsOf(Tool(d))
                            /\ told'[d] = "ok" => pc'[d] = "done"
        /\ at' \in [Calls -> graphs] /\ base' \in [Calls -> graphs \cup {None}]
        /\ time' \in [Calls -> Nat]
        /\ told' \in [Calls -> {"nothing", "ok", "error", "conflict", "lost"}]
    BY EndFits
  <2> QED
    BY <1>1, <2>1, MoveTyped
<1>4. TypeOK'
  BY <1>3 DEF TypeOK
<1>5. pc'[req[c].by] # "idle"
  <2>1. req[c].by \in Calls /\ pc[req[c].by] # "idle"
    BY <1>1 DEF RequestsAgree, InFlight, CallsTyped, Requests
  <2> QED
    BY <1>2, <2>1 DEF MadeStay
<1>6. pc[c] # "done"
  BY DEF InFlight
<1>7. \A k \in DOMAIN receipts' \ DOMAIN receipts : pc'[k[1]] # "idle" /\ k[2] = "revise"
  BY <1>5
<1> QED
  BY <1>2, <1>3, <1>4, <1>6, <1>7, QuietStep

(* The same of a call that goes on from a revision of the store.           *)
LEMMA ProceedKeeps ==
  ASSUME IInv, NEW c \in Calls, NEW g \in graphs, Proceed(c, g), InFlight(c), pc[c] # "begin",
         UNCHANGED <<req, before, unlisted, graphs, writer, receipts>>, StoreTyped', ReceiptsTyped',
         models \subseteq models',
         Tool(c) \in Compound /\ pc[c] = "rebind" => IsPrefix(ModelOf(c), Bound(g)),
         Noting(c) =>
           /\ IsPrefix(ModelOf(c), Bound(g)) /\ g # <<>>
           /\ LET r == g[Len(g)]
              IN  /\ r.kind = "note" /\ r.by = req[c].by /\ r.part = pc[c]
                  /\ Tool(c) = "carve" /\ pc[c] = "notes" => r.time = time[c]
  PROVE  IInv'
<1>1. CallsTyped /\ RequestsAgree
  BY DEF IInv, TypeOK
<1>2. MadeStay /\ OthersStay(c) /\ RequestsAgree'
  BY <1>1, MoveMade
<1>3. CallFits(c)' /\ CallsTyped'
  <2>1. /\ CallFits(c)'
        /\ pc' \in [Calls -> {"idle", "revise", "rebind", "begin", "notes", "more", "done"}]
        /\ \A d \in Calls : /\ pc'[d] \in {"idle"} \cup StepsOf(Tool(d))
                            /\ told'[d] = "ok" => pc'[d] = "done"
        /\ at' \in [Calls -> graphs'] /\ base' \in [Calls -> graphs' \cup {None}]
        /\ time' \in [Calls -> Nat]
        /\ told' \in [Calls -> {"nothing", "ok", "error", "conflict", "lost"}]
    BY ProceedFits
  <2> QED
    BY <1>1, <2>1, MoveTyped
<1>4. TypeOK'
  BY <1>3 DEF TypeOK
<1>5. pc[c] # "done"
  BY DEF InFlight
<1> QED
  BY <1>2, <1>3, <1>4, <1>5, QuietStep

(* A revision of the model adds to the store, and marks an uncertain       *)
(* request.                                                                *)
LEMMA ReviseKeeps == ASSUME IInv, NEW c \in Calls, Revise(c) PROVE IInv'
<1>0. /\ pc[c] = "revise" /\ UNCHANGED <<graphs, writer, req, before, unlisted>>
      /\ InFlight(c) /\ ~Noting(c)
  BY DEF Revise, inputVars, InFlight, Noting
<1>1. CallsTyped /\ StoreTyped /\ ReceiptsTyped
  BY DEF IInv, TypeOK
<1>2. ModelOf(c) \in Seq(Changes) /\ Key(c, "revise") \in Calls \X (Writes \cup {"revise"})
  <2>1. req[c].by \in Calls
    BY <1>1 DEF CallsTyped, Requests
  <2> QED
    BY <2>1, ModelOfTyped DEF IInv, Key
<1>3. ASSUME models' \in {models, models \cup {ModelOf(c)}} PROVE StoreTyped' /\ models \subseteq models'
  BY <1>0, <1>1, <1>2, <1>3 DEF StoreTyped
<1>4. ASSUME receipts' = receipts, faults' \in Nat PROVE ReceiptsTyped'
  BY <1>0, <1>1, <1>4 DEF ReceiptsTyped
<1>5. CASE Proceed(c, at[c]) /\ models' = models \cup {ModelOf(c)} /\ UNCHANGED <<receipts, faults>>
  <2>1. at[c] \in graphs /\ faults \in Nat
    BY <1>1 DEF CallsTyped, ReceiptsTyped
  <2>2. StoreTyped' /\ ReceiptsTyped' /\ models \subseteq models'
    BY <1>3, <1>4, <1>5, <2>1
  <2> QED
    BY <1>0, <1>5, <2>1, <2>2, ProceedKeeps
<1>6. CASE /\ End(c, "error") /\ (Fault \/ faults' = faults)
           /\ \/ UNCHANGED <<models, receipts>>
              \/ /\ Key(c, "revise") \notin DOMAIN receipts
                 /\ models' \in {models, models \cup {ModelOf(c)}}
                 /\ receipts' = [k \in DOMAIN receipts \cup {Key(c, "revise")} |->
                      IF k \in DOMAIN receipts THEN receipts[k]
                      ELSE [base |-> <<>>, record |-> None, sure |-> FALSE]]
  <2>1. faults' \in Nat
    BY <1>1, <1>6, RecordsAssumption DEF Fault, ReceiptsTyped
  <2>2. CASE UNCHANGED <<models, receipts>>
    <3>1. StoreTyped' /\ ReceiptsTyped' /\ models \subseteq models'
      BY <1>3, <1>4, <2>1, <2>2
    <3> QED
      BY <1>0, <1>6, <2>2, <3>1, EndKeeps
  <2>3. CASE /\ Key(c, "revise") \notin DOMAIN receipts
             /\ models' \in {models, models \cup {ModelOf(c)}}
             /\ receipts' = [k \in DOMAIN receipts \cup {Key(c, "revise")} |->
                  IF k \in DOMAIN receipts THEN receipts[k]
                  ELSE [base |-> <<>>, record |-> None, sure |-> FALSE]]
    <3>1. StoreTyped' /\ models \subseteq models'
      BY <1>3, <2>3
    <3>2. /\ DOMAIN receipts' = DOMAIN receipts \cup {Key(c, "revise")}
          /\ \A k \in DOMAIN receipts : k \in DOMAIN receipts' /\ receipts'[k] = receipts[k]
          /\ receipts'[Key(c, "revise")] = [base |-> <<>>, record |-> None, sure |-> FALSE]
      BY <2>3
    <3>3. ReceiptsTyped'
      <4>1. [base |-> <<>>, record |-> None, sure |-> FALSE] \in [base : graphs, record : Records \cup {None}, sure : BOOLEAN]
        BY <1>1 DEF StoreTyped
      <4>2. [base |-> <<>>, record |-> None, sure |-> FALSE].sure = FALSE
        OBVIOUS
      <4>3. ASSUME NEW k \in DOMAIN receipts'
            PROVE  /\ k \in Calls \X (Writes \cup {"revise"})
                   /\ receipts'[k] \in [base : graphs', record : Records \cup {None}, sure : BOOLEAN]
                   /\ receipts'[k].sure => Append(receipts'[k].base, receipts'[k].record) \in graphs'
        <5>1. CASE k \in DOMAIN receipts
          BY <1>0, <1>1, <3>2, <5>1 DEF ReceiptsTyped
        <5>2. CASE k = Key(c, "revise")
          BY <1>0, <1>2, <3>2, <4>1, <4>2, <5>2
        <5> QED
          BY <3>2, <5>1, <5>2
      <4> QED
        BY <2>1, <4>3 DEF ReceiptsTyped
    <3>4. \A k \in DOMAIN receipts' \ DOMAIN receipts : k[1] = req[c].by /\ k[2] = "revise"
      BY <3>2 DEF Key
    <3> QED
      BY <1>0, <1>6, <3>1, <3>2, <3>3, <3>4, EndKeeps
  <2> QED
    BY <1>6, <2>2, <2>3
<1> QED
  BY <1>5, <1>6 DEF Revise

(* A later revision is bound to a successor.                               *)
LEMMA BoundOnward ==
  ASSUME IInv, NEW g \in graphs, NEW h \in graphs, IsPrefix(g, h), NEW m \in Seq(Changes)
  PROVE  /\ Bound(g) \in Seq(Changes) /\ IsPrefix(Bound(g), Bound(h))
         /\ IsPrefix(m, Bound(g)) => IsPrefix(m, Bound(h))
<1>1. g \in Seq(Records) /\ h \in Seq(Records)
  BY DEF IInv, TypeOK, StoreTyped
<1>2. Len(g) <= Len(h) /\ g = SubSeq(h, 1, Len(g)) /\ Len(g) \in Nat /\ Len(h) \in Nat
  BY <1>1, PrefixIs
<1>3. Bound(g) \in Seq(Changes) /\ Bound(h) \in Seq(Changes)
  <2>1. \A f \in Seq(Records) : Bound(f) \in Seq(Changes)
    <3> SUFFICES ASSUME NEW f \in Seq(Records) PROVE Bound(f) \in Seq(Changes)
      OBVIOUS
    <3>1. \A i \in Of(f, "bind") : i \in 1..Len(f) /\ f[i] \in Records /\ f[i].kind = "bind"
      BY DEF Of
    <3>2. Len(f) \in Nat
      OBVIOUS
    <3>3. Of(f, "bind") # {} => Max(Of(f, "bind")) \in Of(f, "bind")
      BY <3>1, <3>2, LastOf
    <3>4. CASE Of(f, "bind") = {}
      BY <3>4 DEF Bound
    <3>5. CASE Of(f, "bind") # {}
      <4>1. PICK i \in Of(f, "bind") : i = Max(Of(f, "bind"))
        BY <3>3, <3>5
      <4>2. Bound(f) = f[i].model
        BY <3>5, <4>1 DEF Bound
      <4> QED
        BY <3>1, <4>2, RecordKinds
    <3> QED
      BY <3>4, <3>5
  <2> QED
    BY <1>1, <2>1
<1>4. GraphSound(h)
  BY DEF IInv, Sound
<1>5. IsPrefix(Bound(g), Bound(h))
  <2>1. IsPrefix(Bound(SubSeq(h, 1, Len(g))), Bound(h))
    BY <1>2, <1>4 DEF GraphSound
  <2> QED
    BY <1>2, <2>1
<1>6. \A x, y, z \in Seq(Changes) : IsPrefix(x, y) /\ IsPrefix(y, z) => IsPrefix(x, z)
  BY PrefixOrder
<1> QED
  BY <1>3, <1>5, <1>6

(* The one revision a request finds: that of its receipt, or one that no   *)
(* revision follows.                                                       *)
LEMMA FoundIs ==
  ASSUME IInv, NEW r, NEW g \in graphs, NEW step, NEW h, HeadsFor(r, g, step) = {h}
  PROVE  /\ h \in graphs
         /\ \/ <<r.by, step>> \in DOMAIN receipts /\ h = receipts[<<r.by, step>>].base
            \/ IsPrefix(g, h) /\ \A k \in graphs \ {<<>>} : Front(k) # h
<1>1. CASE <<r.by, step>> \in DOMAIN receipts /\ r.tool \notin Keepers
  <2>1. h = receipts[<<r.by, step>>].base
    BY <1>1 DEF HeadsFor
  <2>2. receipts[<<r.by, step>>].base \in graphs
    BY <1>1 DEF IInv, TypeOK, ReceiptsTyped
  <2> QED
    BY <1>1, <2>1, <2>2
<1>2. CASE ~(<<r.by, step>> \in DOMAIN receipts /\ r.tool \notin Keepers)
  <2>1. h \in Heads(g)
    BY <1>2 DEF HeadsFor
  <2>2. h \in graphs /\ IsPrefix(g, h) /\ ~\E k \in graphs : IsStrictPrefix(h, k)
    BY <2>1 DEF Heads
  <2>3. \A k \in graphs \ {<<>>} : IsStrictPrefix(Front(k), k)
    BY Extends DEF IInv, TypeOK, StoreTyped
  <2> QED
    BY <2>2, <2>3
<1> QED
  BY <1>1, <1>2

(* What is found for a call bound to its model is bound to it as well.     *)
LEMMA FoundBound ==
  ASSUME IInv, NEW c \in Calls, NEW step \in {"notes", "more"}, Tool(c) \in Compound,
         IsPrefix(ModelOf(c), Bound(at[c])), NEW h, HeadsFor(req[c], at[c], step) = {h}
  PROVE  h \in graphs /\ IsPrefix(ModelOf(c), Bound(h))
<1>1. at[c] \in graphs /\ req[c].by \in Calls
  BY DEF IInv, TypeOK, CallsTyped, Requests
<1>2. /\ h \in graphs
      /\ \/ <<req[c].by, step>> \in DOMAIN receipts /\ h = receipts[<<req[c].by, step>>].base
         \/ IsPrefix(at[c], h)
  BY <1>1, FoundIs
<1>3. ModelOf(c) \in Seq(Changes)
  BY ModelOfTyped DEF IInv
<1>4. CASE IsPrefix(at[c], h)
  BY <1>1, <1>2, <1>3, <1>4, BoundOnward
<1>5. CASE <<req[c].by, step>> \in DOMAIN receipts /\ h = receipts[<<req[c].by, step>>].base
  <2>1. req[req[c].by] = req[c]
    BY DEF IInv, RequestsAgree
  <2>2. Tool(req[c].by) = Tool(c) /\ ModelOf(req[c].by) = ModelOf(c)
    BY <2>1 DEF Tool, ModelOf
  <2>3. <<req[c].by, step>>[1] = req[c].by /\ <<req[c].by, step>>[2] = step
    OBVIOUS
  <2> QED
    BY <1>2, <1>5, <2>2, <2>3 DEF IInv, Sound, ReceiptsBound
<1> QED
  BY <1>2, <1>4, <1>5

(* A retry stays the request it retries.                                   *)
LEMMA AgreeStay ==
  ASSUME RequestsAgree, CallsTyped, req' = req, \A d \in Calls : pc'[d] = "idle" <=> pc[d] = "idle"
  PROVE  RequestsAgree'
<1>1. \A d \in Calls : req[d].by \in Calls
  BY DEF CallsTyped, Requests
<1> QED
  BY <1>1 DEF RequestsAgree

(* The notes begin on a line that is bound to the call's model.            *)
LEMMA BeginKeeps == ASSUME IInv, NEW c \in Calls, Begin(c) PROVE IInv'
<1>0. /\ pc[c] = "begin" /\ UNCHANGED <<models, graphs, writer, receipts, faults, req, before, unlisted>>
      /\ InFlight(c)
  BY DEF Begin, storeVars, inputVars, InFlight
<1>1. CallsTyped /\ StoreTyped /\ ReceiptsTyped /\ RequestsAgree
  BY DEF IInv, TypeOK
<1>2. StoreTyped' /\ ReceiptsTyped'
  BY <1>0, <1>1 DEF StoreTyped, ReceiptsTyped
<1>3. CASE End(c, "error")
  BY <1>0, <1>2, <1>3, EndKeeps
<1>4. CASE \E h \in graphs :
             /\ HeadsFor(req[c], at[c], "notes") = {h}
             /\ time' = [time EXCEPT ![c] = Len(h)]
             /\ at' = [at EXCEPT ![c] = IF Tool(c) = "breadth" THEN h ELSE @]
             /\ pc' = [pc EXCEPT ![c] = After(c)]
             /\ UNCHANGED <<base, told>>
  <2>1. PICK h \in graphs :
             /\ HeadsFor(req[c], at[c], "notes") = {h}
             /\ time' = [time EXCEPT ![c] = Len(h)]
             /\ at' = [at EXCEPT ![c] = IF Tool(c) = "breadth" THEN h ELSE @]
             /\ pc' = [pc EXCEPT ![c] = After(c)]
             /\ UNCHANGED <<base, told>>
    BY <1>4
  <2>2. Tool(c) \in Compound /\ Tool(c) \in Tools
    BY <1>0, <1>1, WhereItIs
  <2>3. pc[c] \in StepsOf(Tool(c))
    BY <1>0, <1>1 DEF CallsTyped
  <2>4. After(c) = "notes" /\ After(c) \in StepsOf(Tool(c))
    BY <1>0, <2>2, <2>3, AfterIs
  <2>5. base[c] = None /\ IsPrefix(ModelOf(c), Bound(at[c]))
    BY <1>0, <2>2 DEF IInv, Sound, BoundRight
  <2>6. IsPrefix(ModelOf(c), Bound(h))
    BY <2>1, <2>2, <2>5, FoundBound
  <2>7. OthersStay(c) /\ MadeStay
    <3>1. OthersStay(c)
      BY <1>0, <1>1, <2>1 DEF OthersStay, CallsTyped
    <3>2. pc'[c] = "notes"
      BY <1>1, <2>1, <2>4 DEF CallsTyped
    <3> QED
      BY <1>0, <3>1, <3>2 DEF OthersStay, MadeStay
  <2>8. pc'[c] = "notes" /\ at'[c] \in {h, at[c]} /\ base'[c] = None /\ told'[c] = told[c]
    BY <1>1, <2>1, <2>4, <2>5 DEF CallsTyped
  <2>9. told[c] # "ok"
    BY <1>0, <1>1 DEF CallsTyped
  <2>10. /\ pc' \in [Calls -> {"idle", "revise", "rebind", "begin", "notes", "more", "done"}]
         /\ at' \in [Calls -> graphs'] /\ base' \in [Calls -> graphs' \cup {None}]
         /\ time' \in [Calls -> Nat]
         /\ told' \in [Calls -> {"nothing", "ok", "error", "conflict", "lost"}]
    <3>1. pc' \in [Calls -> {"idle", "revise", "rebind", "begin", "notes", "more", "done"}]
      BY <1>1, <2>1, <2>4 DEF CallsTyped
    <3>2. at' \in [Calls -> graphs']
      BY <1>0, <1>1, <2>1 DEF CallsTyped
    <3>3. Len(h) \in Nat
      BY <1>1 DEF StoreTyped
    <3>4. time' \in [Calls -> Nat]
      BY <1>1, <2>1, <3>3 DEF CallsTyped
    <3> QED
      BY <1>0, <1>1, <2>1, <3>1, <3>2, <3>4 DEF CallsTyped
  <2>11. \A d \in Calls : /\ pc'[d] \in {"idle"} \cup StepsOf(Tool(d))
                          /\ told'[d] = "ok" => pc'[d] = "done"
    BY <1>1, <2>4, <2>7, <2>8, <2>9 DEF CallsTyped, OthersStay
  <2>12. CallsTyped'
    BY <1>0, <1>1, <2>10, <2>11, MoveTyped
  <2>13. Tool(c)' = Tool(c) /\ ModelOf(c)' = ModelOf(c)
    BY <1>0 DEF Tool, ModelOf
  <2>14. BoundRight(c)'
    <3>1. IsPrefix(ModelOf(c), Bound(at'[c]))
      BY <2>5, <2>6, <2>8
    <3>2. \A a, b : a = b => Bound(a) = Bound(b)
      OBVIOUS
    <3> QED
      BY <2>8, <2>13, <3>1 DEF BoundRight
  <2>15. CallFits(c)'
    <3>1. FoundLate(c)'
      BY <2>8 DEF FoundLate
    <3>2. BegunRight(c)'
      BY <2>8 DEF BegunRight
    <3>3. Ended(c)'
      BY <2>8, <2>9 DEF Ended
    <3>4. \A d \in before'[c] : pc'[d] = "done"
      <4>1. \A d \in before[c] : pc[d] = "done" /\ d \in Calls
        BY <1>1 DEF IInv, Sound, BeforeDone, CallsTyped
      <4> QED
        BY <1>0, <2>7, <4>1 DEF OthersStay
    <3> QED
      BY <2>14, <3>1, <3>2, <3>3, <3>4 DEF CallFits
  <2>16. RequestsAgree'
    BY <1>0, <1>1, <2>7, <2>8, AgreeStay DEF OthersStay
  <2> QED
    BY <1>0, <1>2, <2>7, <2>12, <2>15, <2>16, QuietStep DEF TypeOK
<1> QED
  BY <1>3, <1>4 DEF Begin

(* The head that a call finds for its next write.                          *)
LEMMA LookKeeps == ASSUME IInv, NEW c \in Calls, Look(c) PROVE IInv'
<1>0. /\ pc[c] \in Writes /\ base[c] = None /\ UNCHANGED <<models, graphs, writer, receipts, req, before>>
      /\ InFlight(c)
  BY DEF Look, storeVars, InFlight, Writes
<1>1. CallsTyped /\ StoreTyped /\ ReceiptsTyped /\ RequestsAgree
  BY DEF IInv, TypeOK
<1>2. Find(c, req[c], at[c], pc[c])
  BY DEF Look
<1>3. faults' \in Nat
  BY <1>1, <1>2, RecordsAssumption DEF Find, Fault, ReceiptsTyped
<1>4. StoreTyped' /\ ReceiptsTyped'
  BY <1>0, <1>1, <1>3 DEF StoreTyped, ReceiptsTyped
<1>5. CASE End(c, "error") /\ unlisted' = unlisted
  BY <1>0, <1>4, <1>5, EndKeeps
<1>6. ASSUME NEW h \in graphs, base' = [base EXCEPT ![c] = h], at' = [at EXCEPT ![c] = at[c]],
             pc' = [pc EXCEPT ![c] = pc[c]], UNCHANGED <<told, time>>,
             \/ HeadsFor(req[c], at[c], pc[c]) = {h} /\ unlisted' = unlisted
             \/ h = at[c] /\ unlisted' = unlisted \cup {c}
      PROVE  IInv'
  <2>1. at' = at /\ pc' = pc
    BY <1>1, <1>6 DEF CallsTyped
  <2>2. OthersStay(c) /\ MadeStay /\ base'[c] = h
    <3>1. OthersStay(c) /\ base'[c] = h
      BY <1>0, <1>1, <1>6, <2>1 DEF OthersStay, CallsTyped
    <3> QED
      BY <1>0, <1>6, <2>1, <3>1 DEF MadeStay
  <2>3. CallsTyped'
    <3>1. base' \in [Calls -> graphs' \cup {None}]
      BY <1>0, <1>1, <1>6 DEF CallsTyped
    <3>2. unlisted' \subseteq Calls
      BY <1>1, <1>6 DEF CallsTyped
    <3>3. \A d \in Calls : Tool(d)' = Tool(d)
      BY <1>0 DEF Tool
    <3> QED
      BY <1>0, <1>1, <1>6, <2>1, <3>1, <3>2, <3>3 DEF CallsTyped
  <2>4. RequestsAgree'
    BY <1>0, <1>1, <2>1, AgreeStay
  <2>5. /\ Tool(c)' = Tool(c) /\ ModelOf(c)' = ModelOf(c) /\ Noting(c)' = Noting(c)
        /\ \A step : Key(c, step)' = Key(c, step)
        /\ Key(c, pc[c])' = <<req[c].by, pc[c]>>
    BY <1>0, <2>1 DEF Tool, ModelOf, Noting, Key
  <2>6. pc[c] # "done" /\ pc[c] # "begin" /\ pc[c] \in {"rebind", "notes", "more"}
    BY <1>0 DEF Writes
  <2>7. \/ /\ HeadsFor(req[c], at[c], pc[c]) = {h} /\ unlisted' = unlisted
           /\ \/ <<req[c].by, pc[c]>> \in DOMAIN receipts /\ h = receipts[<<req[c].by, pc[c]>>].base
              \/ IsPrefix(at[c], h) /\ \A k \in graphs \ {<<>>} : Front(k) # h
        \/ h = at[c] /\ c \in unlisted'
    <3>1. at[c] \in graphs
      BY <1>1 DEF CallsTyped
    <3> QED
      BY <1>6, <3>1, FoundIs
  <2>8. FoundLate(c)'
    <3>1. ASSUME c \notin unlisted', <<req[c].by, pc[c]>> \notin DOMAIN receipts
          PROVE  \A k \in graphs \ {<<>>} : Front(k) # h
      BY <2>7, <3>1
    <3>2. Key(c, pc[c])' = <<req[c].by, pc[c]>> /\ pc'[c] = pc[c] /\ receipts' = receipts /\ graphs' = graphs
      BY <1>0, <2>1, <2>5
    <3> QED
      BY <2>2, <3>1, <3>2 DEF FoundLate
  <2>9. BoundRight(c)'
    <3>1. ASSUME Noting(c) PROVE IsPrefix(ModelOf(c), Bound(h))
      <4>1. IsPrefix(ModelOf(c), Bound(at[c])) /\ Tool(c) \in Compound /\ pc[c] \in {"notes", "more"}
        BY <3>1 DEF Noting, IInv, Sound, BoundRight
      <4> QED
        BY <2>7, <4>1, FoundBound
    <3>2. Tool(c) \in Compound /\ pc[c] \in {"begin", "notes", "more"} => IsPrefix(ModelOf(c), Bound(at[c]))
      BY DEF IInv, Sound, BoundRight
    <3>3. IsPrefix(ModelOf(c), Bound(base[c]))' <=> IsPrefix(ModelOf(c), Bound(h))
      BY <2>2, <2>5 DEF Bound, Of
    <3>4. IsPrefix(ModelOf(c), Bound(at[c]))' <=> IsPrefix(ModelOf(c), Bound(at[c]))
      BY <2>1, <2>5
    <3> QED
      BY <2>1, <2>5, <2>6, <3>1, <3>2, <3>3, <3>4 DEF BoundRight
  <2>10. BegunRight(c)'
    <3>1. BegunRight(c)
      BY DEF IInv, Sound
    <3>2. IsPrefix(at[c], at[c])
      BY <1>1, PrefixOrder DEF CallsTyped, StoreTyped
    <3>3. pc[c] = "more" /\ <<req[c].by, "more">> \notin DOMAIN receipts => IsPrefix(at[c], h)
      BY <2>7, <3>2
    <3>4. Key(c, "more")' = <<req[c].by, "more">>
      BY <1>0 DEF Key
    <3> QED
      BY <1>0, <1>6, <2>1, <2>2, <3>1, <3>3, <3>4 DEF BegunRight
  <2>11. Ended(c)'
    <3>1. told'[c] # "ok"
      BY <1>1, <1>6, <2>6 DEF CallsTyped
    <3> QED
      BY <3>1 DEF Ended
  <2>12. \A d \in before'[c] : pc'[d] = "done"
    BY <1>0, <2>1 DEF IInv, Sound, BeforeDone
  <2>13. CallFits(c)'
    BY <2>8, <2>9, <2>10, <2>11, <2>12 DEF CallFits
  <2> QED
    BY <1>0, <1>4, <2>2, <2>3, <2>4, <2>6, <2>13, QuietStep DEF TypeOK
<1>7. CASE \E h \in graphs :
             /\ HeadsFor(req[c], at[c], pc[c]) = {h}
             /\ base' = [base EXCEPT ![c] = h] /\ at' = [at EXCEPT ![c] = at[c]]
             /\ pc' = [pc EXCEPT ![c] = pc[c]] /\ UNCHANGED <<told, time, unlisted>>
  BY <1>6, <1>7
<1>8. CASE /\ base' = [base EXCEPT ![c] = at[c]] /\ at' = [at EXCEPT ![c] = at[c]]
           /\ pc' = [pc EXCEPT ![c] = pc[c]] /\ UNCHANGED <<told, time>>
           /\ unlisted' = unlisted \cup {c}
  <2>1. at[c] \in graphs
    BY <1>1 DEF CallsTyped
  <2> QED
    BY <1>6, <1>8, <2>1
<1> QED
  BY <1>2, <1>5, <1>7, <1>8 DEF Find

(* What a caller asks for: a request of its own, or another call's again.  *)
LEMMA AskedIs ==
  ASSUME IInv, NEW c \in Calls, pc[c] = "idle", NEW r \in Asked(c) \cup {req[d] : d \in Made}
  PROVE  /\ r \in Requests /\ r.graph \in graphs /\ r.model \in models
         /\ r.by # c => pc[r.by] # "idle" /\ req[r.by] = r
<1>1. CallsTyped /\ StoreTyped /\ RequestsAgree
  BY DEF IInv, TypeOK
<1>2. CASE r \in Asked(c)
  <2>1. /\ r \in [tool : Tools, by : {c}, graph : graphs, model : models,
                  about : (UNION {Holds(m) : m \in models}) \cup {None}, on : BOOLEAN]
    BY <1>2 DEF Asked
  <2>2. \A m \in models : Holds(m) \subseteq Calls
    <3>1. ASSUME NEW m \in models PROVE \A i \in DOMAIN m : m[i].by \in Calls
      <4>1. m \in Seq(Changes)
        BY <1>1 DEF StoreTyped
      <4>2. \A i \in DOMAIN m : m[i] \in Changes
        BY <4>1
      <4> QED
        BY <4>2 DEF Changes
    <3> QED
      BY <3>1 DEF Holds
  <2>3. r.about \in Calls \cup {None}
    <3> DEFINE held == (UNION {Holds(m) : m \in models}) \cup {None}
    <3>1. \A x \in held : x \in Calls \cup {None}
      <4>1. ASSUME NEW x \in UNION {Holds(m) : m \in models} PROVE x \in Calls
        <5>1. PICK m \in models : x \in Holds(m)
          OBVIOUS
        <5> QED
          BY <2>2, <5>1
      <4> QED
        BY <4>1
    <3>2. PICK abouts : abouts = held /\ \A x \in abouts : x \in Calls \cup {None}
      BY <3>1, Zenon
    <3>3. r \in [tool : Tools, by : {c}, graph : graphs, model : models, about : abouts, on : BOOLEAN]
      BY <2>1, <3>2
    <3> QED
      BY <3>2, <3>3
  <2>4. r.graph \in graphs /\ r.model \in models /\ r.by = c
    BY <2>1
  <2>5. r.graph \in Seq(Records) /\ r.model \in Seq(Changes)
    BY <1>1, <2>4 DEF StoreTyped
  <2>6. r = [tool |-> r.tool, by |-> r.by, graph |-> r.graph, model |-> r.model, about |-> r.about, on |-> r.on]
    BY <2>1
  <2>7. r.tool \in Tools /\ r.on \in BOOLEAN
    BY <2>1
  <2>8. r \in Requests
    BY <2>3, <2>4, <2>5, <2>6, <2>7 DEF Requests
  <2> QED
    BY <2>4, <2>8
<1>3. CASE r \in {req[d] : d \in Made}
  <2>1. PICK d \in Calls : pc[d] # "idle" /\ r = req[d]
    BY <1>3 DEF Made
  <2>2. req[req[d].by] = req[d] /\ pc[req[d].by] # "idle"
    BY <1>1, <2>1 DEF RequestsAgree
  <2> QED
    BY <1>1, <2>1, <2>2 DEF CallsTyped
<1> QED
  BY <1>2, <1>3

(* A call that is made finds no graph that was written beside before it.   *)
LEMMA StartKeeps == ASSUME IInv, NEW c \in Calls, Start(c) PROVE IInv'
<1>0. /\ pc[c] = "idle" /\ UNCHANGED <<models, graphs, writer, receipts>>
      /\ before' = [before EXCEPT ![c] = {d \in Calls : pc[d] = "done"}]
  BY DEF Start, storeVars
<1>1. CallsTyped /\ StoreTyped /\ ReceiptsTyped /\ RequestsAgree
  BY DEF IInv, TypeOK
<1>2. PICK r \in Asked(c) \cup {req[d] : d \in Made} :
        /\ req' = [req EXCEPT ![c] = r]
        /\ \/ r.tool \in Recorders \cup Keepers /\ Find(c, r, r.graph, "notes")
           \/ /\ r.tool \notin Recorders \cup Keepers
              /\ pc' = [pc EXCEPT ![c] = Steps(r.tool)[1]]
              /\ at' = [at EXCEPT ![c] = r.graph]
              /\ base' = [base EXCEPT ![c] = IF r.tool = "rebind" THEN r.graph ELSE None]
              /\ UNCHANGED <<told, time, faults, unlisted>>
  BY DEF Start
<1>3. /\ r \in Requests /\ r.graph \in graphs /\ r.model \in models
      /\ r.by # c => pc[r.by] # "idle" /\ req[r.by] = r
  BY <1>0, AskedIs
<1>4. faults' \in Nat
  BY <1>1, <1>2, RecordsAssumption DEF Find, Fault, ReceiptsTyped
<1>5. StoreTyped' /\ ReceiptsTyped'
  BY <1>0, <1>1, <1>4 DEF StoreTyped, ReceiptsTyped
<1>6. r.tool \in Tools /\ r.by \in Calls /\ told[c] # "ok" /\ told[c] \in {"nothing", "error", "conflict", "lost"}
  BY <1>0, <1>1, <1>3 DEF Requests, CallsTyped
<1>7. ASSUME NEW p \in StepsOf(r.tool) \cap {"notes", "done", "revise", "rebind"}, NEW g \in graphs,
             NEW b \in graphs \cup {None}, NEW v \in {"nothing", "error", "conflict", "lost"}, NEW t \in Nat,
             pc' = [pc EXCEPT ![c] = p], at' = [at EXCEPT ![c] = g], base' = [base EXCEPT ![c] = b],
             told' = [told EXCEPT ![c] = v], time' = [time EXCEPT ![c] = t],
             unlisted' \in {unlisted, unlisted \cup {c}},
             p = "notes" => r.tool \notin Compound,
             b # None /\ p \in Writes /\ r.tool # "rebind" /\ c \notin unlisted' =>
               <<r.by, p>> \in DOMAIN receipts \/ \A k \in graphs \ {<<>>} : Front(k) # b
      PROVE  IInv'
  <2>1. OthersStay(c)
    BY <1>0, <1>1, <1>2, <1>7 DEF OthersStay, CallsTyped
  <2>2. /\ req'[c] = r /\ pc'[c] = p /\ at'[c] = g /\ base'[c] = b /\ told'[c] = v /\ time'[c] = t
        /\ before'[c] = {d \in Calls : pc[d] = "done"}
    BY <1>0, <1>1, <1>2, <1>7 DEF CallsTyped
  <2>3. MadeStay
    BY <1>0, <1>7, <2>1 DEF OthersStay, MadeStay
  <2>4. Tool(c)' = r.tool /\ Key(c, pc[c])' = <<r.by, p>>
    BY <2>2 DEF Tool, Key
  <2>5. CallsTyped'
    <3>1. req' \in [Calls -> Requests] /\ \A d \in Calls : req'[d].graph \in graphs' /\ req'[d].model \in models'
      BY <1>0, <1>1, <1>2, <1>3 DEF CallsTyped
    <3>2. pc' \in [Calls -> {"idle", "revise", "rebind", "begin", "notes", "more", "done"}]
      BY <1>1, <1>7 DEF CallsTyped
    <3>3. \A d \in Calls : pc'[d] \in {"idle"} \cup StepsOf(Tool(d)')
      <4>1. \A d \in Calls \ {c} : Tool(d)' = Tool(d) /\ pc'[d] = pc[d]
        BY <2>1 DEF OthersStay, Tool
      <4>2. pc'[c] \in StepsOf(Tool(c)')
        BY <2>2, <2>4
      <4> QED
        BY <1>1, <4>1, <4>2 DEF CallsTyped
    <3>4. at' \in [Calls -> graphs'] /\ base' \in [Calls -> graphs' \cup {None}]
      BY <1>0, <1>1, <1>7 DEF CallsTyped
    <3>5. time' \in [Calls -> Nat] /\ told' \in [Calls -> {"nothing", "ok", "error", "conflict", "lost"}]
      BY <1>1, <1>7 DEF CallsTyped
    <3>6. \A d \in Calls : told'[d] = "ok" => pc'[d] = "done"
      BY <1>1, <2>1, <2>2 DEF CallsTyped, OthersStay
    <3>7. before' \in [Calls -> SUBSET Calls] /\ unlisted' \subseteq Calls
      BY <1>0, <1>1, <1>7 DEF CallsTyped
    <3>8. \A d \in Calls : pc'[d] \in {"idle"} \cup StepsOf(Tool(d))'
      BY <3>3 DEF StepsOf, Steps
    <3> QED
      BY <3>1, <3>2, <3>4, <3>5, <3>6, <3>7, <3>8 DEF CallsTyped
  <2>6. RequestsAgree'
    <3>1. ASSUME NEW d \in Calls \ {c}
          PROVE  req'[req'[d].by] = req'[d] /\ IF pc'[d] = "idle" THEN req'[d].by = d ELSE pc'[req'[d].by] # "idle"
      <4>1. req[d].by \in Calls /\ req'[d] = req[d] /\ pc'[d] = pc[d]
        BY <1>1, <2>1 DEF CallsTyped, Requests, OthersStay
      <4>2. req[d].by # c
        BY <1>0, <1>1 DEF RequestsAgree
      <4> QED
        BY <1>1, <2>1, <4>1, <4>2 DEF RequestsAgree, OthersStay
    <3>2. pc'[c] # "idle"
      BY <2>2
    <3>3. req'[r.by] = r /\ pc'[r.by] # "idle"
      BY <1>3, <1>6, <2>1, <2>2, <3>2 DEF OthersStay
    <3> QED
      BY <2>2, <3>1, <3>2, <3>3 DEF RequestsAgree
  <2>7. CallFits(c)'
    <3>1. p # "begin" /\ p # "more"
      OBVIOUS
    <3>2. FoundLate(c)'
      BY <1>0, <1>7, <2>2, <2>4 DEF FoundLate
    <3>3. BoundRight(c)'
      BY <1>7, <2>2, <2>4, <3>1 DEF BoundRight, Noting
    <3>4. BegunRight(c)' /\ Ended(c)'
      BY <2>2, <3>1 DEF BegunRight, Ended
    <3>5. \A d \in before'[c] : pc'[d] = "done"
      BY <1>0, <2>1, <2>2 DEF OthersStay
    <3> QED
      BY <3>2, <3>3, <3>4, <3>5 DEF CallFits
  <2> QED
    BY <1>0, <1>5, <2>1, <2>3, <2>5, <2>6, <2>7, QuietStep DEF TypeOK
<1>8. told = [told EXCEPT ![c] = told[c]] /\ time = [time EXCEPT ![c] = time[c]] /\ time[c] \in Nat
  BY <1>1 DEF CallsTyped
<1>9. CASE r.tool \in Recorders \cup Keepers /\ Find(c, r, r.graph, "notes")
  <2>1. r.tool \notin Compound \cup {"prune", "rebind"}
    BY <1>9 DEF Recorders, Keepers, Compound
  <2>2. StepsOf(r.tool) = {"notes", "done"}
    BY <1>6, <2>1, StepsAre
  <2>3. CASE End(c, "error") /\ unlisted' = unlisted
    <3>1. <<>> \in graphs /\ 0 \in Nat /\ "done" \in StepsOf(r.tool)
      BY <1>1, <2>2 DEF StoreTyped
    <3> QED
      BY <1>7, <2>3, <3>1 DEF End
  <2>4. CASE \E h \in graphs :
               /\ HeadsFor(r, r.graph, "notes") = {h}
               /\ base' = [base EXCEPT ![c] = h] /\ at' = [at EXCEPT ![c] = r.graph]
               /\ pc' = [pc EXCEPT ![c] = "notes"] /\ UNCHANGED <<told, time, unlisted>>
    <3>1. PICK h \in graphs :
               /\ HeadsFor(r, r.graph, "notes") = {h}
               /\ base' = [base EXCEPT ![c] = h] /\ at' = [at EXCEPT ![c] = r.graph]
               /\ pc' = [pc EXCEPT ![c] = "notes"] /\ UNCHANGED <<told, time, unlisted>>
      BY <2>4
    <3>2. <<r.by, "notes">> \in DOMAIN receipts \/ \A k \in graphs \ {<<>>} : Front(k) # h
      BY <1>3, <3>1, FoundIs
    <3> QED
      BY <1>3, <1>6, <1>7, <1>8, <2>1, <2>2, <3>1, <3>2
  <2>5. CASE /\ base' = [base EXCEPT ![c] = r.graph] /\ at' = [at EXCEPT ![c] = r.graph]
             /\ pc' = [pc EXCEPT ![c] = "notes"] /\ UNCHANGED <<told, time>>
             /\ unlisted' = unlisted \cup {c}
    BY <1>3, <1>6, <1>7, <1>8, <2>1, <2>2, <2>5
  <2> QED
    BY <1>9, <2>3, <2>4, <2>5 DEF Find
<1>10. CASE /\ r.tool \notin Recorders \cup Keepers
            /\ pc' = [pc EXCEPT ![c] = Steps(r.tool)[1]]
            /\ at' = [at EXCEPT ![c] = r.graph]
            /\ base' = [base EXCEPT ![c] = IF r.tool = "rebind" THEN r.graph ELSE None]
            /\ UNCHANGED <<told, time, faults, unlisted>>
  <2>1. Steps(r.tool)[1] \in StepsOf(r.tool) \cap {"revise", "rebind"}
    <3>1. r.tool \in {"carve", "breadth", "prune", "rebind"}
      BY <1>6, <1>10 DEF Tools, Compound
    <3>2. 1 \in DOMAIN Steps(r.tool) /\ Steps(r.tool)[1] \in {"revise", "rebind"}
      <4>1. CASE r.tool = "carve"
        BY <4>1 DEF Steps
      <4>2. CASE r.tool = "breadth"
        BY <4>2 DEF Steps
      <4>3. CASE r.tool = "prune"
        BY <4>3 DEF Steps
      <4>4. CASE r.tool = "rebind"
        BY <4>4 DEF Steps
      <4> QED
        BY <3>1, <4>1, <4>2, <4>3, <4>4
    <3> QED
      BY <3>2 DEF StepsOf
  <2>2. PICK p \in StepsOf(r.tool) \cap {"notes", "done", "revise", "rebind"} :
          p = Steps(r.tool)[1] /\ p \in {"revise", "rebind"}
    BY <2>1
  <2>3. PICK b \in graphs \cup {None} : b = (IF r.tool = "rebind" THEN r.graph ELSE None)
    BY <1>3
  <2>4. PICK v \in {"nothing", "error", "conflict", "lost"} : v = told[c]
    BY <1>6
  <2>5. PICK t \in Nat : t = time[c]
    BY <1>8
  <2>6. /\ pc' = [pc EXCEPT ![c] = p] /\ at' = [at EXCEPT ![c] = r.graph]
        /\ base' = [base EXCEPT ![c] = b]
        /\ told' = [told EXCEPT ![c] = v] /\ time' = [time EXCEPT ![c] = t]
        /\ unlisted' \in {unlisted, unlisted \cup {c}}
    BY <1>8, <1>10, <2>2, <2>3, <2>4, <2>5
  <2>7. (p = "notes" => r.tool \notin Compound) /\ (r.tool # "rebind" => b = None)
    BY <2>2, <2>3
  <2> QED
    BY <1>3, <1>7, <2>6, <2>7
<1> QED
  BY <1>2, <1>9, <1>10

(* What a call that is ready writes, and where.                            *)
LEMMA WrittenIs ==
  ASSUME IInv, NEW c \in Calls, Ready(c)
  PROVE  LET b == base[c]
             r == Addition(c, b)
             g == Append(b, r)
         IN  /\ b \in graphs /\ r \in Records /\ g \in Seq(Records) /\ g # <<>> /\ Front(g) = b
             /\ pc[c] \in Writes /\ InFlight(c) /\ pc[c] # "begin"
             /\ pc[c] = "rebind" => r.kind = "bind" /\ r.model = ModelOf(c)
             /\ r.kind = "bind" => pc[c] = "rebind"
             /\ r.kind = "note" => r.by = req[c].by /\ r.part = pc[c]
             /\ pc[c] = "more" => r.time = time[c]
             /\ Tool(c) \in Compound /\ pc[c] = "rebind" => IsPrefix(ModelOf(c), Bound(g))
             /\ Noting(c) =>
                  /\ IsPrefix(ModelOf(c), Bound(b)) /\ IsPrefix(ModelOf(c), Bound(g))
                  /\ g[Len(g)] = r /\ r.kind = "note" /\ r.by = req[c].by /\ r.part = pc[c]
                  /\ Tool(c) = "carve" /\ pc[c] = "notes" => r.time = time[c]
<1> DEFINE b == base[c]
           r == Addition(c, b)
           g == Append(b, r)
<1>1. TypeOK /\ StoreTyped /\ CallsTyped
  BY DEF IInv, TypeOK
<1>2. b \in graphs /\ pc[c] \in Writes /\ base[c] # None
  BY <1>1 DEF Ready, CallsTyped
<1>3. InFlight(c) /\ pc[c] # "begin"
  BY <1>2 DEF InFlight, Writes
<1>4. /\ r \in Records
      /\ r.kind = "bind" <=> pc[c] = "rebind"
      /\ r.kind = "bind" => r.model = ModelOf(c)
      /\ r.kind = "note" => r.by = req[c].by /\ r.part = pc[c]
      /\ Noting(c) => r.kind = "note"
      /\ pc[c] = "more" => r.time = time[c]
      /\ Tool(c) = "carve" /\ pc[c] = "notes" => r.time = time[c]
  BY <1>1, <1>2, AdditionIs
<1>5. b \in Seq(Records)
  BY <1>1, <1>2 DEF StoreTyped
<1> HIDE DEF b, r
<1>6. g \in Seq(Records) /\ g # <<>> /\ Front(g) = b /\ Len(g) = Len(b) + 1 /\ g[Len(b) + 1] = r
  BY <1>4, <1>5, Grown
<1>7. Bound(g) = (IF r.kind = "bind" THEN r.model ELSE Bound(b))
  BY <1>4, <1>5, BoundGrown
<1>8. g[Len(g)] = r
  BY <1>6
<1>9. IsPrefix(ModelOf(c), ModelOf(c))
  BY <1>1, ModelOfTyped, PrefixOrder
<1>10. Noting(c) => IsPrefix(ModelOf(c), Bound(b))
  BY <1>2 DEF IInv, Sound, BoundRight, b
<1>11. Tool(c) \in Compound /\ pc[c] = "rebind" => IsPrefix(ModelOf(c), Bound(g))
  BY <1>4, <1>7, <1>9
<1>12. Noting(c) => IsPrefix(ModelOf(c), Bound(g))
  BY <1>4, <1>7, <1>10
<1> HIDE DEF g
<1> QED
  BY <1>2, <1>3, <1>4, <1>6, <1>8, <1>10, <1>11, <1>12 DEF b, r, g

(* A call that has nothing to write goes on, or is refused.                *)
LEMMA SettledKeeps == ASSUME IInv, NEW c \in Calls, Settled(c) PROVE IInv'
<1>1. Ready(c) /\ UNCHANGED <<models, graphs, writer, receipts, faults, req, before, unlisted>>
  BY DEF Settled, storeVars, inputVars
<1>2. StoreTyped' /\ ReceiptsTyped'
  BY <1>1 DEF IInv, TypeOK, StoreTyped, ReceiptsTyped
<1>3. base[c] \in graphs /\ InFlight(c) /\ pc[c] # "begin"
  BY <1>1, WrittenIs
<1>4. CASE End(c, "error")
  BY <1>1, <1>2, <1>3, <1>4, EndKeeps
<1>5. CASE Reused(c, base[c]) /\ Proceed(c, base[c])
  <2>1. Tool(c) \in Compound => pc[c] = "rebind" /\ Bound(base[c]) = ModelOf(c)
    BY <1>5 DEF Reused, Keepers, Compound
  <2>2. IsPrefix(ModelOf(c), ModelOf(c))
    BY ModelOfTyped, PrefixOrder DEF IInv
  <2>3. ~Noting(c)
    BY <2>1 DEF Noting
  <2> QED
    BY <1>1, <1>2, <1>3, <1>5, <2>1, <2>2, <2>3, ProceedKeeps
<1> QED
  BY <1>4, <1>5 DEF Settled

(* A retry is answered with what its receipt names, which was stored.      *)
LEMMA RepeatKeeps == ASSUME IInv, NEW c \in Calls, Repeat(c) PROVE IInv'
<1>1. /\ Ready(c) /\ UNCHANGED <<models, graphs, writer, receipts, faults, req, before, unlisted>>
      /\ Key(c, pc[c]) \in DOMAIN receipts
  BY DEF Repeat, Writable, storeVars, inputVars
<1>2. StoreTyped' /\ ReceiptsTyped'
  BY <1>1 DEF IInv, TypeOK, StoreTyped, ReceiptsTyped
<1>3. InFlight(c) /\ pc[c] # "begin"
  BY <1>1, WrittenIs
<1>4. CASE \E v \in {"error", "conflict"} : End(c, v)
  <2>1. PICK v \in {"error", "conflict"} : End(c, v)
    BY <1>4
  <2> QED
    BY <1>1, <1>2, <1>3, <2>1, EndKeeps
<1> DEFINE r == Addition(c, base[c])
           g == Append(base[c], r)
<1>5. ASSUME receipts[Key(c, pc[c])].base = base[c], receipts[Key(c, pc[c])].record = r,
             receipts[Key(c, pc[c])].sure, Proceed(c, g)
      PROVE  IInv'
  <2>1. g \in graphs
    BY <1>1, <1>5 DEF IInv, TypeOK, ReceiptsTyped
  <2>2. /\ g # <<>>
        /\ Tool(c) \in Compound /\ pc[c] = "rebind" => IsPrefix(ModelOf(c), Bound(g))
        /\ Noting(c) =>
             /\ IsPrefix(ModelOf(c), Bound(g))
             /\ g[Len(g)] = r /\ r.kind = "note" /\ r.by = req[c].by /\ r.part = pc[c]
             /\ Tool(c) = "carve" /\ pc[c] = "notes" => r.time = time[c]
    BY <1>1, WrittenIs
  <2> HIDE DEF g, r
  <2> QED
    BY <1>1, <1>2, <1>3, <1>5, <2>1, <2>2, ProceedKeeps
<1> QED
  BY <1>4, <1>5 DEF Repeat

(* The revision a call adds is sound.                                      *)
LEMMA WrittenSound ==
  ASSUME IInv, NEW c \in Calls, Writable(c), Key(c, pc[c]) \notin DOMAIN receipts
  PROVE  GraphSound(Append(base[c], Addition(c, base[c])))
<1> DEFINE b == base[c]
           r == Addition(c, b)
<1>1. Ready(c) /\ Valid(c, b)
  BY DEF Writable
<1>2. /\ b \in graphs /\ r \in Records
      /\ pc[c] \in Writes /\ InFlight(c)
      /\ pc[c] = "rebind" => r.kind = "bind" /\ r.model = ModelOf(c)
      /\ r.kind = "bind" => pc[c] = "rebind"
      /\ r.kind = "note" => r.by = req[c].by /\ r.part = pc[c]
      /\ pc[c] = "more" => r.time = time[c]
  BY <1>1, WrittenIs
<1>3. CallsTyped /\ RequestsAgree /\ StoreTyped
  BY DEF IInv, TypeOK
<1>4. pc[req[c].by] # "idle" /\ Tool(req[c].by) = Tool(c)
  BY <1>2, <1>3 DEF RequestsAgree, InFlight, Tool
<1>5. b \in Seq(Records) /\ GraphSound(b)
  BY <1>2, <1>3 DEF StoreTyped, IInv, Sound
<1>6. ASSUME r.kind = "bind" PROVE IsPrefix(Bound(b), r.model) /\ Anchors(b) \subseteq Holds(r.model)
  BY <1>1, <1>2, <1>6 DEF Valid, Binds
<1>7. ASSUME r.kind = "note"
      PROVE  /\ pc[r.by] # "idle" /\ Anchors(<<r>>) \subseteq Holds(Bound(b))
             /\ \A i \in Of(b, "note") : ~(b[i].by = r.by /\ b[i].part = r.part)
             /\ r.part = "more" =>
                  /\ Tool(r.by) = "carve"
                  /\ \E j \in Of(b, "note") : b[j].by = r.by /\ b[j].part = "notes" /\ b[j].time = r.time
  <2>1. Adds(c, b)
    BY <1>1, <1>2, <1>7 DEF Valid
  <2>2. ~Present(c, b) /\ Anchors(<<r>>) \subseteq Holds(Bound(b))
    BY <2>1 DEF Adds
  <2>3. \A i \in Of(b, "note") : ~(b[i].by = r.by /\ b[i].part = r.part)
    <3>1. \A i \in DOMAIN b : Node(b[i]) # Node(r)
      BY <2>2 DEF Present
    <3>2. \A i \in Of(b, "note") : i \in DOMAIN b /\ b[i].kind = "note"
      BY DEF Of
    <3> HIDE DEF r, b
    <3> QED
      BY <1>7, <3>1, <3>2 DEF Node
  <2>4. ASSUME r.part = "more"
        PROVE  /\ Tool(r.by) = "carve"
               /\ \E j \in Of(b, "note") : b[j].by = r.by /\ b[j].part = "notes" /\ b[j].time = r.time
    <3>1. pc[c] = "more" /\ r.by = req[c].by /\ r.time = time[c]
      BY <1>2, <1>7, <2>4
    <3>2. Tool(c) = "carve"
      BY <1>3, <3>1, WhereItIs
    <3>3. BegunRight(c)
      BY DEF IInv, Sound
    <3>4. PICK j \in Of(at[c], "note") : at[c][j].by = req[c].by /\ at[c][j].part = "notes" /\ at[c][j].time = time[c]
      BY <3>1, <3>3 DEF BegunRight
    <3>5. IsPrefix(at[c], b)
      <4>1. b # None
        BY <1>1 DEF Ready
      <4> QED
        BY <3>1, <3>3, <4>1 DEF BegunRight
    <3>6. at[c] \in Seq(Records)
      BY <1>3 DEF CallsTyped, StoreTyped
    <3>7. j \in 1..Len(at[c]) /\ at[c][j].kind = "note"
      BY <3>6 DEF Of
    <3>8. j \in DOMAIN b /\ b[j] = at[c][j]
      <4>1. Len(at[c]) <= Len(b) /\ \A i \in 1..Len(at[c]) : at[c][i] = b[i]
        BY <1>5, <3>5, <3>6, PrefixIs
      <4>2. Len(at[c]) \in Nat /\ Len(b) \in Nat /\ DOMAIN b = 1..Len(b)
        BY <1>5, <3>6
      <4> HIDE DEF b
      <4> QED
        BY <3>7, <4>1, <4>2
    <3>9. j \in Of(b, "note")
      BY <3>7, <3>8 DEF Of
    <3> HIDE DEF b, r
    <3> QED
      BY <1>4, <3>1, <3>2, <3>4, <3>8, <3>9
  <2> HIDE DEF b, r
  <2> QED
    BY <1>2, <1>4, <1>7, <2>2, <2>3, <2>4
<1> HIDE DEF b, r
<1>8. GraphSound(Append(b, r))
  BY <1>2, <1>5, <1>6, <1>7, GraphSoundGrown
<1> QED
  BY <1>8 DEF b, r

(* The store after a write: its new revision, and the receipt of it.       *)
LEMMA StoredTyped ==
  ASSUME IInv, NEW c \in Calls, Ready(c), NEW g, g = Append(base[c], Addition(c, base[c])),
         Store(c, g) \/ UNCHANGED <<graphs, writer>>, models' = models
  PROVE  /\ StoreTyped' /\ graphs \subseteq graphs' /\ graphs' \subseteq graphs \cup {g}
         /\ \A h \in graphs : writer'[h] = writer[h]
         /\ g \in graphs' \ graphs => writer'[g] = c
<1>1. StoreTyped
  BY DEF IInv, TypeOK
<1>2. g \in Seq(Records) /\ g # <<>>
  BY WrittenIs
<1>3. CASE UNCHANGED <<graphs, writer>>
  BY <1>1, <1>3 DEF StoreTyped
<1>4. CASE Store(c, g)
  <2>1. graphs' = graphs \cup {g} /\ DOMAIN writer = graphs
    BY <1>1, <1>4 DEF Store, StoreTyped
  <2>2. writer' = [h \in graphs' |-> IF h \in graphs THEN writer[h] ELSE c]
    BY <1>4, <2>1 DEF Store
  <2>3. writer' \in [graphs' -> Calls \cup {None}] /\ \A h \in graphs' \ {<<>>} : writer'[h] \in Calls
    BY <1>1, <2>1, <2>2 DEF StoreTyped
  <2>4. graphs' \subseteq Seq(Records) /\ <<>> \in graphs' /\ models' \subseteq Seq(Changes) /\ <<>> \in models'
    <3>1. graphs \subseteq Seq(Records) /\ <<>> \in graphs /\ models \subseteq Seq(Changes) /\ <<>> \in models
      BY <1>1 DEF StoreTyped
    <3> HIDE DEF StoreTyped
    <3> QED
      BY <1>2, <2>1, <3>1, Zenon
  <2>5. StoreTyped'
    BY <2>3, <2>4 DEF StoreTyped
  <2>6. /\ \A h \in graphs : writer'[h] = writer[h]
        /\ g \in graphs' \ graphs => writer'[g] = c
    BY <2>1, <2>2
  <2> QED
    BY <2>1, <2>5, <2>6
<1> QED
  BY <1>3, <1>4

(* The receipts after a write.                                             *)
LEMMA ReceivedTyped ==
  ASSUME IInv, NEW c \in Calls, Ready(c), NEW sure \in BOOLEAN, Receive(c, base[c], sure),
         faults' \in Nat, graphs \subseteq graphs',
         sure => Append(base[c], Addition(c, base[c])) \in graphs'
  PROVE  /\ ReceiptsTyped'
         /\ DOMAIN receipts' = DOMAIN receipts \cup {<<req[c].by, pc[c]>>}
         /\ \A k \in DOMAIN receipts \ {<<req[c].by, pc[c]>>} : receipts'[k] = receipts[k]
         /\ receipts'[<<req[c].by, pc[c]>>].base = base[c]
<1>1. CallsTyped /\ ReceiptsTyped
  BY DEF IInv, TypeOK
<1> DEFINE k == <<req[c].by, pc[c]>>
           r == Addition(c, base[c])
           new == [base |-> base[c], record |-> r, sure |-> sure]
<1>2. receipts' = [j \in DOMAIN receipts \cup {k} |-> IF j = k THEN new ELSE receipts[j]]
  BY DEF Receive, Key
<1>3. base[c] \in graphs /\ r \in Records /\ pc[c] \in Writes
  BY WrittenIs
<1>4. k \in Calls \X (Writes \cup {"revise"})
  BY <1>1, <1>3 DEF CallsTyped, Requests
<1> HIDE DEF r
<1>5. new \in [base : graphs', record : Records \cup {None}, sure : BOOLEAN]
  BY <1>3
<1>6. new.base = base[c] /\ new.record = r /\ new.sure = sure
  OBVIOUS
<1> HIDE DEF k, new
<1>7. /\ DOMAIN receipts' = DOMAIN receipts \cup {k} /\ receipts'[k] = new
      /\ \A j \in DOMAIN receipts \ {k} : receipts'[j] = receipts[j]
  BY <1>2
<1>8. ASSUME NEW j \in DOMAIN receipts'
      PROVE  /\ j \in Calls \X (Writes \cup {"revise"})
             /\ receipts'[j] \in [base : graphs', record : Records \cup {None}, sure : BOOLEAN]
             /\ receipts'[j].sure => Append(receipts'[j].base, receipts'[j].record) \in graphs'
  <2>1. CASE j = k
    <3>1. new.sure => Append(new.base, new.record) \in graphs'
      BY <1>6 DEF r
    <3> QED
      BY <1>4, <1>5, <1>7, <2>1, <3>1
  <2>2. CASE j # k
    BY <1>1, <1>7, <2>2 DEF ReceiptsTyped
  <2> QED
    BY <2>1, <2>2
<1>9. ReceiptsTyped'
  BY <1>8 DEF ReceiptsTyped
<1> QED
  BY <1>6, <1>7, <1>9 DEF k

(* What the call that wrote keeps, whatever it is told.                    *)
LEMMA WroteKeeps ==
  ASSUME IInv, NEW c \in Calls, Writable(c), Key(c, pc[c]) \notin DOMAIN receipts,
         NEW g, g = Append(base[c], Addition(c, base[c])), NEW sure \in BOOLEAN,
         Store(c, g) \/ UNCHANGED <<graphs, writer>>, Receive(c, base[c], sure), sure => g \in graphs',
         faults' \in Nat, UNCHANGED <<models, req, before, unlisted>>,
         OthersStay(c), MadeStay, CallsTyped', RequestsAgree', CallFits(c)'
  PROVE  IInv'
<1>1. Ready(c)
  BY DEF Writable
<1>2. /\ StoreTyped' /\ graphs \subseteq graphs' /\ graphs' \subseteq graphs \cup {g}
      /\ \A h \in graphs : writer'[h] = writer[h]
      /\ g \in graphs' \ graphs => writer'[g] = c
  BY <1>1, StoredTyped
<1>3. /\ ReceiptsTyped'
      /\ DOMAIN receipts' = DOMAIN receipts \cup {<<req[c].by, pc[c]>>}
      /\ \A k \in DOMAIN receipts \ {<<req[c].by, pc[c]>>} : receipts'[k] = receipts[k]
      /\ receipts'[<<req[c].by, pc[c]>>].base = base[c]
  BY <1>1, <1>2, ReceivedTyped
<1>4. /\ base[c] \in graphs /\ g \in Seq(Records) /\ g # <<>> /\ Front(g) = base[c]
      /\ pc[c] \in Writes /\ InFlight(c)
      /\ Noting(c) => IsPrefix(ModelOf(c), Bound(base[c]))
  BY <1>1, WrittenIs
<1>5. /\ \A h \in graphs : GraphSound(h)'
      /\ \A h \in graphs \ {<<>>} : pc'[writer[h]] # "idle"
      /\ \A k \in DOMAIN receipts :
           /\ pc'[k[1]] # "idle"
           /\ k[2] \in {"notes", "more"} /\ Tool(k[1])' \in Compound
                => IsPrefix(ModelOf(k[1])', Bound(receipts[k].base))
  BY StoreFits
<1>6. ASSUME NEW h \in graphs' PROVE GraphSound(h)'
  <2>1. GraphSound(g)'
    <3>1. GraphSound(g)
      BY WrittenSound
    <3>2. \A i \in Of(g, "note") : g[i] \in Records /\ g[i].kind = "note"
      BY <1>4 DEF Of
    <3>3. \A i \in Of(g, "note") : g[i].by \in Calls
      BY <3>2, RecordKinds DEF NoteRecords
    <3> QED
      BY <3>1, <3>3, GraphSoundKept DEF MadeStay
  <2> QED
    BY <1>2, <1>5, <1>6, <2>1
<1>7. pc[c] # "done" /\ pc'[c] # "idle"
  BY <1>4 DEF InFlight, MadeStay
<1>8. WritersMade'
  <2>1. ASSUME NEW h \in graphs' \ {<<>>} PROVE pc'[writer'[h]] # "idle"
    BY <1>2, <1>5, <1>7, <2>1
  <2> QED
    BY <2>1 DEF WritersMade
<1>9. \A d \in Calls : CallFits(d)'
  <2>1. \A h \in graphs' : IF h \in graphs THEN writer'[h] = writer[h] ELSE writer'[h] = c
    BY <1>2
  <2>2. ASSUME NEW d \in Calls \ {c} PROVE CallFits(d)'
    BY <1>3, <1>7, <2>1, OthersFit
  <2> QED
    BY <2>2
<1>10. BeforeDone' /\ \A d \in Calls : FoundLate(d)' /\ BoundRight(d)' /\ BegunRight(d)' /\ Ended(d)'
  BY <1>9 DEF CallFits, BeforeDone
<1>11. ReceiptsBound'
  <2>0. PICK k : k = <<req[c].by, pc[c]>>
    OBVIOUS
  <2>1. req[c].by \in Calls /\ pc[req[c].by] # "idle" /\ req[req[c].by] = req[c]
    BY <1>4 DEF InFlight, IInv, RequestsAgree, TypeOK, CallsTyped, Requests
  <2>2. pc'[k[1]] # "idle"
    BY <2>0, <2>1 DEF MadeStay
  <2>3. Tool(k[1])' = Tool(c) /\ ModelOf(k[1])' = ModelOf(c)
    BY <2>0, <2>1 DEF Tool, ModelOf
  <2>4. k[2] \in {"notes", "more"} /\ Tool(c) \in Compound => Noting(c)
    BY <2>0 DEF Noting
  <2>5. k[2] \in {"notes", "more"} /\ Tool(k[1])' \in Compound => IsPrefix(ModelOf(k[1])', Bound(base[c]))
    BY <1>4, <2>3, <2>4
  <2>6. \A j \in DOMAIN receipts' : j = k \/ (j \in DOMAIN receipts /\ receipts'[j] = receipts[j])
    BY <1>3, <2>0
  <2>7. receipts'[k].base = base[c]
    BY <1>3, <2>0
  <2>8. ASSUME NEW j \in DOMAIN receipts'
        PROVE  /\ pc'[j[1]] # "idle"
               /\ j[2] \in {"notes", "more"} /\ Tool(j[1])' \in Compound
                    => IsPrefix(ModelOf(j[1])', Bound(receipts'[j].base))
    <3>1. CASE j = k
      BY <2>2, <2>5, <2>7, <3>1
    <3>2. CASE j \in DOMAIN receipts /\ receipts'[j] = receipts[j]
      BY <1>5, <3>2
    <3> QED
      BY <2>6, <3>1, <3>2
  <2>9. \A j \in DOMAIN receipts' : Bound(receipts[j].base)' = Bound(receipts'[j].base)
    BY DEF Bound, Of
  <2> QED
    BY <2>8, <2>9 DEF ReceiptsBound
<1>12. ForksAreRaces'
  <2>1. ASSUME NEW h \in graphs, h # <<>>, Front(h) = base[c], g \in graphs' \ graphs
        PROVE  \/ Tool(c)' = "rebind" \/ c \in unlisted'
               \/ c \notin before'[writer'[h]] /\ writer'[h] \notin before'[c]
    <3>1. writer'[h] = writer[h] /\ writer[h] \in Calls
      BY <1>2, <2>1 DEF IInv, TypeOK, StoreTyped
    <3>2. CASE Tool(c) = "rebind" \/ c \in unlisted
      BY <3>2 DEF Tool
    <3>3. CASE Tool(c) # "rebind" /\ c \notin unlisted
      <4>1. FoundLate(c) /\ base[c] # None
        BY <1>1 DEF IInv, Sound, Ready
      <4>2. writer[h] \notin before[c]
        BY <1>4, <2>1, <3>3, <4>1 DEF FoundLate
      <4>3. c \notin before[writer[h]]
        BY <1>7, <3>1 DEF IInv, Sound, BeforeDone
      <4> QED
        BY <3>1, <4>2, <4>3
    <3> QED
      BY <3>2, <3>3
  <2>2. ASSUME NEW x \in graphs' \ {<<>>}, NEW y \in graphs' \ {<<>>}, x # y, Front(x) = Front(y)
        PROVE  \/ Overlap(writer[x], writer[y])'
               \/ \E k \in {x, y} : Tool(writer[k])' = "rebind" \/ writer'[k] \in unlisted'
    <3>1. CASE x \in graphs /\ y \in graphs
      BY <1>2, <2>2, <3>1, RacesStay
    <3>2. CASE x \notin graphs
      <4>1. x = g /\ y \in graphs /\ writer'[x] = c /\ g \in graphs' \ graphs
        BY <1>2, <2>2, <3>2
      <4>2. Tool(writer[x])' = Tool(c)'
        BY <4>1 DEF Tool
      <4>3. \/ Tool(c)' = "rebind" \/ c \in unlisted'
            \/ c \notin before'[writer'[y]] /\ writer'[y] \notin before'[c]
        BY <1>4, <2>1, <2>2, <4>1
      <4> QED
        BY <4>1, <4>2, <4>3 DEF Overlap
    <3>3. CASE y \notin graphs
      <4>1. y = g /\ x \in graphs /\ writer'[y] = c /\ g \in graphs' \ graphs
        BY <1>2, <2>2, <3>3
      <4>2. Tool(writer[y])' = Tool(c)'
        BY <4>1 DEF Tool
      <4>3. \/ Tool(c)' = "rebind" \/ c \in unlisted'
            \/ c \notin before'[writer'[x]] /\ writer'[x] \notin before'[c]
        BY <1>4, <2>1, <2>2, <4>1
      <4> QED
        BY <4>1, <4>2, <4>3 DEF Overlap
    <3> QED
      BY <3>1, <3>2, <3>3
  <2> QED
    BY <2>2 DEF ForksAreRaces
<1> QED
  BY <1>2, <1>3, <1>6, <1>8, <1>10, <1>11, <1>12 DEF IInv, Sound, TypeOK

(* A write that was refused, is uncertain, or was made.                    *)
LEMMA WriteKeeps == ASSUME IInv, NEW c \in Calls, Write(c) PROVE IInv'
<1> DEFINE g == Append(base[c], Addition(c, base[c]))
<1>1. /\ Writable(c) /\ Ready(c) /\ Key(c, pc[c]) \notin DOMAIN receipts
      /\ UNCHANGED <<models, req, before, unlisted>>
  BY DEF Write, Writable, inputVars
<1>2. StoreTyped /\ ReceiptsTyped /\ CallsTyped /\ RequestsAgree
  BY DEF IInv, TypeOK
<1>3. /\ InFlight(c) /\ pc[c] # "begin"
      /\ Tool(c) \in Compound /\ pc[c] = "rebind" => IsPrefix(ModelOf(c), Bound(g))
      /\ Noting(c) =>
           /\ IsPrefix(ModelOf(c), Bound(g)) /\ g # <<>>
           /\ LET r == g[Len(g)]
              IN  /\ r.kind = "note" /\ r.by = req[c].by /\ r.part = pc[c]
                  /\ Tool(c) = "carve" /\ pc[c] = "notes" => r.time = time[c]
  BY <1>1, WrittenIs
<1> HIDE DEF g
<1>4. faults \in Nat /\ (Fault => faults' \in Nat)
  BY <1>2, RecordsAssumption DEF ReceiptsTyped, Fault
<1>5. CASE Fault /\ End(c, "error") /\ UNCHANGED <<graphs, writer, receipts>>
  <2>1. StoreTyped' /\ ReceiptsTyped'
    BY <1>1, <1>2, <1>4, <1>5 DEF StoreTyped, ReceiptsTyped
  <2> QED
    BY <1>1, <1>3, <1>5, <2>1, EndKeeps
<1>6. CASE /\ Fault /\ End(c, "error") /\ Receive(c, base[c], FALSE)
           /\ Store(c, g) \/ UNCHANGED <<graphs, writer>>
  <2>1. graphs \subseteq graphs'
    BY <1>6 DEF Store
  <2>2. /\ CallFits(c)'
        /\ pc' \in [Calls -> {"idle", "revise", "rebind", "begin", "notes", "more", "done"}]
        /\ \A d \in Calls : /\ pc'[d] \in {"idle"} \cup StepsOf(Tool(d))
                            /\ told'[d] = "ok" => pc'[d] = "done"
        /\ at' \in [Calls -> graphs] /\ base' \in [Calls -> graphs \cup {None}]
        /\ time' \in [Calls -> Nat]
        /\ told' \in [Calls -> {"nothing", "ok", "error", "conflict", "lost"}]
    BY <1>1, <1>3, <1>6, EndFits
  <2>3. at' \in [Calls -> graphs'] /\ base' \in [Calls -> graphs' \cup {None}]
    BY <2>1, <2>2
  <2>4. CallsTyped'
    BY <1>1, <1>2, <2>1, <2>2, <2>3, MoveTyped
  <2>5. MadeStay /\ OthersStay(c) /\ RequestsAgree'
    BY <1>1, <1>2, <1>3, <1>6, MoveMade
  <2> QED
    BY <1>1, <1>4, <1>6, <2>2, <2>4, <2>5, WroteKeeps DEF g
<1>7. CASE Store(c, g) /\ Receive(c, base[c], TRUE) /\ Proceed(c, g) /\ faults' = faults
  <2>1. StoreTyped' /\ graphs \subseteq graphs' /\ g \in graphs'
    <3>1. g \in graphs'
      BY <1>7 DEF Store
    <3> QED
      BY <1>1, <1>7, <3>1, StoredTyped DEF g
  <2>2. /\ CallFits(c)'
        /\ pc' \in [Calls -> {"idle", "revise", "rebind", "begin", "notes", "more", "done"}]
        /\ \A d \in Calls : /\ pc'[d] \in {"idle"} \cup StepsOf(Tool(d))
                            /\ told'[d] = "ok" => pc'[d] = "done"
        /\ at' \in [Calls -> graphs'] /\ base' \in [Calls -> graphs' \cup {None}]
        /\ time' \in [Calls -> Nat]
        /\ told' \in [Calls -> {"nothing", "ok", "error", "conflict", "lost"}]
    BY <1>1, <1>3, <1>7, <2>1, ProceedFits
  <2>3. CallsTyped'
    BY <1>1, <1>2, <2>1, <2>2, MoveTyped
  <2>4. MadeStay /\ OthersStay(c) /\ RequestsAgree'
    BY <1>1, <1>2, <1>3, <1>7, MoveMade
  <2> QED
    BY <1>1, <1>4, <1>7, <2>1, <2>2, <2>3, <2>4, WroteKeeps DEF g
<1> QED
  BY <1>5, <1>6, <1>7 DEF Write, g

(* A restart ends the calls that were under way, and keeps the store.      *)
LEMMA RestartKeeps == ASSUME IInv, Restart PROVE IInv'
<1>1. CallsTyped /\ StoreTyped /\ ReceiptsTyped /\ RequestsAgree
  BY DEF IInv, TypeOK
<1>2. UNCHANGED <<models, graphs, writer, req, before, unlisted>> /\ receipts' = <<>>
  BY DEF Restart, storeVars, inputVars
<1>3. ASSUME NEW c \in Calls
      PROVE  /\ IF pc[c] \in {"idle", "done"} THEN pc'[c] = pc[c] /\ told'[c] = told[c] /\ at'[c] = at[c]
                ELSE pc'[c] = "done" /\ told'[c] = "lost" /\ at'[c] = <<>>
             /\ base'[c] = None /\ time'[c] = 0
  BY DEF Restart
<1>4. MadeStay
  BY <1>2, <1>3 DEF MadeStay
<1>5. RequestsAgree'
  BY <1>1, <1>2, <1>3, AgreeStay
<1>6. StoreTyped'
  BY <1>1, <1>2 DEF StoreTyped
<1>7. ReceiptsTyped'
  <2>1. faults' \in Nat
    BY <1>1, RecordsAssumption DEF Restart, Fault, ReceiptsTyped
  <2>2. DOMAIN receipts' = {}
    BY <1>2
  <2> QED
    BY <2>1, <2>2 DEF ReceiptsTyped
<1>8. CallsTyped'
  <2>1. \A c \in Calls : "done" \in StepsOf(Tool(c)) /\ Tool(c)' = Tool(c)
    BY <1>1, <1>2, WhereItIs DEF Tool
  <2>2. pc' \in [Calls -> {"idle", "revise", "rebind", "begin", "notes", "more", "done"}]
    BY <1>1 DEF Restart, CallsTyped
  <2>3. told' \in [Calls -> {"nothing", "ok", "error", "conflict", "lost"}]
    BY <1>1 DEF Restart, CallsTyped
  <2>4. at' \in [Calls -> graphs']
    <3>1. <<>> \in graphs
      BY <1>1 DEF StoreTyped
    <3> QED
      BY <1>1, <1>2, <3>1 DEF Restart, CallsTyped
  <2>5. base' \in [Calls -> graphs' \cup {None}] /\ time' \in [Calls -> Nat]
    BY DEF Restart
  <2>6. \A c \in Calls : pc'[c] \in {"idle"} \cup StepsOf(Tool(c))
    BY <1>1, <1>3, <2>1 DEF CallsTyped
  <2>7. \A c \in Calls : told'[c] = "ok" => pc'[c] = "done"
    BY <1>1, <1>3 DEF CallsTyped
  <2> QED
    BY <1>1, <1>2, <2>1, <2>2, <2>3, <2>4, <2>5, <2>6, <2>7 DEF CallsTyped
<1>9. /\ \A h \in graphs : GraphSound(h)'
      /\ \A h \in graphs \ {<<>>} : pc'[writer[h]] # "idle"
  BY <1>4, StoreFits
<1>10. ASSUME NEW c \in Calls
       PROVE  /\ FoundLate(c)' /\ BoundRight(c)' /\ BegunRight(c)' /\ Ended(c)'
              /\ \A d \in before'[c] : pc'[d] = "done"
  <2>1. pc'[c] \in {"idle", "done"} /\ base'[c] = None
    BY <1>3
  <2>2. FoundLate(c)' /\ BoundRight(c)' /\ BegunRight(c)'
    BY <2>1 DEF FoundLate, BoundRight, BegunRight, Noting
  <2>3. Ended(c)'
    <3>1. told'[c] = "ok" => told[c] = "ok" /\ at'[c] = at[c]
      BY <1>3
    <3>2. req'[c] = req[c] /\ Tool(c)' = Tool(c) /\ ModelOf(c)' = ModelOf(c)
      BY <1>2 DEF Tool, ModelOf
    <3>3. Ended(c)
      BY DEF IInv, Sound
    <3> QED
      BY <3>1, <3>2, <3>3 DEF Ended
  <2>4. \A d \in before[c] : d \in Calls /\ pc[d] = "done"
    BY <1>1 DEF IInv, Sound, BeforeDone, CallsTyped
  <2>5. \A d \in before'[c] : pc'[d] = "done"
    BY <1>2, <1>3, <2>4
  <2> QED
    BY <2>2, <2>3, <2>5
<1>11. ReceiptsBound'
  BY <1>2 DEF ReceiptsBound
<1>12. ForksAreRaces'
  BY <1>2, <1>4, RacesStay DEF ForksAreRaces
<1>13. WritersMade' /\ BeforeDone'
  BY <1>2, <1>9, <1>10 DEF WritersMade, BeforeDone
<1> QED
  BY <1>2, <1>5, <1>6, <1>7, <1>8, <1>9, <1>10, <1>11, <1>12, <1>13 DEF IInv, TypeOK, Sound

(* The graph that is found.                                                *)
LEMMA InitHolds == ASSUME Init PROVE IInv
<1>1. /\ models = {<<>>} /\ graphs = {<<>>} /\ writer = [g \in {<<>>} |-> None] /\ receipts = <<>> /\ faults = 0
      /\ req = [c \in Calls |-> [tool |-> "note", by |-> c, graph |-> <<>>, model |-> <<>>, about |-> None, on |-> FALSE]]
      /\ pc = [c \in Calls |-> "idle"] /\ told = [c \in Calls |-> "nothing"]
      /\ at = [c \in Calls |-> <<>>] /\ base = [c \in Calls |-> None]
      /\ time = [c \in Calls |-> 0] /\ before = [c \in Calls |-> {}] /\ unlisted = {}
  BY DEF Init
<1>2. StoreTyped
  BY <1>1 DEF StoreTyped
<1>3. ReceiptsTyped
  BY <1>1 DEF ReceiptsTyped
<1>4. CallsTyped
  <2>1. ASSUME NEW c \in Calls
        PROVE  [tool |-> "note", by |-> c, graph |-> <<>>, model |-> <<>>, about |-> None, on |-> FALSE] \in Requests
    BY DEF Requests, Tools, Recorders
  <2>2. req \in [Calls -> Requests] /\ \A c \in Calls : req[c].graph \in graphs /\ req[c].model \in models
    BY <1>1, <2>1
  <2> QED
    BY <1>1, <2>2 DEF CallsTyped
<1>5. RequestsAgree
  BY <1>1 DEF RequestsAgree
<1>6. GraphSound(<<>>)
  <2>1. \A kind : Of(<<>>, kind) = {}
    BY DEF Of
  <2>2. Bound(<<>>) = <<>> /\ Anchors(<<>>) = {}
    BY <2>1 DEF Bound, Anchors
  <2>3. \A n \in 0..Len(<<>>) : SubSeq(<<>>, 1, n) = <<>>
    <3>1. SubSeq(<<>>, 1, 0) = <<>> /\ 0..Len(<<>>) = {0}
      OBVIOUS
    <3> QED
      BY <3>1
  <2>4. IsPrefix(<<>>, <<>>)
    <3>1. <<>> \in Seq(Changes)
      OBVIOUS
    <3> QED
      BY <3>1, PrefixOrder
  <2> QED
    BY <2>1, <2>2, <2>3, <2>4 DEF GraphSound
<1>7. WritersMade /\ BeforeDone /\ ReceiptsBound /\ ForksAreRaces
  BY <1>1 DEF WritersMade, BeforeDone, ReceiptsBound, ForksAreRaces
<1>8. \A c \in Calls : FoundLate(c) /\ BoundRight(c) /\ BegunRight(c) /\ Ended(c)
  BY <1>1 DEF FoundLate, BoundRight, BegunRight, Ended, Noting, Writes
<1> QED
  BY <1>1, <1>2, <1>3, <1>4, <1>5, <1>6, <1>7, <1>8 DEF IInv, TypeOK, Sound

(* Nothing changes.                                                        *)
LEMMA StutterKeeps == ASSUME IInv, UNCHANGED vars PROVE IInv'
<1>1. /\ models' = models /\ graphs' = graphs /\ writer' = writer /\ receipts' = receipts /\ faults' = faults
      /\ req' = req /\ pc' = pc /\ told' = told /\ at' = at /\ base' = base /\ time' = time
      /\ before' = before /\ unlisted' = unlisted
  BY DEF vars, storeVars, callVars, inputVars
<1>2. TypeOK' /\ RequestsAgree'
  BY <1>1 DEF IInv, TypeOK, StoreTyped, CallsTyped, ReceiptsTyped, RequestsAgree, Tool
<1>3. MadeStay
  BY <1>1 DEF MadeStay
<1>4. \A h \in graphs : GraphSound(h)'
  BY <1>3, StoreFits
<1>5. \A c \in Calls : /\ Tool(c)' = Tool(c) /\ ModelOf(c)' = ModelOf(c) /\ Noting(c)' = Noting(c)
                       /\ \A step : Key(c, step)' = Key(c, step)
                       /\ Key(c, pc[c])' = Key(c, pc[c])
  BY <1>1 DEF Tool, ModelOf, Noting, Key
<1>6. ASSUME NEW c \in Calls PROVE FoundLate(c)' /\ BoundRight(c)' /\ BegunRight(c)' /\ Ended(c)'
  <2>1. FoundLate(c) /\ BoundRight(c) /\ BegunRight(c) /\ Ended(c)
    BY DEF IInv, Sound
  <2>2. FoundLate(c)'
    BY <1>1, <1>5, <2>1 DEF FoundLate
  <2>3. BoundRight(c)'
    BY <1>1, <1>5, <2>1 DEF BoundRight
  <2>4. BegunRight(c)'
    BY <1>1, <1>5, <2>1 DEF BegunRight
  <2>5. Ended(c)'
    BY <1>1, <1>5, <2>1 DEF Ended
  <2> QED
    BY <2>2, <2>3, <2>4, <2>5
<1>7. WritersMade' /\ BeforeDone' /\ ReceiptsBound'
  BY <1>1 DEF IInv, Sound, WritersMade, BeforeDone, ReceiptsBound, Tool, ModelOf
<1>8. ForksAreRaces'
  BY <1>1, <1>3, RacesStay DEF ForksAreRaces
<1> QED
  BY <1>1, <1>2, <1>4, <1>6, <1>7, <1>8 DEF IInv, Sound

(* The invariant holds whatever the calls do.                              *)
LEMMA Invariance == Spec => []IInv
<1>1. Init => IInv
  BY InitHolds
<1>2. IInv /\ [Next]_vars => IInv'
  <2> SUFFICES ASSUME IInv, [Next]_vars PROVE IInv'
    OBVIOUS
  <2>1. ASSUME NEW c \in Calls,
               Start(c) \/ Revise(c) \/ Begin(c) \/ Look(c) \/ Settled(c) \/ Repeat(c) \/ Write(c)
        PROVE  IInv'
    BY <2>1, StartKeeps, ReviseKeeps, BeginKeeps, LookKeeps, SettledKeeps, RepeatKeeps, WriteKeeps
  <2>2. CASE Restart
    BY <2>2, RestartKeeps
  <2>3. CASE UNCHANGED vars
    BY <2>3, StutterKeeps
  <2> QED
    BY <2>1, <2>2, <2>3 DEF Next
<1> QED
  BY <1>1, <1>2, PTL DEF Spec

-----------------------------------------------------------------------------
(* Theorems.                                                               *)

(* Every variable of the recording tools keeps its type, whatever calls    *)
(* are made, refused, lost or repeated: what the code assumes of a graph,  *)
(* a receipt and a call between its handlers.                              *)
THEOREM TypeInvariant == Spec => []TypeOK
<1>1. IInv => TypeOK
  BY DEF IInv
<1> QED
  BY <1>1, Invariance, PTL

(* No fork of a graph comes from calls that were made one after the other: *)
(* the receipt of a retry and the head a new call looks for suffice,       *)
(* through refusals, uncertain outcomes and restarts.                      *)
THEOREM ForksOnlyRace == Spec => []ForksAreRaces
<1>1. IInv => ForksAreRaces
  BY DEF IInv
<1> QED
  BY <1>1, Invariance, PTL

(* No note of a stored revision links to a record that the revision's      *)
(* model lacks, whatever was rebound and pruned.                           *)
THEOREM AnchorsHold == Spec => []AnchorsResolve
<1>1. IInv => AnchorsResolve
  BY DEF IInv, Sound, GraphSound, AnchorsResolve
<1> QED
  BY <1>1, Invariance, PTL

(* The notes of one call in a graph that is sound: of each part, one.      *)
LEMMA NotesOfOneTime ==
  ASSUME IInv, NEW g \in graphs, NEW i \in Of(g, "note"), NEW j \in Of(g, "note"), g[i].by = g[j].by
  PROVE  g[i].time = g[j].time
<1>1. GraphSound(g)
  BY DEF IInv, Sound
<1>2. \A k \in Of(g, "note") : g[k].part \in {"notes", "more"}
  BY NotesTyped DEF IInv, TypeOK, NoteRecords
<1>3. \A k, l \in Of(g, "note") : g[k].by = g[l].by /\ g[k].part = g[l].part => k = l
  BY <1>1 DEF GraphSound
<1>4. \A k \in Of(g, "note") : g[k].part = "more" =>
        \E l \in Of(g, "note") : g[l].by = g[k].by /\ g[l].part = "notes" /\ g[l].time = g[k].time
  BY <1>1 DEF GraphSound
<1>5. CASE g[i].part = g[j].part
  BY <1>3, <1>5
<1>6. CASE g[i].part = "more" /\ g[j].part = "notes"
  BY <1>3, <1>4, <1>6
<1>7. CASE g[i].part = "notes" /\ g[j].part = "more"
  BY <1>3, <1>4, <1>7
<1> QED
  BY <1>2, <1>5, <1>6, <1>7

(* A compound tool that was told it succeeded left all of its notes.       *)
LEMMA NotesOfEnded ==
  ASSUME IInv, NEW c \in Calls, told[c] = "ok", Tool(c) \in Compound
  PROVE  /\ IsPrefix(ModelOf(c), Bound(at[c]))
         /\ Cardinality(Notes(at[c], req[c].by)) = Len(Steps(Tool(c))) - 4
<1>1. PICK g \in graphs : g = at[c]
  BY DEF IInv, TypeOK, CallsTyped
<1>2. PICK by \in Calls : by = req[c].by
  BY DEF IInv, TypeOK, CallsTyped, Requests
<1>3. Tool(by) = Tool(c)
  BY <1>2 DEF IInv, RequestsAgree, Tool
<1>4. /\ g # <<>> /\ g[Len(g)].kind = "note" /\ g[Len(g)].by = by
      /\ g[Len(g)].part = (IF Tool(c) = "carve" THEN "more" ELSE "notes")
      /\ IsPrefix(ModelOf(c), Bound(g))
  BY <1>1, <1>2 DEF IInv, Sound, Ended
<1>5. GraphSound(g)
  BY DEF IInv, Sound
<1>6. /\ \A k \in Of(g, "note") : g[k].part \in {"notes", "more"}
      /\ g \in Seq(Records)
  BY NotesTyped DEF IInv, TypeOK, NoteRecords
<1>7. PICK n \in Of(g, "note") : n = Len(g)
  <2>1. Len(g) \in DOMAIN g
    BY <1>4, <1>6, EmptySeq
  <2> QED
    BY <1>4, <2>1 DEF Of
<1>8. \A k, l \in Of(g, "note") : g[k].by = g[l].by /\ g[k].part = g[l].part => k = l
  BY <1>5 DEF GraphSound
<1>9. CASE Tool(c) = "breadth"
  <2>1. \A k \in Of(g, "note") : g[k].by = by => g[k].part = "notes"
    BY <1>3, <1>5, <1>6, <1>9 DEF GraphSound
  <2>2. Notes(g, by) = {n}
    BY <1>4, <1>7, <1>8, <1>9, <2>1 DEF Notes
  <2>3. Cardinality({n}) = 1
    BY FS_Singleton
  <2>4. Len(Steps("breadth")) - 4 = 1
    BY DEF Steps
  <2>5. Cardinality(Notes(at[c], req[c].by)) = 1
    BY <1>1, <1>2, <2>2, <2>3, Zenon
  <2> QED
    BY <1>1, <1>4, <1>9, <2>4, <2>5
<1>10. CASE Tool(c) = "carve"
  <2>1. g[n].part = "more" /\ g[n].by = by
    BY <1>4, <1>7, <1>10
  <2>2. PICK m \in Of(g, "note") : g[m].by = by /\ g[m].part = "notes"
    BY <1>5, <1>7, <2>1 DEF GraphSound
  <2>3. Notes(g, by) = {m} \cup {n} /\ n \notin {m}
    BY <1>6, <1>8, <2>1, <2>2 DEF Notes
  <2>4. Cardinality({m} \cup {n}) = 2
    <3>1. IsFiniteSet({m}) /\ Cardinality({m}) = 1
      BY FS_Singleton
    <3>2. Cardinality({m} \cup {n}) = Cardinality({m}) + 1
      BY <2>3, <3>1, FS_AddElement, Zenon
    <3> QED
      BY <3>1, <3>2
  <2>5. Len(Steps("carve")) - 4 = 2
    BY DEF Steps
  <2>6. Cardinality(Notes(at[c], req[c].by)) = 2
    BY <1>1, <1>2, <2>3, <2>4, Zenon
  <2> QED
    BY <1>1, <1>4, <1>10, <2>5, <2>6
<1> QED
  BY <1>9, <1>10 DEF Compound

(* A carve's notes stand under one time on every line, and a compound tool *)
(* that reported success left its binding and all of its notes, whatever   *)
(* interleaved between its writes.                                         *)
THEOREM WholeRecords == Spec => []RecordedWhole
<1>1. IInv => RecordedWhole
  BY NotesOfOneTime, NotesOfEnded DEF RecordedWhole
<1> QED
  BY <1>1, Invariance, PTL
================================================================================
