---------------------------- MODULE Worlds_proofs ----------------------------
(***************************************************************************)
(* Proofs about the session of Worlds and the graphs that Narratives adds  *)
(* to it, for every set of models, worlds, queries, specs and graphs and   *)
(* every storage limit.                                                    *)
(***************************************************************************)
EXTENDS Narratives, SequenceTheorems, FiniteSetTheorems, WellFoundedInduction, TLAPS

-----------------------------------------------------------------------------
(* Heads and what extends them.                                            *)

(* The step that a candidate or a world revision adds to a head is a step. *)
LEMMA StepIsTyped ==
  /\ \A c \in Candidate : StepOf(c) \in CandidateStep /\ StepOf(c) \in Step
  /\ \A r \in WorldRevision : RevisionStepOf(r) \in RevisionStep /\ RevisionStepOf(r) \in Step
BY DEF StepOf, RevisionStepOf, Step, CandidateStep, RevisionStep, Candidate, WorldRevision

(* A genesis world is a world head.                                        *)
LEMMA GenesisIsHead ==
  ASSUME NEW w \in WorldIds, NEW m \in Models
  PROVE  /\ GenesisWorld(w, m) \in WorldHead
         /\ GenesisWorld(w, m).world = w
         /\ GenesisWorld(w, m).steps = <<>>
BY DEF GenesisWorld, WorldHead

(* A head extended by a step is a head of the same world.                  *)
LEMMA ExtendIsHead ==
  ASSUME NEW h \in WorldHead, NEW s \in Step
  PROVE  /\ Extend(h, s) \in WorldHead
         /\ Extend(h, s).world = h.world
         /\ Extend(h, s).genesis = h.genesis
         /\ Extend(h, s).steps = Append(h.steps, s)
BY DEF Extend, WorldHead

(* Replacing or adding one head keeps the worlds well formed.              *)
LEMMA WithHeadTyped ==
  ASSUME TypeOK, NEW w \in WorldIds, NEW h \in WorldHead, h.world = w
  PROVE  LET ws == WithHead(w, h)
         IN  /\ DOMAIN ws \subseteq WorldIds
             /\ ws \in [DOMAIN ws -> WorldHead]
             /\ \A v \in DOMAIN ws : ws[v].world = v
BY DEF TypeOK, WithHead

-----------------------------------------------------------------------------
(* Candidate tables.                                                       *)

(* Storing a new candidate keeps the candidates well formed.               *)
LEMMA InsertionTyped ==
  ASSUME TypeOK, NEW c \in Candidate, NEW path \in PathSpec, NEW S
  PROVE  LET cs == WithInsertion(c, path, S)
         IN  DOMAIN cs \subseteq Candidate /\ cs \in [DOMAIN cs -> Row]
BY DEF TypeOK, WithInsertion, Row, Status

(* Answering a stored candidate keeps the candidates well formed.          *)
LEMMA UpgradeTyped ==
  ASSUME TypeOK, NEW c, NEW path \in PathSpec, NEW S
  PROVE  LET cs == WithUpgrade(c, path, S)
         IN  DOMAIN cs \subseteq Candidate /\ cs \in [DOMAIN cs -> Row]
BY DEF TypeOK, WithUpgrade, Row, Status

(* Committing a candidate keeps the candidates well formed.                *)
LEMMA CommitTyped ==
  ASSUME TypeOK, NEW c
  PROVE  LET cs == WithCommit(c)
         IN  DOMAIN cs \subseteq Candidate /\ cs \in [DOMAIN cs -> Row]
BY DEF TypeOK, WithCommit, Row, Status

(* A new roll or reroll keeps the session well formed.                     *)
LEMMA InsertTypeOK ==
  ASSUME TypeOK, NEW c \in Candidate, NEW path \in PathSpec, NEW S, InsertCandidate(c, path, S)
  PROVE  TypeOK'
BY InsertionTyped DEF InsertCandidate, TypeOK

(* A roll or reroll answered from the store keeps the session well formed. *)
LEMMA AnswerTypeOK ==
  ASSUME TypeOK, NEW c, NEW path \in PathSpec, NEW S, AnswerExistingCandidate(c, path, S)
  PROVE  TypeOK'
BY UpgradeTyped DEF AnswerExistingCandidate, TypeOK

-----------------------------------------------------------------------------
(* Every reachable session is well formed.                                 *)
THEOREM TypeInvariant == Spec => []TypeOK
<1>1. Init => TypeOK
  BY DEF Init, TypeOK
<1>2. TypeOK /\ [Next]_vars => TypeOK'
  <2> SUFFICES ASSUME TypeOK, [Next]_vars PROVE TypeOK'
    OBVIOUS
  <2>1. ASSUME NEW m \in Models, RegisterModel(m) PROVE TypeOK'
    BY <2>1 DEF TypeOK, RegisterModel
  <2>2. ASSUME NEW m \in Models, ReviseModel(m) PROVE TypeOK'
    BY <2>2 DEF TypeOK, ReviseModel
  <2>3. ASSUME NEW w \in WorldIds, NEW m \in Models, CreateWorld(w, m) PROVE TypeOK'
    BY <2>3, GenesisIsHead, WithHeadTyped DEF TypeOK, CreateWorld
  <2>4. ASSUME NEW w \in WorldIds, NEW m \in Models, RefineGenesisWorld(w, m) PROVE TypeOK'
    BY <2>4, GenesisIsHead, WithHeadTyped DEF TypeOK, RefineGenesisWorld
  <2>5. ASSUME NEW w \in WorldIds, NEW m \in Models, NEW mode \in Modes, NEW spec \in Specs,
               ReviseWorld(w, m, mode, spec)
        PROVE  TypeOK'
    <3> DEFINE r == [source |-> worlds[w], model |-> m, mode |-> mode, spec |-> spec]
    <3>1. worlds[w] \in WorldHead /\ worlds[w].world = w
      BY <2>5 DEF TypeOK, ReviseWorld
    <3>2. r \in WorldRevision /\ r.source = worlds[w]
      BY <3>1 DEF WorldRevision
    <3>3. TargetHead(r) \in WorldHead /\ TargetHead(r).world = w
      BY <3>1, <3>2, StepIsTyped, ExtendIsHead DEF TargetHead
    <3> QED
      BY <2>5, <3>2, <3>3, WithHeadTyped DEF TypeOK, ReviseWorld
  <2>6. ASSUME NEW w \in WorldIds, NEW query \in Queries, NEW roll \in 0..MaxRoll,
               NEW path \in PathSpec, RollWorld(w, query, roll, path)
        PROVE  TypeOK'
    <3> DEFINE c == [parent |-> worlds[w], query |-> query, roll |-> roll]
    <3>1. c \in Candidate
      BY <2>6 DEF TypeOK, RollWorld, Candidate
    <3> QED
      BY <2>6, <3>1, InsertTypeOK, AnswerTypeOK DEF RollWorld
  <2>7. ASSUME NEW c \in DOMAIN candidates, RerollCandidate(c) PROVE TypeOK'
    <3> DEFINE next == [c EXCEPT !.roll = @ + 1]
    <3>1. c \in Candidate /\ candidates[c].path \in PathSpec
      BY DEF TypeOK, Row
    <3>2. next \in Candidate
      BY <2>7, <3>1, RollAssumption DEF RerollCandidate, Candidate
    <3> QED
      BY <2>7, <3>1, <3>2, InsertTypeOK, AnswerTypeOK DEF RerollCandidate
  <2>8. ASSUME NEW c \in DOMAIN candidates, RejectCandidate(c) PROVE TypeOK'
    BY <2>8 DEF TypeOK, RejectCandidate, Row, Status
  <2>9. ASSUME NEW c \in DOMAIN candidates, CommitCandidate(c) PROVE TypeOK'
    <3>1. c \in Candidate /\ c.parent \in WorldHead /\ c.parent.world \in WorldIds
      BY DEF TypeOK, Candidate, WorldHead
    <3>2. ProposedHead(c) \in WorldHead /\ ProposedHead(c).world = c.parent.world
      BY <3>1, StepIsTyped, ExtendIsHead DEF ProposedHead
    <3> QED
      BY <2>9, <3>1, <3>2, WithHeadTyped, CommitTyped DEF TypeOK, CommitCandidate
  <2>10. CASE UNCHANGED vars
    BY <2>10 DEF TypeOK, vars
  <2> QED
    BY <2>1, <2>2, <2>3, <2>4, <2>5, <2>6, <2>7, <2>8, <2>9, <2>10 DEF Next
<1> QED
  BY <1>1, <1>2, PTL DEF Spec

-----------------------------------------------------------------------------
(* Extending a head leaves every earlier head as it was.                   *)
LEMMA AncestorsKept ==
  ASSUME NEW h \in WorldHead, NEW s \in Step
  PROVE  /\ DOMAIN Extend(h, s).steps = 1..(Len(h.steps) + 1)
         /\ \A n \in DOMAIN h.steps :
              /\ n \in DOMAIN Extend(h, s).steps
              /\ Extend(h, s).steps[n] = h.steps[n]
              /\ Ancestor(Extend(h, s), n - 1) = Ancestor(h, n - 1)
         /\ Extend(h, s).steps[Len(h.steps) + 1] = s
         /\ Ancestor(Extend(h, s), Len(h.steps)) = h
<1> DEFINE e == Extend(h, s)
<1>1. h.steps \in Seq(Step) /\ e \in WorldHead /\ e.steps = Append(h.steps, s)
  BY ExtendIsHead DEF WorldHead
<1>2. /\ DOMAIN h.steps = 1..Len(h.steps)
      /\ DOMAIN e.steps = 1..(Len(h.steps) + 1)
      /\ e.steps[Len(h.steps) + 1] = s
      /\ \A n \in 1..Len(h.steps) : e.steps[n] = h.steps[n]
  BY <1>1
<1>3. \A n \in 1..(Len(h.steps) + 1) : SubSeq(e.steps, 1, n - 1) = SubSeq(h.steps, 1, n - 1)
  BY <1>1, <1>2
<1>4. SubSeq(e.steps, 1, Len(h.steps)) = h.steps
  BY <1>1, <1>2
<1>5. /\ Ancestor(e, Len(h.steps)) = h
      /\ \A n \in DOMAIN h.steps : Ancestor(e, n - 1) = Ancestor(h, n - 1)
  BY <1>1, <1>2, <1>3, <1>4, ExtendIsHead DEF Ancestor, Extend, WorldHead
<1> QED
  BY <1>2, <1>5

(* The record an accepted step names is the record that was accepted.      *)
LEMMA RecordsReadBack ==
  /\ \A c \in Candidate : CandidateFor(c.parent, StepOf(c)) = c /\ StepOf(c).kind = "roll"
  /\ \A r \in WorldRevision : RevisionFor(r.source, RevisionStepOf(r)) = r
                              /\ RevisionStepOf(r).kind = "revision"
BY DEF Candidate, WorldRevision, CandidateFor, StepOf, RevisionFor, RevisionStepOf

(* A step accepted on a world's head is backed by its own record only.     *)
LEMMA AcceptKeepsLineage ==
  ASSUME TypeOK, TypeOK', LineageRestores,
         NEW w \in DOMAIN worlds, NEW s \in Step,
         worlds' = WithHead(w, Extend(worlds[w], s)),
         \/ /\ s.kind = "roll"
            /\ Committed' = Committed \cup {CandidateFor(worlds[w], s)}
            /\ revisions' = revisions
            /\ StepOf(CandidateFor(worlds[w], s)) = s
         \/ /\ s.kind = "revision"
            /\ Committed' = Committed
            /\ revisions' = revisions \cup {RevisionFor(worlds[w], s)}
            /\ RevisionStepOf(RevisionFor(worlds[w], s)) = s
  PROVE  LineageRestores'
<1>1. worlds[w] \in WorldHead /\ worlds[w].world = w
  BY DEF TypeOK
<1>2. /\ DOMAIN worlds' = DOMAIN worlds
      /\ worlds'[w] = Extend(worlds[w], s)
      /\ \A v \in DOMAIN worlds : v # w => worlds'[v] = worlds[v]
  BY DEF WithHead
<1>3. ASSUME NEW h, NEW t, AcceptedOn(h, t) PROVE AcceptedOn(h, t)'
  <2>1. CASE h.world = w
    BY <1>1, <1>2, <1>3, <2>1, AncestorsKept DEF AcceptedOn
  <2>2. CASE h.world # w
    BY <1>2, <1>3, <2>2 DEF AcceptedOn
  <2> QED
    BY <2>1, <2>2
<1>4. ASSUME NEW h, h = worlds[w] PROVE AcceptedOn(h, s)'
  <2>1. Len(worlds[w].steps) + 1 \in DOMAIN worlds'[w].steps
    BY <1>1, <1>2, AncestorsKept DEF WorldHead
  <2>2. (Len(worlds[w].steps) + 1) - 1 = Len(worlds[w].steps)
    BY <1>1 DEF WorldHead
  <2>3. /\ worlds'[w].steps[Len(worlds[w].steps) + 1] = s
        /\ Ancestor(worlds'[w], Len(worlds[w].steps)) = worlds[w]
    BY <1>1, <1>2, AncestorsKept
  <2>4. \E n \in DOMAIN worlds'[w].steps :
          worlds'[w].steps[n] = s /\ Ancestor(worlds'[w], n - 1) = worlds[w]
    BY <2>1, <2>2, <2>3
  <2> QED
    BY <1>1, <1>2, <1>4, <2>4 DEF AcceptedOn
<1>5. \A v \in DOMAIN worlds' : \A n \in DOMAIN worlds'[v].steps :
        \/ /\ v \in DOMAIN worlds /\ n \in DOMAIN worlds[v].steps
           /\ worlds'[v].steps[n] = worlds[v].steps[n]
           /\ Ancestor(worlds'[v], n - 1) = Ancestor(worlds[v], n - 1)
        \/ /\ worlds'[v].steps[n] = s
           /\ Ancestor(worlds'[v], n - 1) = worlds[w]
  <2> SUFFICES ASSUME NEW v \in DOMAIN worlds', NEW n \in DOMAIN worlds'[v].steps
               PROVE  \/ /\ v \in DOMAIN worlds /\ n \in DOMAIN worlds[v].steps
                         /\ worlds'[v].steps[n] = worlds[v].steps[n]
                         /\ Ancestor(worlds'[v], n - 1) = Ancestor(worlds[v], n - 1)
                      \/ /\ worlds'[v].steps[n] = s
                         /\ Ancestor(worlds'[v], n - 1) = worlds[w]
    OBVIOUS
  <2>1. CASE v # w
    BY <1>2, <2>1
  <2>2. CASE v = w /\ n \in DOMAIN worlds[w].steps
    BY <1>1, <1>2, <2>2, AncestorsKept
  <2>3. CASE v = w /\ n \notin DOMAIN worlds[w].steps
    <3>1. n = Len(worlds[w].steps) + 1
      BY <1>1, <1>2, <2>3, AncestorsKept DEF WorldHead
    <3>2. n - 1 = Len(worlds[w].steps)
      BY <3>1, <1>1 DEF WorldHead
    <3> QED
      BY <1>1, <1>2, <2>3, <3>1, <3>2, AncestorsKept
  <2> QED
    BY <2>1, <2>2, <2>3
<1>6. CandidateFor(worlds[w], s).parent = worlds[w] /\ RevisionFor(worlds[w], s).source = worlds[w]
  BY DEF CandidateFor, RevisionFor
<1>7. /\ \A c \in Committed' : AcceptedOn(c.parent, StepOf(c))'
      /\ \A r \in revisions' : AcceptedOn(r.source, RevisionStepOf(r))'
  <2>1. \A c \in Committed : AcceptedOn(c.parent, StepOf(c))'
    BY <1>3 DEF LineageRestores
  <2>2. \A r \in revisions : AcceptedOn(r.source, RevisionStepOf(r))'
    BY <1>3 DEF LineageRestores
  <2>3. CASE s.kind = "roll" /\ Committed' = Committed \cup {CandidateFor(worlds[w], s)}
    BY <1>4, <1>6, <2>1, <2>2, <2>3
  <2>4. CASE s.kind = "revision" /\ revisions' = revisions \cup {RevisionFor(worlds[w], s)}
    BY <1>4, <1>6, <2>1, <2>2, <2>4
  <2> QED
    BY <2>3, <2>4
<1>8. \A v \in DOMAIN worlds' : \A n \in DOMAIN worlds'[v].steps :
        /\ worlds'[v].steps[n].kind = "roll" =>
             CandidateFor(Ancestor(worlds'[v], n - 1), worlds'[v].steps[n]) \in Committed'
        /\ worlds'[v].steps[n].kind = "revision" =>
             RevisionFor(Ancestor(worlds'[v], n - 1), worlds'[v].steps[n]) \in revisions'
  BY <1>5 DEF LineageRestores
<1> QED
  BY <1>7, <1>8 DEF LineageRestores

(* A world that has no accepted step yet adds nothing to check.            *)
LEMMA FreshWorldKeepsLineage ==
  ASSUME TypeOK, LineageRestores, NEW w \in WorldIds, NEW m \in Models,
         w \in DOMAIN worlds => worlds[w].steps = <<>>,
         worlds' = WithHead(w, GenesisWorld(w, m)),
         candidates' = candidates, revisions' = revisions
  PROVE  LineageRestores'
<1>1. /\ DOMAIN worlds' = DOMAIN worlds \cup {w}
      /\ worlds'[w].steps = <<>>
      /\ \A v \in DOMAIN worlds : v # w => worlds'[v] = worlds[v]
  BY GenesisIsHead DEF WithHead
<1>2. DOMAIN <<>> = {}
  OBVIOUS
<1>3. Committed' = Committed
  BY DEF Committed
<1>4. ASSUME NEW h, NEW t, AcceptedOn(h, t) PROVE AcceptedOn(h, t)'
  BY <1>1, <1>2, <1>4 DEF AcceptedOn
<1> QED
  BY <1>1, <1>2, <1>3, <1>4 DEF LineageRestores

(* A command that moves no head, accepts nothing and forgets nothing       *)
(* accepted keeps the lineage.                                             *)
LEMMA SameHeadsKeepLineage ==
  ASSUME LineageRestores, worlds' = worlds, revisions' = revisions, Committed' = Committed
  PROVE  LineageRestores'
BY DEF LineageRestores, AcceptedOn

-----------------------------------------------------------------------------
(* What each candidate command does to the three classes of candidates.    *)

(* A new candidate is pending and what it supersedes is closed.            *)
LEMMA InsertEffect ==
  ASSUME TypeOK, NEW c, NEW path, NEW S, S \subseteq Pending, InsertCandidate(c, path, S)
  PROVE  /\ Pending' = (Pending \ S) \cup {c}
         /\ Closed' = Closed \cup S
         /\ Committed' = Committed
<1>1. /\ candidates' = WithInsertion(c, path, S)
      /\ c \notin DOMAIN candidates /\ S \subseteq DOMAIN candidates
      /\ DOMAIN candidates' = DOMAIN candidates \cup {c}
  BY DEF InsertCandidate, WithInsertion, Pending
<1>2. candidates'[c].status = "Pending"
  BY <1>1 DEF WithInsertion
<1>3. \A d \in DOMAIN candidates :
        candidates'[d].status = IF d \in S THEN "Superseded" ELSE candidates[d].status
  BY <1>1 DEF WithInsertion, TypeOK, Row
<1> QED
  BY <1>1, <1>2, <1>3 DEF Pending, Closed, Committed

(* A roll answered from the store only closes what it supersedes.          *)
LEMMA AnswerEffect ==
  ASSUME TypeOK, NEW c, NEW path, NEW S, S \subseteq Pending, AnswerExistingCandidate(c, path, S)
  PROVE  /\ Pending' = Pending \ S
         /\ Closed' = Closed \cup S
         /\ Committed' = Committed
<1>1. /\ candidates' = WithUpgrade(c, path, S)
      /\ S \subseteq DOMAIN candidates
      /\ DOMAIN candidates' = DOMAIN candidates
  BY DEF AnswerExistingCandidate, WithUpgrade, Pending
<1>2. \A d \in DOMAIN candidates :
        candidates'[d].status = IF d \in S THEN "Superseded" ELSE candidates[d].status
  BY <1>1 DEF WithUpgrade
<1> QED
  BY <1>1, <1>2 DEF Pending, Closed, Committed

(* Rejection closes one pending candidate.                                 *)
LEMMA RejectEffect ==
  ASSUME TypeOK, NEW c, RejectCandidate(c)
  PROVE  /\ Pending' = Pending \ {c}
         /\ Closed' = Closed \cup {c}
         /\ Committed' = Committed
<1>1. /\ c \in DOMAIN candidates /\ candidates[c].status = "Pending"
      /\ candidates' = [candidates EXCEPT ![c].status = "Rejected"]
  BY DEF RejectCandidate, Pending
<1>2. DOMAIN candidates' = DOMAIN candidates
  BY <1>1
<1>3. \A d \in DOMAIN candidates :
        candidates'[d].status = IF d = c THEN "Rejected" ELSE candidates[d].status
  BY <1>1 DEF TypeOK, Row
<1> QED
  BY <1>1, <1>2, <1>3 DEF Pending, Closed, Committed

(* A commit closes the rivals of the candidate it commits.                 *)
LEMMA CommitEffect ==
  ASSUME TypeOK, NEW c, CommitCandidate(c)
  PROVE  /\ c \in Rivals(c)
         /\ Pending' = Pending \ Rivals(c)
         /\ Closed' = Closed \cup (Rivals(c) \ {c})
         /\ Committed' = Committed \cup {c}
<1>1. /\ candidates' = WithCommit(c)
      /\ c \in Rivals(c) /\ Rivals(c) \subseteq Pending
      /\ DOMAIN candidates' = DOMAIN candidates
  BY DEF CommitCandidate, WithCommit, Rivals
<1>2. \A d \in DOMAIN candidates :
        candidates'[d].status = IF d = c THEN "Committed"
                                ELSE IF d \in Rivals(c) THEN "Superseded"
                                ELSE candidates[d].status
  BY <1>1 DEF WithCommit, TypeOK, Row
<1> QED
  BY <1>1, <1>2 DEF Pending, Closed, Committed

(* A new candidate is rolled from the head of its world.                   *)
LEMMA RollEffect ==
  ASSUME TypeOK, NEW w, NEW query \in Queries, NEW roll \in 0..MaxRoll, NEW path,
         RollWorld(w, query, roll, path)
  PROVE  LET c == [parent |-> worlds[w], query |-> query, roll |-> roll]
         IN  /\ c.parent.world = w /\ worlds[w] = c.parent
             /\ \/ InsertCandidate(c, path, {})
                \/ AnswerExistingCandidate(c, path, {})
BY DEF RollWorld, TypeOK

(* A reroll stores the next roll of a head that is current, or answers a   *)
(* stored one.                                                             *)
LEMMA RerollEffect ==
  ASSUME TypeOK, NEW c, RerollCandidate(c)
  PROVE  LET next == [parent |-> c.parent, query |-> c.query, roll |-> c.roll + 1]
             path == candidates[c].path
             source == Pending \cap {c}
         IN  \/ /\ next.parent.world \in DOMAIN worlds
                /\ worlds[next.parent.world] = next.parent
                /\ InsertCandidate(next, path, source)
             \/ AnswerExistingCandidate(next, path, source)
<1>1. c = [parent |-> c.parent, query |-> c.query, roll |-> c.roll]
  BY DEF RerollCandidate, TypeOK, Candidate
<1>2. [c EXCEPT !.roll = @ + 1] = [parent |-> c.parent, query |-> c.query, roll |-> c.roll + 1]
  BY <1>1
<1> QED
  BY <1>2 DEF RerollCandidate

-----------------------------------------------------------------------------
(* A committed candidate was accepted strictly below the head of its world. *)
LEMMA CommittedBelowHead ==
  ASSUME TypeOK, LineageRestores, NEW c \in Committed
  PROVE  worlds[c.parent.world] # c.parent
<1>1. PICK n \in DOMAIN worlds[c.parent.world].steps :
        Ancestor(worlds[c.parent.world], n - 1) = c.parent
  BY DEF LineageRestores, AcceptedOn
<1>2. worlds[c.parent.world] \in WorldHead
  BY DEF LineageRestores, AcceptedOn, TypeOK
<1> DEFINE steps == worlds[c.parent.world].steps
<1>3. steps \in Seq(Step) /\ n \in 1..Len(steps) /\ Len(steps) \in Nat
  BY <1>1, <1>2 DEF WorldHead
<1>4. c.parent.steps = SubSeq(steps, 1, n - 1)
  BY <1>1 DEF Ancestor
<1>5. Len(c.parent.steps) = n - 1
  BY <1>3, <1>4
<1> QED
  BY <1>3, <1>5

IInv == TypeOK /\ LineageRestores /\ NoRivalPending

(* A candidate rolled from the head of its world has no committed rival.   *)
LEMMA InsertKeeps ==
  ASSUME IInv, NEW c, NEW path, NEW S, S \subseteq Pending,
         worlds[c.parent.world] = c.parent, InsertCandidate(c, path, S)
  PROVE  LineageRestores' /\ NoRivalPending'
<1>1. LineageRestores'
  BY InsertEffect, SameHeadsKeepLineage DEF InsertCandidate, IInv
<1>2. \A d \in Committed : d.parent # c.parent
  BY CommittedBelowHead DEF IInv
<1> QED
  BY <1>1, <1>2, InsertEffect DEF NoRivalPending, IInv

(* A roll answered from the store revives no rival of a committed          *)
(* candidate.                                                              *)
LEMMA AnswerKeeps ==
  ASSUME IInv, NEW c, NEW path, NEW S, S \subseteq Pending, AnswerExistingCandidate(c, path, S)
  PROVE  LineageRestores' /\ NoRivalPending'
<1>1. LineageRestores'
  BY AnswerEffect, SameHeadsKeepLineage DEF AnswerExistingCandidate, IInv
<1> QED
  BY <1>1, AnswerEffect DEF NoRivalPending, IInv

(* The accepted path of every world is backed by its records and by those  *)
(* only, and no committed candidate has a pending rival: what commit       *)
(* leaves, every later roll, reroll and revision keeps.                    *)
THEOREM LineageInvariant == Spec => [](LineageRestores /\ NoRivalPending)
<1>1. Init => IInv
  <2> SUFFICES ASSUME Init PROVE LineageRestores /\ NoRivalPending
    BY DEF IInv, Init, TypeOK
  <2>1. DOMAIN worlds = {} /\ Committed = {} /\ revisions = {}
    BY DEF Init, Committed
  <2> QED
    BY <2>1 DEF LineageRestores, NoRivalPending
<1>2. IInv /\ TypeOK' /\ [Next]_vars => IInv'
  <2> SUFFICES ASSUME IInv, TypeOK', [Next]_vars PROVE LineageRestores' /\ NoRivalPending'
    BY DEF IInv
  <2> USE DEF IInv
  <2>1. ASSUME NEW m \in Models, RegisterModel(m) \/ ReviseModel(m)
        PROVE  LineageRestores' /\ NoRivalPending'
    <3>1. UNCHANGED <<worlds, revisions, candidates>>
      BY <2>1 DEF RegisterModel, ReviseModel
    <3>2. Committed' = Committed /\ Pending' = Pending
      BY <3>1 DEF Committed, Pending
    <3> QED
      BY <3>1, <3>2, SameHeadsKeepLineage DEF NoRivalPending
  <2>2. ASSUME NEW w \in WorldIds, NEW m \in Models, CreateWorld(w, m) \/ RefineGenesisWorld(w, m)
        PROVE  LineageRestores' /\ NoRivalPending'
    <3>1. /\ worlds' = WithHead(w, GenesisWorld(w, m))
          /\ w \in DOMAIN worlds => worlds[w].steps = <<>>
          /\ UNCHANGED <<revisions, candidates>>
      <4>1. GenesisWorld(w, ModelOf(worlds[w])).steps = <<>>
        BY DEF GenesisWorld
      <4>2. CASE CreateWorld(w, m)
        BY <4>2 DEF CreateWorld
      <4>3. CASE RefineGenesisWorld(w, m)
        BY <4>1, <4>3 DEF RefineGenesisWorld
      <4> QED
        BY <2>2, <4>2, <4>3
    <3>2. Committed' = Committed /\ Pending' = Pending
      BY <3>1 DEF Committed, Pending
    <3> QED
      BY <3>1, <3>2, FreshWorldKeepsLineage DEF NoRivalPending
  <2>3. ASSUME NEW w \in WorldIds, NEW m \in Models, NEW mode \in Modes, NEW spec \in Specs,
               ReviseWorld(w, m, mode, spec)
        PROVE  LineageRestores' /\ NoRivalPending'
    <3> DEFINE r == [source |-> worlds[w], model |-> m, mode |-> mode, spec |-> spec]
               s == RevisionStepOf(r)
    <3>1. r \in WorldRevision /\ w \in DOMAIN worlds
      BY <2>3 DEF TypeOK, ReviseWorld, WorldRevision
    <3>2. s \in Step /\ s.kind = "revision" /\ RevisionFor(worlds[w], s) = r
      BY <3>1, StepIsTyped, RecordsReadBack
    <3>3. /\ worlds' = WithHead(w, Extend(worlds[w], s))
          /\ revisions' = revisions \cup {RevisionFor(worlds[w], s)}
          /\ candidates' = candidates
      BY <2>3, <3>2 DEF ReviseWorld, TargetHead
    <3>4. Committed' = Committed /\ Pending' = Pending
      BY <3>3 DEF Committed, Pending
    <3> HIDE DEF s, r
    <3>5. LineageRestores'
      BY <3>1, <3>2, <3>3, <3>4, AcceptKeepsLineage DEF s
    <3> QED
      BY <3>4, <3>5 DEF NoRivalPending
  <2>4. ASSUME NEW w \in WorldIds, NEW query \in Queries, NEW roll \in 0..MaxRoll,
               NEW path \in PathSpec, RollWorld(w, query, roll, path)
        PROVE  LineageRestores' /\ NoRivalPending'
    <3> DEFINE c == [parent |-> worlds[w], query |-> query, roll |-> roll]
    <3>1. /\ worlds[c.parent.world] = c.parent
          /\ InsertCandidate(c, path, {}) \/ AnswerExistingCandidate(c, path, {})
      BY <2>4, RollEffect
    <3>2. {} \subseteq Pending
      OBVIOUS
    <3> HIDE DEF c
    <3> QED
      BY <3>1, <3>2, InsertKeeps, AnswerKeeps
  <2>5. ASSUME NEW c \in DOMAIN candidates, RerollCandidate(c)
        PROVE  LineageRestores' /\ NoRivalPending'
    <3>1. Pending \cap {c} \subseteq Pending
      OBVIOUS
    <3> QED
      BY <2>5, <3>1, RerollEffect, InsertKeeps, AnswerKeeps
  <2>6. ASSUME NEW c \in DOMAIN candidates, RejectCandidate(c)
        PROVE  LineageRestores' /\ NoRivalPending'
    <3>1. LineageRestores'
      BY <2>6, RejectEffect, SameHeadsKeepLineage DEF RejectCandidate
    <3> QED
      BY <2>6, <3>1, RejectEffect DEF NoRivalPending
  <2>7. ASSUME NEW c \in DOMAIN candidates, CommitCandidate(c)
        PROVE  LineageRestores' /\ NoRivalPending'
    <3> DEFINE w == c.parent.world
               s == StepOf(c)
    <3>1. c \in Candidate /\ w \in DOMAIN worlds /\ worlds[w] = c.parent
      BY <2>7 DEF TypeOK, CommitCandidate
    <3>2. s \in Step /\ s.kind = "roll" /\ CandidateFor(worlds[w], s) = c
      BY <3>1, StepIsTyped, RecordsReadBack
    <3>3. worlds' = WithHead(w, Extend(worlds[w], s)) /\ revisions' = revisions
      BY <2>7, <3>1 DEF CommitCandidate, ProposedHead
    <3>4. Committed' = Committed \cup {CandidateFor(worlds[w], s)}
      BY <2>7, <3>2, CommitEffect
    <3>5. NoRivalPending'
      BY <2>7, CommitEffect DEF NoRivalPending, Rivals
    <3> HIDE DEF w, s
    <3>6. StepOf(CandidateFor(worlds[w], s)) = s
      BY <3>2 DEF s
    <3> QED
      BY <3>1, <3>2, <3>3, <3>4, <3>5, <3>6, AcceptKeepsLineage
  <2>8. CASE UNCHANGED vars
    <3>1. Committed' = Committed /\ Pending' = Pending
      BY <2>8 DEF vars, Committed, Pending
    <3> QED
      BY <2>8, <3>1, SameHeadsKeepLineage DEF NoRivalPending, vars
  <2> QED
    BY <2>1, <2>2, <2>3, <2>4, <2>5, <2>6, <2>7, <2>8 DEF Next
<1> QED
  BY <1>1, <1>2, TypeInvariant, PTL DEF Spec, IInv

-----------------------------------------------------------------------------
(* No candidate of a head is left pending once one of that head is         *)
(* committed.                                                              *)
THEOREM OneFuturePerHead == Spec => []NoRivalPending
BY LineageInvariant, PTL

(* No command rewrites what a world has accepted.                          *)
THEOREM HistoryIsAppendOnly == Spec => HistoryOnlyExtends
<1>1. TypeOK /\ [Next]_vars =>
        [\A w \in DOMAIN worlds :
           /\ w \in DOMAIN worlds'
           /\ \/ worlds'[w] = worlds[w]
              \/ \E s \in Step : worlds'[w] = Extend(worlds[w], s)
              \/ /\ worlds[w].steps = <<>> /\ worlds'[w].steps = <<>>
                 /\ DirectNext(worlds[w].genesis, worlds'[w].genesis)]_vars
  <2> DEFINE Stays(w) == /\ w \in DOMAIN worlds'
                         /\ \/ worlds'[w] = worlds[w]
                            \/ \E s \in Step : worlds'[w] = Extend(worlds[w], s)
                            \/ /\ worlds[w].steps = <<>> /\ worlds'[w].steps = <<>>
                               /\ DirectNext(worlds[w].genesis, worlds'[w].genesis)
  <2> SUFFICES ASSUME TypeOK, Next, NEW w \in DOMAIN worlds PROVE Stays(w)
    OBVIOUS
  <2>1. ASSUME NEW m \in Models, RegisterModel(m) \/ ReviseModel(m) PROVE Stays(w)
    BY <2>1 DEF RegisterModel, ReviseModel
  <2>2. ASSUME NEW v \in WorldIds, NEW m \in Models, CreateWorld(v, m) PROVE Stays(w)
    BY <2>2 DEF CreateWorld, WithHead
  <2>3. ASSUME NEW v \in WorldIds, NEW m \in Models, RefineGenesisWorld(v, m) PROVE Stays(w)
    <3>1. CASE v # w
      BY <2>3, <3>1 DEF RefineGenesisWorld, WithHead
    <3>2. CASE v = w
      <4>1. worlds'[w] = GenesisWorld(w, m)
        BY <2>3, <3>2 DEF RefineGenesisWorld, WithHead
      <4>2. worlds[w].genesis = ModelOf(worlds[w]) /\ worlds[w].steps = <<>>
        <5>1. worlds[w] = GenesisWorld(w, ModelOf(worlds[w]))
          BY <2>3, <3>2 DEF RefineGenesisWorld
        <5> QED
          BY <5>1 DEF GenesisWorld
      <4>3. worlds'[w].genesis = m /\ worlds'[w].steps = <<>>
        BY <4>1 DEF GenesisWorld
      <4>4. DirectNext(ModelOf(worlds[w]), m) /\ w \in DOMAIN worlds'
        BY <2>3, <3>2 DEF RefineGenesisWorld, WithHead
      <4> QED
        BY <4>2, <4>3, <4>4
    <3> QED
      BY <3>1, <3>2
  <2>4. ASSUME NEW v \in WorldIds, NEW m \in Models, NEW mode \in Modes, NEW spec \in Specs,
               ReviseWorld(v, m, mode, spec)
        PROVE  Stays(w)
    <3> DEFINE r == [source |-> worlds[v], model |-> m, mode |-> mode, spec |-> spec]
    <3>1. r \in WorldRevision /\ r.source = worlds[v]
      BY <2>4 DEF TypeOK, ReviseWorld, WorldRevision
    <3>2. RevisionStepOf(r) \in Step
      BY <3>1, StepIsTyped
    <3>3. worlds' = WithHead(v, Extend(worlds[v], RevisionStepOf(r)))
      BY <2>4 DEF ReviseWorld, TargetHead
    <3> QED
      BY <3>2, <3>3 DEF WithHead
  <2>5. ASSUME NEW v \in WorldIds, NEW query \in Queries, NEW roll \in 0..MaxRoll,
               NEW path \in PathSpec, RollWorld(v, query, roll, path)
        PROVE  Stays(w)
    BY <2>5 DEF RollWorld, InsertCandidate, AnswerExistingCandidate
  <2>6. ASSUME NEW c \in DOMAIN candidates, RerollCandidate(c) \/ RejectCandidate(c) PROVE Stays(w)
    BY <2>6 DEF RerollCandidate, InsertCandidate, AnswerExistingCandidate, RejectCandidate
  <2>7. ASSUME NEW c \in DOMAIN candidates, CommitCandidate(c) PROVE Stays(w)
    <3>1. StepOf(c) \in Step
      BY StepIsTyped DEF TypeOK
    <3>2. /\ worlds' = WithHead(c.parent.world, Extend(c.parent, StepOf(c)))
          /\ worlds[c.parent.world] = c.parent
      BY <2>7 DEF CommitCandidate, ProposedHead
    <3> QED
      BY <3>1, <3>2 DEF WithHead
  <2> QED
    BY <2>1, <2>2, <2>3, <2>4, <2>5, <2>6, <2>7 DEF Next
<1> QED
  BY <1>1, TypeInvariant, PTL DEF Spec, HistoryOnlyExtends

(* No command loses a candidate, decides one twice or thins a kept path.   *)
THEOREM CandidatesSettle == Spec => CandidatesOnlySettle
<1> DEFINE Settles(c) == /\ c \in DOMAIN candidates'
                         /\ candidates[c].status # "Pending" => candidates'[c].status = candidates[c].status
                         /\ \/ candidates'[c].path = candidates[c].path
                            \/ PathIsRicher(candidates'[c].path, candidates[c].path)
<1>1. TypeOK /\ [Next]_vars => [\A c \in DOMAIN candidates : Settles(c)]_vars
  <2> SUFFICES ASSUME TypeOK, Next, NEW c \in DOMAIN candidates PROVE Settles(c)
    OBVIOUS
  <2>1. ASSUME candidates' = candidates PROVE Settles(c)
    BY <2>1
  <2>2. ASSUME NEW d, NEW path, NEW S, S \subseteq Pending, InsertCandidate(d, path, S)
        PROVE  Settles(c)
    BY <2>2 DEF InsertCandidate, WithInsertion, Pending, TypeOK, Row
  <2>3. ASSUME NEW d, NEW path, NEW S, S \subseteq Pending, AnswerExistingCandidate(d, path, S)
        PROVE  Settles(c)
    BY <2>3 DEF AnswerExistingCandidate, WithUpgrade, Pending
  <2>4. ASSUME NEW w \in WorldIds, NEW query \in Queries, NEW roll \in 0..MaxRoll,
               NEW path \in PathSpec, RollWorld(w, query, roll, path)
        PROVE  Settles(c)
    <3>1. {} \subseteq Pending
      OBVIOUS
    <3> QED
      BY <2>2, <2>3, <2>4, <3>1 DEF RollWorld
  <2>5. ASSUME NEW d \in DOMAIN candidates, RerollCandidate(d) PROVE Settles(c)
    <3>1. Pending \cap {d} \subseteq Pending
      OBVIOUS
    <3> QED
      BY <2>2, <2>3, <2>5, <3>1, RerollEffect
  <2>6. ASSUME NEW d \in DOMAIN candidates, RejectCandidate(d) PROVE Settles(c)
    BY <2>6 DEF RejectCandidate, Pending, TypeOK, Row
  <2>7. ASSUME NEW d \in DOMAIN candidates, CommitCandidate(d) PROVE Settles(c)
    BY <2>7 DEF CommitCandidate, WithCommit, Rivals, Pending, TypeOK, Row
  <2>8. CASE \E m \in Models : RegisterModel(m) \/ ReviseModel(m)
    BY <2>1, <2>8 DEF RegisterModel, ReviseModel
  <2>9. CASE \E w \in WorldIds, m \in Models : CreateWorld(w, m) \/ RefineGenesisWorld(w, m)
    BY <2>1, <2>9 DEF CreateWorld, RefineGenesisWorld
  <2>10. CASE \E w \in WorldIds, m \in Models, mode \in Modes, spec \in Specs :
                ReviseWorld(w, m, mode, spec)
    BY <2>1, <2>10 DEF ReviseWorld
  <2> QED
    BY <2>4, <2>5, <2>6, <2>7, <2>8, <2>9, <2>10 DEF Next
<1> QED
  BY <1>1, TypeInvariant, PTL DEF Spec, CandidatesOnlySettle

-----------------------------------------------------------------------------
(* The session implements accepted history: every command is one of its    *)
(* actions or changes nothing it shows.                                    *)

(* The abstract history names heads and steps as the session does.         *)
LEMMA SameData ==
  /\ \A w, m : History!GenesisWorld(w, m) = GenesisWorld(w, m)
  /\ \A h, s : History!Extend(h, s) = Extend(h, s)
  /\ \A c : History!ProposedHead(c) = ProposedHead(c)
  /\ History!RevisionStep = RevisionStep
BY DEF GenesisWorld, History!GenesisWorld, Extend, History!Extend, ProposedHead,
       History!ProposedHead, StepOf, History!StepOf, RevisionStep, History!RevisionStep,
       Modes, History!Modes

(* Storing a new candidate is a proposal of accepted history.              *)
LEMMA InsertProposes ==
  ASSUME TypeOK, NEW c, NEW path, NEW S, S \subseteq Pending, c.parent.world \in DOMAIN worlds,
         worlds[c.parent.world] = c.parent, InsertCandidate(c, path, S)
  PROVE  History!Propose(c, S)
<1>1. c \notin Pending \cup Closed \cup Committed
  BY DEF InsertCandidate, Pending, Closed, Committed
<1> QED
  BY <1>1, InsertEffect DEF InsertCandidate, History!Propose, History!Known

(* A roll answered from the store closes its source or changes nothing.    *)
LEMMA AnswerClosesOrStutters ==
  ASSUME TypeOK, NEW c, NEW path, NEW source \in DOMAIN candidates,
         NEW S, S = {} \/ S = Pending \cap {source}, AnswerExistingCandidate(c, path, S)
  PROVE  \/ UNCHANGED <<worlds, Pending, Closed, Committed>>
         \/ source \in Pending /\ History!Close(source)
<1>1. S \subseteq Pending /\ (S = {} \/ (S = {source} /\ source \in Pending))
  OBVIOUS
<1>2. worlds' = worlds
  BY DEF AnswerExistingCandidate
<1>3. /\ Pending' = Pending \ S
      /\ Closed' = Closed \cup S
      /\ Committed' = Committed
  BY <1>1, AnswerEffect
<1>4. CASE S = {}
  BY <1>2, <1>3, <1>4
<1>5. CASE S = {source} /\ source \in Pending
  BY <1>2, <1>3, <1>5 DEF History!Close
<1> QED
  BY <1>1, <1>4, <1>5

(* Every command is a step of accepted history or one it does not see.     *)
THEOREM ImplementsHistory == Spec => ImplementsAcceptedHistory
<1>1. Init => History!HInit
  <2> SUFFICES ASSUME Init PROVE History!HInit
    OBVIOUS
  <2>1. DOMAIN candidates = {}
    BY DEF Init
  <2>2. Pending = {} /\ Closed = {} /\ Committed = {}
    BY <2>1 DEF Pending, Closed, Committed
  <2> QED
    BY <2>2 DEF Init, History!HInit
<1>2. TypeOK /\ [Next]_vars => [History!HNext]_(History!hvars)
  <2> SUFFICES ASSUME TypeOK, [Next]_vars
               PROVE  History!HNext \/ UNCHANGED <<worlds, Pending, Closed, Committed>>
    BY DEF History!hvars
  <2>1. ASSUME candidates' = candidates
        PROVE  Pending' = Pending /\ Closed' = Closed /\ Committed' = Committed
    BY <2>1 DEF Pending, Closed, Committed
  <2>2. ASSUME NEW m \in Models, RegisterModel(m) \/ ReviseModel(m)
        PROVE  UNCHANGED <<worlds, Pending, Closed, Committed>>
    BY <2>1, <2>2 DEF RegisterModel, ReviseModel
  <2>3. ASSUME NEW w \in WorldIds, NEW m \in Models, CreateWorld(w, m) \/ RefineGenesisWorld(w, m)
        PROVE  History!Found(w, m)
    <3>1. /\ worlds' = WithHead(w, GenesisWorld(w, m))
          /\ w \in DOMAIN worlds => worlds[w].steps = <<>>
          /\ candidates' = candidates
      <4>1. GenesisWorld(w, ModelOf(worlds[w])).steps = <<>>
        BY DEF GenesisWorld
      <4>2. CASE CreateWorld(w, m)
        BY <4>2 DEF CreateWorld
      <4>3. CASE RefineGenesisWorld(w, m)
        BY <4>1, <4>3 DEF RefineGenesisWorld
      <4> QED
        BY <2>3, <4>2, <4>3
    <3> QED
      BY <2>1, <3>1, SameData DEF History!Found, History!SetHead, WithHead
  <2>4. ASSUME NEW w \in WorldIds, NEW m \in Models, NEW mode \in Modes, NEW spec \in Specs,
               ReviseWorld(w, m, mode, spec)
        PROVE  \E s \in RevisionStep : History!Amend(w, s)
    <3> DEFINE r == [source |-> worlds[w], model |-> m, mode |-> mode, spec |-> spec]
    <3>1. r \in WorldRevision /\ r.source = worlds[w]
      BY <2>4 DEF TypeOK, ReviseWorld, WorldRevision
    <3>2. RevisionStepOf(r) \in RevisionStep
      BY <3>1, StepIsTyped
    <3>3. /\ worlds' = WithHead(w, Extend(worlds[w], RevisionStepOf(r)))
          /\ w \in DOMAIN worlds /\ candidates' = candidates
      BY <2>4 DEF ReviseWorld, TargetHead
    <3>4. History!Amend(w, RevisionStepOf(r))
      <4> HIDE DEF r
      <4> QED
        BY <2>1, <3>3, SameData DEF History!Amend, History!SetHead, WithHead
    <3> QED
      BY <3>2, <3>4
  <2>5. ASSUME NEW w \in WorldIds, NEW query \in Queries, NEW roll \in 0..MaxRoll,
               NEW path \in PathSpec, RollWorld(w, query, roll, path)
        PROVE  \/ History!Propose([parent |-> worlds[w], query |-> query, roll |-> roll], {})
               \/ UNCHANGED <<worlds, Pending, Closed, Committed>>
    <3> DEFINE c == [parent |-> worlds[w], query |-> query, roll |-> roll]
    <3>1. /\ w \in DOMAIN worlds /\ c.parent.world = w /\ worlds[w] = c.parent
          /\ InsertCandidate(c, path, {}) \/ AnswerExistingCandidate(c, path, {})
      BY <2>5, RollEffect DEF RollWorld
    <3>2. {} \subseteq Pending
      OBVIOUS
    <3> SUFFICES \/ History!Propose(c, {})
                 \/ UNCHANGED <<worlds, Pending, Closed, Committed>>
      OBVIOUS
    <3> HIDE DEF c
    <3>3. CASE InsertCandidate(c, path, {})
      BY <3>1, <3>2, <3>3, InsertProposes
    <3>4. CASE AnswerExistingCandidate(c, path, {})
      <4>1. worlds' = worlds
        BY <3>4 DEF AnswerExistingCandidate
      <4>2. Pending' = Pending /\ Closed' = Closed /\ Committed' = Committed
        BY <3>2, <3>4, AnswerEffect
      <4> QED
        BY <4>1, <4>2
    <3> QED
      BY <3>1, <3>3, <3>4
  <2>6. ASSUME NEW c \in DOMAIN candidates, RerollCandidate(c)
        PROVE  History!HNext \/ UNCHANGED <<worlds, Pending, Closed, Committed>>
    <3> DEFINE next == [parent |-> c.parent, query |-> c.query, roll |-> c.roll + 1]
               S == Pending \cap {c}
    <3>1. c \in Candidate /\ c.parent \in WorldHead
      BY DEF TypeOK, Candidate
    <3>2. c.roll + 1 \in 0..MaxRoll
      BY <2>6, <3>1, RollAssumption DEF RerollCandidate, Candidate
    <3>3. \/ /\ next.parent.world \in DOMAIN worlds
             /\ worlds[next.parent.world] = next.parent
             /\ InsertCandidate(next, candidates[c].path, S)
          \/ AnswerExistingCandidate(next, candidates[c].path, S)
      BY <2>6, RerollEffect
    <3>4. next.parent = c.parent /\ S \subseteq Pending
      OBVIOUS
    <3>5. c.query \in Queries
      BY <3>1 DEF Candidate
    <3>6. CASE /\ c.parent.world \in DOMAIN worlds
               /\ worlds[c.parent.world] = c.parent
               /\ InsertCandidate(next, candidates[c].path, S)
      <4>1. next = [parent |-> worlds[c.parent.world], query |-> c.query, roll |-> c.roll + 1]
        BY <3>6
      <4> HIDE DEF next, S
      <4>2. History!Propose(next, S)
        BY <3>4, <3>6, InsertProposes
      <4> QED
        BY <3>2, <3>4, <3>5, <3>6, <4>1, <4>2 DEF History!HNext
    <3>7. CASE AnswerExistingCandidate(next, candidates[c].path, S)
      <4>1. S = Pending \cap {c}
        OBVIOUS
      <4> HIDE DEF next, S
      <4> QED
        BY <3>7, <4>1, AnswerClosesOrStutters DEF History!HNext
    <3> QED
      BY <3>3, <3>4, <3>6, <3>7
  <2>7. ASSUME NEW c \in DOMAIN candidates, RejectCandidate(c)
        PROVE  c \in Pending /\ History!Close(c)
    BY <2>7, RejectEffect DEF RejectCandidate, History!Close
  <2>8. ASSUME NEW c \in DOMAIN candidates, CommitCandidate(c)
        PROVE  c \in Pending /\ History!Accept(c)
    <3>1. /\ c \in Pending /\ c.parent.world \in DOMAIN worlds
          /\ worlds[c.parent.world] = c.parent
          /\ worlds' = WithHead(c.parent.world, ProposedHead(c))
      BY <2>8 DEF CommitCandidate
    <3>2. /\ Rivals(c) = History!Competing(c) \cup {c}
          /\ Rivals(c) \ {c} = History!Competing(c)
      BY <3>1 DEF Rivals, History!Competing
    <3>3. /\ Pending' = Pending \ (History!Competing(c) \cup {c})
          /\ Closed' = Closed \cup History!Competing(c)
          /\ Committed' = Committed \cup {c}
      BY <2>8, <3>2, CommitEffect
    <3> HIDE DEF History!Competing
    <3> QED
      BY <3>1, <3>3, SameData DEF History!Accept, History!SetHead, WithHead
  <2>9. CASE UNCHANGED vars
    BY <2>1, <2>9 DEF vars
  <2>10. CASE \E m \in Models : RegisterModel(m) \/ ReviseModel(m)
    BY <2>2, <2>10
  <2>11. CASE \E w \in WorldIds, m \in Models : CreateWorld(w, m) \/ RefineGenesisWorld(w, m)
    BY <2>3, <2>11 DEF History!HNext
  <2>12. CASE \E w \in WorldIds, m \in Models, mode \in Modes, spec \in Specs :
                ReviseWorld(w, m, mode, spec)
    <3>1. \E w \in WorldIds, s \in RevisionStep : History!Amend(w, s)
      BY <2>4, <2>12
    <3> QED
      BY <3>1, SameData DEF History!HNext
  <2>13. CASE \E w \in WorldIds, query \in Queries, roll \in 0..MaxRoll, path \in PathSpec :
                RollWorld(w, query, roll, path)
    <3> SUFFICES ASSUME NEW w \in WorldIds, NEW query \in Queries, NEW roll \in 0..MaxRoll,
                        NEW path \in PathSpec, RollWorld(w, query, roll, path)
                 PROVE  History!HNext \/ UNCHANGED <<worlds, Pending, Closed, Committed>>
      BY <2>13
    <3>1. w \in DOMAIN worlds /\ {} \in SUBSET Pending
      BY DEF RollWorld
    <3> QED
      BY <2>5, <3>1 DEF History!HNext
  <2>14. CASE \E c \in DOMAIN candidates : RerollCandidate(c) \/ RejectCandidate(c) \/ CommitCandidate(c)
    BY <2>6, <2>7, <2>8, <2>14 DEF History!HNext
  <2> QED
    BY <2>9, <2>10, <2>11, <2>12, <2>13, <2>14 DEF Next
<1> QED
  BY <1>1, <1>2, TypeInvariant, PTL DEF Spec, ImplementsAcceptedHistory, History!HSpec

-----------------------------------------------------------------------------
(* What is read back when the session is reopened.                         *)

(* A set of numbers has a least one.                                       *)
LEMMA Least ==
  ASSUME NEW T, T \subseteq Nat, T # {}
  PROVE  \E x \in T : \A y \in T : x <= y
<1> DEFINE R == {p \in Nat \X Nat : p[1] < p[2]}
<1>1. IsWellFoundedOn(R, Nat)
  BY NatLessThanWellFounded, Zenon DEF OpToRel
<1>2. PICK x \in T : \A y \in T : ~(<<y, x>> \in R)
  BY <1>1, WFMin
<1>3. \A y \in T : ~(y < x)
  BY <1>2
<1> QED
  BY <1>3

(* The last of some positions of a sequence.                               *)
LEMMA LastOf ==
  ASSUME NEW n \in Nat, NEW S, S \subseteq 1..n, S # {}
  PROVE  Max(S) \in S /\ \A y \in S : Max(S) >= y
<1> DEFINE T == {n - x : x \in S}
<1>1. T \subseteq Nat /\ T # {}
  <2>1. \A x \in S : n - x \in Nat
    OBVIOUS
  <2> QED
    BY <2>1
<1>2. PICK k \in T : \A m \in T : k <= m
  <2> HIDE DEF T
  <2> QED
    BY <1>1, Least
<1>3. PICK x \in S : k = n - x
  BY <1>2
<1>4. ASSUME NEW y \in S PROVE x >= y
  <2>1. k <= n - y
    BY <1>2
  <2> QED
    BY <1>3, <2>1
<1> QED
  BY <1>3, <1>4 DEF Max

(* A genesis is under its own model; a roll leaves a head under the model  *)
(* it was under, and a revision puts it under the model it names.          *)
LEMMA ModelOfExtended ==
  /\ \A w, m : ModelOf(GenesisWorld(w, m)) = m
  /\ \A h \in WorldHead, s \in Step :
       /\ s.kind = "roll" => ModelOf(Extend(h, s)) = ModelOf(h)
       /\ s.kind = "revision" => ModelOf(Extend(h, s)) = s.model
<1>1. ASSUME NEW w, NEW m PROVE ModelOf(GenesisWorld(w, m)) = m
  <2>1. {i \in DOMAIN GenesisWorld(w, m).steps : GenesisWorld(w, m).steps[i].kind = "revision"} = {}
    BY DEF GenesisWorld
  <2>2. GenesisWorld(w, m).genesis = m
    BY DEF GenesisWorld
  <2> QED
    BY <2>1, <2>2 DEF ModelOf
<1>2. ASSUME NEW h \in WorldHead, NEW s \in Step
      PROVE  /\ s.kind = "roll" => ModelOf(Extend(h, s)) = ModelOf(h)
             /\ s.kind = "revision" => ModelOf(Extend(h, s)) = s.model
  <2> DEFINE e == Extend(h, s)
             R(f) == {i \in DOMAIN f.steps : f.steps[i].kind = "revision"}
  <2>1. /\ h.steps \in Seq(Step) /\ Len(h.steps) \in Nat /\ DOMAIN h.steps = 1..Len(h.steps)
        /\ DOMAIN e.steps = 1..(Len(h.steps) + 1) /\ e.genesis = h.genesis
        /\ e.steps[Len(h.steps) + 1] = s
        /\ \A n \in 1..Len(h.steps) : e.steps[n] = h.steps[n]
    <3>1. h.steps \in Seq(Step)
      BY DEF WorldHead
    <3>2. e.steps = Append(h.steps, s) /\ e.genesis = h.genesis
      BY DEF Extend
    <3> HIDE DEF e
    <3> QED
      BY <3>1, <3>2
  <2> HIDE DEF e
  <2>2. ASSUME NEW f PROVE /\ R(f) = {} => ModelOf(f) = f.genesis
                           /\ R(f) # {} => ModelOf(f) = f.steps[Max(R(f))].model
    BY DEF ModelOf
  <2>3. R(h) \subseteq 1..Len(h.steps)
    BY <2>1
  <2>4. R(h) # {} => Max(R(h)) \in R(h)
    BY <2>1, <2>3, LastOf
  <2>5. CASE s.kind = "roll"
    <3>1. R(e) = R(h)
      BY <2>1, <2>5
    <3>2. R(h) # {} => e.steps[Max(R(h))] = h.steps[Max(R(h))]
      BY <2>1, <2>3, <2>4
    <3> HIDE DEF R
    <3>3. ModelOf(e) = ModelOf(h)
      BY <2>1, <2>2, <3>1, <3>2
    <3> QED
      BY <2>5, <3>3 DEF e
  <2>6. CASE s.kind = "revision"
    <3> DEFINE n == Len(h.steps) + 1
    <3>1. R(e) = R(h) \cup {n} /\ n \in Nat /\ R(e) \subseteq 1..n /\ R(e) # {}
      BY <2>1, <2>6
    <3>2. PICK k : k = Max(R(e))
      OBVIOUS
    <3>3. k \in R(e) /\ \A y \in R(e) : k >= y
      BY <3>1, <3>2, LastOf
    <3>4. k = n
      <4>1. k \in R(h) \/ k = n
        BY <3>1, <3>3
      <4>2. k >= n
        BY <3>1, <3>3
      <4>3. k \in 1..Len(h.steps) \/ k = n
        BY <2>3, <4>1
      <4> QED
        BY <2>1, <4>2, <4>3
    <3> HIDE DEF R
    <3>5. ModelOf(e) = s.model
      BY <2>1, <2>2, <3>1, <3>2, <3>4
    <3> QED
      BY <2>6, <3>5 DEF e
  <2> QED
    BY <2>5, <2>6 DEF Step, CandidateStep, RevisionStep
<1> QED
  BY <1>1, <1>2

(* No world takes any bytes.                                               *)
LEMMA NoWorldFits ==
  ASSUME NEW ws, DOMAIN ws = {}
  PROVE  WorldsFit(ws)
<1> DEFINE pick(s) == CHOOSE x \in s : TRUE
           op(w) == HeadBytes[ModelOf(ws[w])]
           Is(f) == f = [s \in SUBSET {} |-> IF s = {} THEN 0 ELSE op(pick(s)) + f[s \ {pick(s)}]]
<1>1. Is([s \in SUBSET {} |-> 0])
  OBVIOUS
<1>2. Is(CHOOSE f : Is(f))
  BY <1>1
<1>3. (CHOOSE f : Is(f))[{}] = 0
  BY <1>2
<1>4. WorldBytes(ws) = 0
  BY <1>3 DEF WorldBytes, MapThenSumSet, MapThenFoldSet
<1>5. Cardinality(DOMAIN ws) = 0
  BY FS_EmptySet
<1> QED
  BY <1>4, <1>5, CapacityAssumption DEF WorldsFit

(* No candidate takes any bytes or work.                                   *)
LEMMA NoCandidateFits ==
  ASSUME NEW cs, DOMAIN cs = {}
  PROVE  CandidatesFit(cs)
<1> DEFINE pick(s) == CHOOSE x \in s : TRUE
           bytes(c) == StatusBytes[cs[c].status] + PathBytes[cs[c].path]
           work(c) == QueryWork[c.query]
           B(f) == f = [s \in SUBSET {} |-> IF s = {} THEN 0 ELSE bytes(pick(s)) + f[s \ {pick(s)}]]
           W(f) == f = [s \in SUBSET {} |-> IF s = {} THEN 0 ELSE work(pick(s)) + f[s \ {pick(s)}]]
<1>1. B([s \in SUBSET {} |-> 0]) /\ W([s \in SUBSET {} |-> 0])
  OBVIOUS
<1>2. B(CHOOSE f : B(f)) /\ W(CHOOSE f : W(f))
  BY <1>1
<1>3. (CHOOSE f : B(f))[{}] = 0 /\ (CHOOSE f : W(f))[{}] = 0
  BY <1>2
<1>4. CandidateBytes(cs) = 0 /\ ReplayWork(cs) = 0
  BY <1>3 DEF CandidateBytes, ReplayWork, MapThenSumSet, MapThenFoldSet
<1>5. Cardinality(DOMAIN cs) = 0
  BY FS_EmptySet
<1> QED
  BY <1>4, <1>5, CapacityAssumption DEF CandidatesFit

(* Every record refers to registered models and what is stored is within   *)
(* the limits when it is read back: the limits were checked on the rows as *)
(* each command leaves them.                                               *)
THEOREM RowsAreRestored == Spec => []RowsRestore
<1>1. Init => RowsRestore
  <2> SUFFICES ASSUME Init PROVE RowsRestore
    OBVIOUS
  <2>1. models = {} /\ revisions = {} /\ DOMAIN worlds = {} /\ DOMAIN candidates = {}
    BY DEF Init
  <2>2. ModelsFit({}) /\ RevisionsFit({})
    BY FS_EmptySet, CapacityAssumption DEF ModelsFit, RevisionsFit
  <2>3. WithinLimits
    BY <2>1, <2>2, NoWorldFits, NoCandidateFits DEF WithinLimits
  <2> QED
    BY <2>1, <2>3 DEF RowsRestore
<1>2. TypeOK /\ RowsRestore /\ [Next]_vars => RowsRestore'
  <2> SUFFICES ASSUME TypeOK, RowsRestore, [Next]_vars PROVE RowsRestore'
    OBVIOUS
  <2> USE DEF RowsRestore, WithinLimits
  <2>1. ASSUME NEW m \in Models, RegisterModel(m) \/ ReviseModel(m) PROVE RowsRestore'
    <3>1. /\ models' = models \cup {m} /\ ModelsFit(models')
          /\ NumberOf[m] # 0 => PreviousOf[m] \in models
          /\ UNCHANGED <<worlds, revisions, candidates>>
      BY <2>1 DEF RegisterModel, ReviseModel
    <3> QED
      BY <3>1
  <2>2. ASSUME NEW w \in WorldIds, NEW h \in WorldHead, h.world = w,
               worlds' = WithHead(w, h), WorldsFit(worlds'),
               h.genesis \in models, ModelOf(h) \in models
        PROVE  /\ \A v \in DOMAIN worlds' : worlds'[v].genesis \in models /\ ModelOf(worlds'[v]) \in models
               /\ WorldsFit(worlds')
    BY <2>2 DEF WithHead
  <2>3. ASSUME NEW w \in WorldIds, NEW m \in Models, CreateWorld(w, m) \/ RefineGenesisWorld(w, m)
        PROVE  RowsRestore'
    <3>1. /\ worlds' = WithHead(w, GenesisWorld(w, m)) /\ WorldsFit(worlds') /\ m \in models
          /\ UNCHANGED <<models, revisions, candidates>>
      BY <2>3 DEF CreateWorld, RefineGenesisWorld
    <3>2. GenesisWorld(w, m) \in WorldHead /\ GenesisWorld(w, m).world = w
      BY GenesisIsHead
    <3>3. GenesisWorld(w, m).genesis \in models /\ ModelOf(GenesisWorld(w, m)) \in models
      BY <3>1, ModelOfExtended DEF GenesisWorld
    <3>4. /\ \A v \in DOMAIN worlds' : worlds'[v].genesis \in models /\ ModelOf(worlds'[v]) \in models
          /\ WorldsFit(worlds')
      BY <2>2, <3>1, <3>2, <3>3
    <3> QED
      BY <3>1, <3>4
  <2>4. ASSUME NEW w \in WorldIds, NEW m \in Models, NEW mode \in Modes, NEW spec \in Specs,
               ReviseWorld(w, m, mode, spec)
        PROVE  RowsRestore'
    <3> DEFINE r == [source |-> worlds[w], model |-> m, mode |-> mode, spec |-> spec]
    <3>1. worlds[w] \in WorldHead /\ worlds[w].world = w /\ w \in DOMAIN worlds
      BY <2>4 DEF TypeOK, ReviseWorld
    <3>2. r \in WorldRevision /\ r.source = worlds[w] /\ r.model = m
      BY <3>1 DEF WorldRevision
    <3>3. /\ m \in models /\ DirectNext(ModelOf(worlds[w]), m)
          /\ worlds' = WithHead(w, TargetHead(r)) /\ WorldsFit(worlds')
          /\ revisions' = revisions \cup {r} /\ RevisionsFit(revisions')
          /\ UNCHANGED <<models, candidates>>
      BY <2>4 DEF ReviseWorld
    <3> HIDE DEF r
    <3>4. RevisionStepOf(r) \in Step /\ RevisionStepOf(r).kind = "revision" /\ RevisionStepOf(r).model = m
      BY <3>2, StepIsTyped DEF RevisionStepOf
    <3>5. TargetHead(r) = Extend(worlds[w], RevisionStepOf(r))
      BY <3>2 DEF TargetHead
    <3>6. TargetHead(r) \in WorldHead /\ TargetHead(r).world = w /\ TargetHead(r).genesis = worlds[w].genesis
      BY <3>1, <3>4, <3>5, ExtendIsHead
    <3>7. ModelOf(TargetHead(r)) = m
      BY <3>1, <3>4, <3>5, ModelOfExtended
    <3>8. /\ \A v \in DOMAIN worlds' : worlds'[v].genesis \in models /\ ModelOf(worlds'[v]) \in models
          /\ WorldsFit(worlds')
      BY <2>2, <3>1, <3>3, <3>6, <3>7
    <3> QED
      BY <3>1, <3>2, <3>3, <3>8
  <2>5. ASSUME NEW c \in Candidate, NEW path, NEW S,
               worlds[c.parent.world] = c.parent, c.parent.world \in DOMAIN worlds,
               InsertCandidate(c, path, S)
        PROVE  RowsRestore'
    <3>1. /\ UNCHANGED <<models, worlds, revisions>>
          /\ DOMAIN candidates' = DOMAIN candidates \cup {c} /\ CandidatesFit(candidates')
      BY <2>5 DEF InsertCandidate, WithInsertion
    <3> QED
      BY <2>5, <3>1
  <2>6. ASSUME UNCHANGED <<models, worlds, revisions>>, DOMAIN candidates' = DOMAIN candidates,
               CandidatesFit(candidates')
        PROVE  RowsRestore'
    BY <2>6
  <2>7. ASSUME NEW c, NEW path, NEW S, AnswerExistingCandidate(c, path, S) PROVE RowsRestore'
    <3>1. /\ UNCHANGED <<models, worlds, revisions>>
          /\ DOMAIN candidates' = DOMAIN candidates /\ CandidatesFit(candidates')
      BY <2>7 DEF AnswerExistingCandidate, WithUpgrade
    <3> QED
      BY <2>6, <3>1
  <2>8. ASSUME NEW w \in WorldIds, NEW query \in Queries, NEW roll \in 0..MaxRoll,
               NEW path \in PathSpec, RollWorld(w, query, roll, path)
        PROVE  RowsRestore'
    <3> DEFINE c == [parent |-> worlds[w], query |-> query, roll |-> roll]
    <3>1. c \in Candidate /\ w \in DOMAIN worlds
      BY <2>8 DEF TypeOK, RollWorld, Candidate
    <3>2. /\ c.parent.world = w /\ worlds[w] = c.parent
          /\ InsertCandidate(c, path, {}) \/ AnswerExistingCandidate(c, path, {})
      BY <2>8, RollEffect
    <3> HIDE DEF c
    <3> QED
      BY <2>5, <2>7, <3>1, <3>2
  <2>9. ASSUME NEW c \in DOMAIN candidates, RerollCandidate(c) PROVE RowsRestore'
    <3> DEFINE next == [parent |-> c.parent, query |-> c.query, roll |-> c.roll + 1]
               S == Pending \cap {c}
    <3>1. c \in Candidate
      BY DEF TypeOK
    <3>2. next \in Candidate
      BY <2>9, <3>1, RollAssumption DEF RerollCandidate, Candidate
    <3>3. \/ /\ next.parent.world \in DOMAIN worlds
             /\ worlds[next.parent.world] = next.parent
             /\ InsertCandidate(next, candidates[c].path, S)
          \/ AnswerExistingCandidate(next, candidates[c].path, S)
      BY <2>9, RerollEffect
    <3> HIDE DEF next, S
    <3> QED
      BY <2>5, <2>7, <3>2, <3>3
  <2>10. ASSUME NEW c \in DOMAIN candidates, RejectCandidate(c) PROVE RowsRestore'
    <3>1. /\ UNCHANGED <<models, worlds, revisions>>
          /\ DOMAIN candidates' = DOMAIN candidates /\ CandidatesFit(candidates')
      BY <2>10 DEF RejectCandidate
    <3> QED
      BY <2>6, <3>1
  <2>11. ASSUME NEW c \in DOMAIN candidates, CommitCandidate(c) PROVE RowsRestore'
    <3> DEFINE w == c.parent.world
    <3>1. c \in Candidate /\ w \in DOMAIN worlds /\ worlds[w] = c.parent
      BY <2>11 DEF TypeOK, CommitCandidate
    <3>2. worlds[w] \in WorldHead /\ w \in WorldIds
      BY <3>1 DEF TypeOK
    <3>3. StepOf(c) \in Step /\ StepOf(c).kind = "roll"
      BY <3>1, StepIsTyped, RecordsReadBack
    <3>4. /\ worlds' = WithHead(w, ProposedHead(c)) /\ WorldsFit(worlds')
          /\ DOMAIN candidates' = DOMAIN candidates /\ CandidatesFit(candidates')
          /\ UNCHANGED <<models, revisions>>
      BY <2>11 DEF CommitCandidate, WithCommit
    <3>5. ProposedHead(c) = Extend(worlds[w], StepOf(c))
      BY <3>1 DEF ProposedHead
    <3>6. worlds[w].world = w
      BY <3>1
    <3> HIDE DEF w
    <3>7. /\ ProposedHead(c) \in WorldHead /\ ProposedHead(c).world = w
          /\ ProposedHead(c).genesis = worlds[w].genesis
      BY <3>2, <3>3, <3>5, <3>6, ExtendIsHead
    <3>8. ModelOf(ProposedHead(c)) = ModelOf(worlds[w])
      BY <3>2, <3>3, <3>5, ModelOfExtended
    <3>9. /\ \A v \in DOMAIN worlds' : worlds'[v].genesis \in models /\ ModelOf(worlds'[v]) \in models
          /\ WorldsFit(worlds')
      BY <2>2, <3>1, <3>2, <3>4, <3>7, <3>8
    <3> QED
      BY <3>4, <3>9
  <2>12. CASE UNCHANGED vars
    BY <2>12 DEF vars
  <2> QED
    BY <2>1, <2>3, <2>4, <2>8, <2>9, <2>10, <2>11, <2>12 DEF Next
<1> QED
  BY <1>1, <1>2, TypeInvariant, PTL DEF Spec

-----------------------------------------------------------------------------
(* The walks from a head down its accepted path.                           *)

(* The heads a head was.                                                   *)
LEMMA AncestorIs ==
  ASSUME NEW h \in WorldHead, NEW n \in 0..Len(h.steps)
  PROVE  /\ Ancestor(h, n) \in WorldHead
         /\ Ancestor(h, n).world = h.world
         /\ Len(Ancestor(h, n).steps) = n
         /\ \A i \in 1..n : Ancestor(h, n).steps[i] = h.steps[i]
         /\ \A k \in 0..n : Ancestor(Ancestor(h, n), k) = Ancestor(h, k)
         /\ n > 0 => Last(Ancestor(h, n).steps) = h.steps[n]
         /\ Ancestor(h, Len(h.steps)) = h
<1> DEFINE s == h.steps
           t == SubSeq(s, 1, n)
<1>1. s \in Seq(Step) /\ h.world \in WorldIds /\ h.genesis \in Models
  BY DEF WorldHead
<1>2. t \in Seq(Step) /\ Len(t) = n /\ \A i \in 1..n : t[i] = s[i]
  BY <1>1, SubSeqProperties
<1>3. SubSeq(s, 1, Len(s)) = s
  BY <1>1, SubSeqFull
<1>4. \A k \in 0..n : SubSeq(t, 1, k) = SubSeq(s, 1, k)
  <2> SUFFICES ASSUME NEW k \in 0..n PROVE SubSeq(t, 1, k) = SubSeq(s, 1, k)
    OBVIOUS
  <2> HIDE DEF s, t
  <2>1. SubSeq(t, 1, k) \in Seq(Step) /\ Len(SubSeq(t, 1, k)) = k /\ \A i \in 1..k : SubSeq(t, 1, k)[i] = t[i]
    BY <1>2, SubSeqProperties
  <2>2. SubSeq(s, 1, k) \in Seq(Step) /\ Len(SubSeq(s, 1, k)) = k /\ \A i \in 1..k : SubSeq(s, 1, k)[i] = s[i]
    BY <1>1, SubSeqProperties DEF s
  <2> QED
    BY <1>2, <2>1, <2>2, SeqEqual
<1>5. n > 0 => Last(t) = s[n]
  BY <1>2 DEF Last
<1> QED
  BY <1>1, <1>2, <1>3, <1>4, <1>5 DEF Ancestor, WorldHead

(* The anchors of a head are the committed candidates that led to it and   *)
(* to the heads below it, as far as each head was led to by one.           *)
LEMMA AnchorsAre ==
  ASSUME NEW h \in WorldHead, NEW c
  PROVE  c \in WorldAnchors(h) <=>
           \E n \in 1..Len(h.steps) :
             /\ c \in LedTo(Ancestor(h, n))
             /\ \A m \in n..Len(h.steps) : LedTo(Ancestor(h, m)) # {}
<1> DEFINE N == Len(h.steps)
           Led(n) == LedTo(Ancestor(h, n))
           Is(f) == f = [n \in 0..N |-> IF n = 0 \/ Led(n) = {} THEN {} ELSE Led(n) \cup f[n - 1]]
           From(k) == {n \in 1..k : \A m \in n..k : Led(m) # {}}
           Sofar(k) == UNION {Led(n) : n \in From(k)}
<1>1. N \in Nat
  BY DEF WorldHead
<1>2. WorldAnchors(h) = (CHOOSE f : Is(f))[N]
  BY DEF WorldAnchors
<1> HIDE DEF N, Led
<1>3. \A k \in 0..N : Sofar(k) = IF k = 0 \/ Led(k) = {} THEN {} ELSE Led(k) \cup Sofar(k - 1)
  <2> SUFFICES ASSUME NEW k \in 0..N
               PROVE  /\ k = 0 \/ Led(k) = {} => Sofar(k) = {}
                      /\ ~(k = 0 \/ Led(k) = {}) => Sofar(k) = Led(k) \cup Sofar(k - 1)
    OBVIOUS
  <2>1. CASE k = 0 \/ Led(k) = {}
    <3>1. From(k) = {}
      BY <1>1, <2>1
    <3> QED
      BY <2>1, <3>1
  <2>2. CASE ~(k = 0 \/ Led(k) = {})
    <3>1. From(k) = From(k - 1) \cup {k}
      <4>1. \A n \in 1..(k - 1) : n..k = (n..(k - 1)) \cup {k}
        BY <1>1, <2>2
      <4>2. 1..k = (1..(k - 1)) \cup {k} /\ k..k = {k}
        BY <1>1, <2>2
      <4> QED
        BY <2>2, <4>1, <4>2
    <3> HIDE DEF From
    <3> QED
      BY <2>2, <3>1
  <2> QED
    BY <2>1, <2>2
<1> HIDE DEF Sofar
<1>4. Is([k \in 0..N |-> Sofar(k)])
  BY <1>1, <1>3
<1>5. PICK f : f = (CHOOSE g : Is(g)) /\ Is(f)
  BY <1>4
<1>6. \A k \in 0..N : f[k] = IF k = 0 \/ Led(k) = {} THEN {} ELSE Led(k) \cup f[k - 1]
  BY <1>5, Zenon
<1>7. WorldAnchors(h) = f[N]
  BY <1>2, <1>5, Zenon
<1> HIDE DEF Is
<1>8. \A k \in 0..N : f[k] = Sofar(k)
  <2> DEFINE T == {k \in 0..N : f[k] # Sofar(k)}
  <2>1. ASSUME NEW k \in T, \A y \in T : k <= y PROVE FALSE
    <3>1. k \in 0..N /\ f[k] # Sofar(k) /\ (k > 0 => k - 1 \in 0..N /\ k - 1 \notin T)
      BY <1>1, <2>1
    <3>2. k > 0 => f[k - 1] = Sofar(k - 1)
      BY <3>1
    <3>3. CASE k = 0 \/ Led(k) = {}
      BY <1>3, <1>6, <3>1, <3>3, Zenon
    <3>4. CASE ~(k = 0 \/ Led(k) = {})
      <4>1. f[k - 1] = Sofar(k - 1)
        BY <1>1, <3>1, <3>2, <3>4
      <4>2. f[k] = Led(k) \cup f[k - 1]
        BY <1>6, <3>1, <3>4, Zenon
      <4>3. Sofar(k) = Led(k) \cup Sofar(k - 1)
        BY <1>3, <3>1, <3>4, Zenon
      <4> QED
        BY <3>1, <4>1, <4>2, <4>3, Zenon
    <3> QED
      BY <3>3, <3>4
  <2>2. T \subseteq Nat
    BY <1>1
  <2> HIDE DEF T
  <2>3. T = {}
    BY <2>1, <2>2, Least
  <2> QED
    BY <2>3 DEF T
<1>9. WorldAnchors(h) = Sofar(N)
  BY <1>1, <1>7, <1>8
<1> QED
  BY <1>9 DEF Sofar, N, Led

(* A head with a revision below it, and stored candidates from there up,   *)
(* is told to have a revision in its history.                              *)
LEMMA RevisionSeen ==
  ASSUME NEW h \in WorldHead, NEW n \in 1..Len(h.steps), h.steps[n].kind = "revision",
         \A m \in (n + 1)..Len(h.steps) :
           h.steps[m].kind = "roll" /\ CandidateFor(Ancestor(h, m - 1), h.steps[m]) \in DOMAIN candidates
  PROVE  HasRevisionHistory(h)
<1> DEFINE N == Len(h.steps)
           rev(k) == LastIs(Ancestor(h, k), "revision")
           rolled(k) == /\ LastIs(Ancestor(h, k), "roll")
                        /\ CandidateFor(Ancestor(h, k - 1), Last(Ancestor(h, k).steps)) \in DOMAIN candidates
           Is(f) == f = [k \in 0..N |-> \/ rev(k)
                                        \/ /\ LastIs(Ancestor(h, k), "roll")
                                           /\ CandidateFor(Ancestor(h, k - 1), Last(Ancestor(h, k).steps)) \in DOMAIN candidates
                                           /\ f[k - 1]]
           Seen(k) == \E i \in 1..k : rev(i) /\ \A m \in (i + 1)..k : rolled(m)
<1>1. N \in Nat
  BY DEF WorldHead
<1>2. HasRevisionHistory(h) = (CHOOSE f : Is(f))[N]
  BY DEF HasRevisionHistory
<1>3. ~rev(0) /\ ~rolled(0)
  <2>1. Ancestor(h, 0).steps = <<>>
    BY AncestorIs, <1>1 DEF Ancestor
  <2> QED
    BY <2>1 DEF LastIs
<1>4. rev(n) /\ \A m \in (n + 1)..N : rolled(m)
  <2>1. ASSUME NEW m \in 1..N
        PROVE  Ancestor(h, m).steps # <<>> /\ Last(Ancestor(h, m).steps) = h.steps[m]
    <3>1. m \in 0..N /\ m > 0
      BY <1>1
    <3>2. Len(Ancestor(h, m).steps) = m
      BY <3>1, AncestorIs
    <3>3. Len(<<>>) = 0
      OBVIOUS
    <3> QED
      BY <3>1, <3>2, <3>3, AncestorIs
  <2>2. \A m \in (n + 1)..N : m \in 1..N
    BY <1>1
  <2> QED
    BY <2>1, <2>2 DEF LastIs
<1> HIDE DEF N, rev
<1>5. \A k \in 0..N : Seen(k) = (rev(k) \/ (rolled(k) /\ Seen(k - 1)))
  <2> SUFFICES ASSUME NEW k \in 0..N PROVE Seen(k) <=> (rev(k) \/ (rolled(k) /\ Seen(k - 1)))
    OBVIOUS
  <2> HIDE DEF rolled
  <2>1. CASE k = 0
    BY <1>3, <2>1
  <2>2. CASE k > 0
    <3>1. ASSUME rev(k) PROVE Seen(k)
      <4>1. k \in 1..k /\ (k + 1)..k = {}
        BY <1>1, <2>2
      <4> QED
        BY <3>1, <4>1
    <3>2. \A i \in 1..(k - 1) : (i + 1)..k = ((i + 1)..(k - 1)) \cup {k}
      BY <1>1, <2>2
    <3>3. 1..k = (1..(k - 1)) \cup {k}
      BY <1>1, <2>2
    <3>4. ASSUME rolled(k), Seen(k - 1) PROVE Seen(k)
      BY <3>2, <3>3, <3>4
    <3>5. ASSUME Seen(k), ~rev(k) PROVE rolled(k) /\ Seen(k - 1)
      <4>1. PICK i \in 1..(k - 1) : rev(i) /\ \A m \in (i + 1)..k : rolled(m)
        BY <3>3, <3>5
      <4> QED
        BY <3>2, <4>1
    <3> QED
      BY <3>1, <3>4, <3>5
  <2> QED
    BY <1>1, <2>1, <2>2
<1>6. \A k \in 0..N : Seen(k) \in BOOLEAN
  OBVIOUS
<1> HIDE DEF Seen
<1>7. Is([k \in 0..N |-> Seen(k)])
  <2>1. \A k \in 0..N : k # 0 => k - 1 \in 0..N
    BY <1>1
  <2> QED
    BY <1>1, <1>3, <1>5, <1>6, <2>1
<1>8. PICK f : f = (CHOOSE g : Is(g)) /\ Is(f)
  BY <1>7
<1>9. \A k \in 0..N : f[k] = (rev(k) \/ (rolled(k) /\ f[k - 1]))
  BY <1>8, Zenon
<1>10. HasRevisionHistory(h) = f[N]
  BY <1>2, <1>8, Zenon
<1> HIDE DEF Is, rolled
<1>11. \A k \in 0..N : f[k] = Seen(k)
  <2> DEFINE T == {k \in 0..N : f[k] # Seen(k)}
  <2>1. ASSUME NEW k \in T, \A y \in T : k <= y PROVE FALSE
    <3>1. k \in 0..N /\ f[k] # Seen(k) /\ (k > 0 => k - 1 \in 0..N /\ k - 1 \notin T)
      BY <1>1, <2>1
    <3>2. k > 0 => f[k - 1] = Seen(k - 1)
      BY <3>1
    <3> QED
      BY <1>1, <1>3, <1>5, <1>9, <3>1, <3>2
  <2>2. T \subseteq Nat
    BY <1>1
  <2> HIDE DEF T
  <2>3. T = {}
    BY <2>1, <2>2, Least
  <2> QED
    BY <2>3 DEF T
<1>12. Seen(N)
  <2>1. n \in 1..N
    BY DEF N
  <2> QED
    BY <1>4, <2>1 DEF Seen
<1> QED
  BY <1>1, <1>10, <1>11, <1>12

-----------------------------------------------------------------------------
(* What the graphs rest on.                                                *)

(* What a graph revision may name as its source.                           *)
Source == [kind : {"model"}, of : Models] \cup [kind : {"world"}, of : WorldHead]
          \cup [kind : {"candidate"}, of : Candidate]

(* A head that is on the accepted path of its world, if it was led to by   *)
(* any step: a genesis may be refined away.                                *)
OnPath(h) ==
  h.steps # <<>> =>
    /\ h.world \in DOMAIN worlds
    /\ Len(h.steps) <= Len(worlds[h.world].steps)
    /\ h = Ancestor(worlds[h.world], Len(h.steps))

(* What the graphs rest on: candidates and sources are of accepted heads,  *)
(* and every graph would be admitted again.                                *)
GraphsGrounded ==
  /\ \A c \in DOMAIN candidates : OnPath(c.parent)
  /\ \A g \in DOMAIN graphs :
       /\ g \in [id : GraphIds, line : Seq(Source) \ {<<>>}]
       /\ SourceOf(g).kind = "world" => OnPath(SourceOf(g).of)
       /\ Admissible(g, graphs[g], DOMAIN graphs \ {g})

-----------------------------------------------------------------------------
(* A head of a world and the heads below it are on its path.               *)
LEMMA AcceptedOnPath ==
  ASSUME TypeOK, NEW w \in DOMAIN worlds
  PROVE  OnPath(worlds[w])
<1>1. worlds[w] \in WorldHead /\ worlds[w].world = w
  BY DEF TypeOK
<1>2. Len(worlds[w].steps) \in 0..Len(worlds[w].steps) /\ Len(worlds[w].steps) <= Len(worlds[w].steps)
  BY <1>1 DEF WorldHead
<1>3. Ancestor(worlds[w], Len(worlds[w].steps)) = worlds[w]
  BY <1>1, <1>2, AncestorIs
<1> QED
  BY <1>1, <1>2, <1>3 DEF OnPath

(* Every head that is extended keeps the heads that were on its path.      *)
LEMMA PathsKept ==
  ASSUME TypeOK, NEW h \in WorldHead, OnPath(h),
         \A w \in DOMAIN worlds :
           /\ w \in DOMAIN worlds'
           /\ \/ worlds'[w] = worlds[w]
              \/ \E s \in Step : worlds'[w] = Extend(worlds[w], s)
              \/ worlds[w].steps = <<>>
  PROVE  OnPath(h)'
<1> SUFFICES ASSUME h.steps # <<>>
             PROVE  /\ h.world \in DOMAIN worlds'
                    /\ Len(h.steps) <= Len(worlds'[h.world].steps)
                    /\ h = Ancestor(worlds'[h.world], Len(h.steps))
  BY DEF OnPath
<1> DEFINE w == h.world
           p == worlds[w]
           n == Len(h.steps)
<1>1. /\ w \in DOMAIN worlds /\ n <= Len(p.steps) /\ h = Ancestor(p, n)
      /\ p \in WorldHead /\ p.steps \in Seq(Step) /\ h.steps \in Seq(Step)
  BY DEF OnPath, TypeOK, WorldHead
<1>2. n \in 1..Len(p.steps)
  BY <1>1
<1>3. p.steps # <<>>
  BY <1>1, <1>2
<1>4. CASE worlds'[w] = p
  BY <1>1, <1>4
<1>5. ASSUME NEW s \in Step, worlds'[w] = Extend(p, s)
      PROVE  n <= Len(worlds'[w].steps) /\ h = Ancestor(worlds'[w], n)
  <2> DEFINE e == Extend(p, s)
  <2>1. e \in WorldHead /\ e.steps = Append(p.steps, s)
    BY <1>1, ExtendIsHead
  <2>2. Len(e.steps) = Len(p.steps) + 1
    BY <1>1, <2>1
  <2>3. Ancestor(e, n) = Ancestor(p, n)
    <3>1. CASE n = Len(p.steps)
      BY <1>1, <3>1, AncestorsKept, AncestorIs
    <3>2. CASE n # Len(p.steps)
      <4>1. n + 1 \in DOMAIN p.steps /\ (n + 1) - 1 = n
        BY <1>1, <1>2, <3>2
      <4> QED
        BY <1>1, <4>1, AncestorsKept
    <3> QED
      BY <3>1, <3>2
  <2> QED
    BY <1>1, <1>2, <1>5, <2>2, <2>3
<1> QED
  BY <1>1, <1>3, <1>4, <1>5

-----------------------------------------------------------------------------
(* What a command of the session leaves for the graphs: nothing stored is  *)
(* lost, a head is extended and stays known, or is a genesis refined away; *)
(* what is accepted or stored anew is of a head that is current.           *)
LEMMA SessionStep ==
  ASSUME TypeOK, IInv, TypeOK', [Next]_vars
  PROVE  /\ models \subseteq models'
         /\ DOMAIN candidates \subseteq DOMAIN candidates'
         /\ revisions \subseteq revisions'
         /\ \A w \in DOMAIN worlds :
              /\ w \in DOMAIN worlds'
              /\ \/ worlds'[w] = worlds[w]
                 \/ worlds[w] \in KnownHeads' /\ \E s \in Step : worlds'[w] = Extend(worlds[w], s)
                 \/ worlds[w].steps = <<>> /\ worlds[w] = GenesisWorld(w, ModelOf(worlds[w]))
         /\ \/ Committed' = Committed
            \/ \E c \in Candidate :
                 /\ Committed' = Committed \cup {c}
                 /\ c.parent.world \in DOMAIN worlds
                 /\ worlds[c.parent.world] = c.parent
         /\ \A c \in DOMAIN candidates' :
              \/ c \in DOMAIN candidates
              \/ /\ c.parent.world \in DOMAIN worlds
                 /\ worlds[c.parent.world] = c.parent
<1> DEFINE Stored == models \subseteq models' /\ DOMAIN candidates \subseteq DOMAIN candidates'
                     /\ revisions \subseteq revisions'
           Heads == \A w \in DOMAIN worlds :
              /\ w \in DOMAIN worlds'
              /\ \/ worlds'[w] = worlds[w]
                 \/ worlds[w] \in KnownHeads' /\ \E s \in Step : worlds'[w] = Extend(worlds[w], s)
                 \/ worlds[w].steps = <<>> /\ worlds[w] = GenesisWorld(w, ModelOf(worlds[w]))
           Accepts == \/ Committed' = Committed
                      \/ \E c \in Candidate :
                           /\ Committed' = Committed \cup {c}
                           /\ c.parent.world \in DOMAIN worlds
                           /\ worlds[c.parent.world] = c.parent
           Proposes == \A c \in DOMAIN candidates' :
              \/ c \in DOMAIN candidates
              \/ /\ c.parent.world \in DOMAIN worlds
                 /\ worlds[c.parent.world] = c.parent
           Good == Stored /\ Heads /\ Accepts /\ Proposes
<1> SUFFICES Good
  OBVIOUS
<1>1. ASSUME worlds' = worlds PROVE Heads
  BY <1>1
<1>2. ASSUME candidates' = candidates PROVE Accepts /\ Proposes
  BY <1>2 DEF Committed
<1>3. ASSUME NEW m \in Models, RegisterModel(m) \/ ReviseModel(m) PROVE Good
  <2>1. models \subseteq models' /\ worlds' = worlds /\ revisions' = revisions /\ candidates' = candidates
    BY <1>3 DEF RegisterModel, ReviseModel
  <2> QED
    BY <1>1, <1>2, <2>1
<1>4. ASSUME NEW w \in WorldIds, NEW m \in Models, CreateWorld(w, m) \/ RefineGenesisWorld(w, m)
      PROVE  Good
  <2>1. models' = models /\ revisions' = revisions /\ candidates' = candidates
    BY <1>4 DEF CreateWorld, RefineGenesisWorld
  <2>2. worlds' = WithHead(w, GenesisWorld(w, m))
    BY <1>4 DEF CreateWorld, RefineGenesisWorld
  <2>3. w \in DOMAIN worlds => worlds[w] = GenesisWorld(w, ModelOf(worlds[w])) /\ worlds[w].steps = <<>>
    BY <1>4 DEF CreateWorld, RefineGenesisWorld, GenesisWorld
  <2>4. Heads
    BY <2>2, <2>3 DEF WithHead
  <2> QED
    BY <1>2, <2>1, <2>4
<1>5. ASSUME NEW w \in WorldIds, NEW m \in Models, NEW mode \in Modes, NEW spec \in Specs,
             ReviseWorld(w, m, mode, spec)
      PROVE  Good
  <2> DEFINE r == [source |-> worlds[w], model |-> m, mode |-> mode, spec |-> spec]
  <2>1. w \in DOMAIN worlds /\ worlds[w] \in WorldHead
    BY <1>5 DEF TypeOK, ReviseWorld
  <2>2. r \in WorldRevision /\ r.source = worlds[w]
    BY <2>1 DEF WorldRevision
  <2>3. /\ worlds' = WithHead(w, Extend(worlds[w], RevisionStepOf(r)))
        /\ revisions' = revisions \cup {r}
        /\ models' = models /\ candidates' = candidates
    BY <1>5 DEF ReviseWorld, TargetHead
  <2> HIDE DEF r
  <2>4. RevisionStepOf(r) \in Step
    BY <2>2, StepIsTyped
  <2>5. worlds[w] \in KnownHeads'
    BY <2>2, <2>3 DEF KnownHeads
  <2>6. Heads
    BY <2>1, <2>3, <2>4, <2>5 DEF WithHead
  <2> QED
    BY <1>2, <2>3, <2>6
<1>6. ASSUME NEW c, NEW path, NEW S, S \subseteq Pending,
             worlds[c.parent.world] = c.parent, c.parent.world \in DOMAIN worlds,
             InsertCandidate(c, path, S)
      PROVE  Good
  <2>1. /\ models' = models /\ worlds' = worlds /\ revisions' = revisions
        /\ DOMAIN candidates' = DOMAIN candidates \cup {c}
    BY <1>6 DEF InsertCandidate, WithInsertion
  <2>2. Committed' = Committed
    BY <1>6, InsertEffect
  <2> QED
    BY <1>1, <1>6, <2>1, <2>2
<1>7. ASSUME NEW c, NEW path, NEW S, S \subseteq Pending, AnswerExistingCandidate(c, path, S) PROVE Good
  <2>1. /\ models' = models /\ worlds' = worlds /\ revisions' = revisions
        /\ DOMAIN candidates' = DOMAIN candidates
    BY <1>7 DEF AnswerExistingCandidate, WithUpgrade
  <2>2. Committed' = Committed
    BY <1>7, AnswerEffect
  <2> QED
    BY <1>1, <2>1, <2>2
<1>8. ASSUME NEW w \in WorldIds, NEW query \in Queries, NEW roll \in 0..MaxRoll,
             NEW path \in PathSpec, RollWorld(w, query, roll, path)
      PROVE  Good
  <2> DEFINE c == [parent |-> worlds[w], query |-> query, roll |-> roll]
  <2>1. /\ c.parent.world = w /\ worlds[w] = c.parent /\ w \in DOMAIN worlds
        /\ InsertCandidate(c, path, {}) \/ AnswerExistingCandidate(c, path, {})
    BY <1>8, RollEffect DEF RollWorld
  <2>2. {} \subseteq Pending
    OBVIOUS
  <2> HIDE DEF c, Good
  <2> QED
    BY <1>6, <1>7, <2>1, <2>2
<1>9. ASSUME NEW c \in DOMAIN candidates, RerollCandidate(c) PROVE Good
  <2> DEFINE next == [parent |-> c.parent, query |-> c.query, roll |-> c.roll + 1]
             S == Pending \cap {c}
  <2>1. \/ /\ next.parent.world \in DOMAIN worlds
           /\ worlds[next.parent.world] = next.parent
           /\ InsertCandidate(next, candidates[c].path, S)
        \/ AnswerExistingCandidate(next, candidates[c].path, S)
    BY <1>9, RerollEffect
  <2>2. S \subseteq Pending
    OBVIOUS
  <2> HIDE DEF next, S, Good
  <2> QED
    BY <1>6, <1>7, <2>1, <2>2
<1>10. ASSUME NEW c \in DOMAIN candidates, RejectCandidate(c) PROVE Good
  <2>1. /\ models' = models /\ worlds' = worlds /\ revisions' = revisions
        /\ DOMAIN candidates' = DOMAIN candidates
    BY <1>10 DEF RejectCandidate
  <2>2. Committed' = Committed
    BY <1>10, RejectEffect
  <2> QED
    BY <1>1, <2>1, <2>2
<1>11. ASSUME NEW c \in DOMAIN candidates, CommitCandidate(c) PROVE Good
  <2> DEFINE w == c.parent.world
  <2>1. /\ c \in Candidate /\ w \in DOMAIN worlds /\ worlds[w] = c.parent
    BY <1>11 DEF TypeOK, CommitCandidate
  <2>2. /\ worlds' = WithHead(w, Extend(worlds[w], StepOf(c)))
        /\ DOMAIN candidates' = DOMAIN candidates
        /\ models' = models /\ revisions' = revisions
    BY <1>11, <2>1 DEF CommitCandidate, WithCommit, ProposedHead
  <2>3. StepOf(c) \in Step
    BY <2>1, StepIsTyped
  <2>4. Committed' = Committed \cup {c}
    BY <1>11, CommitEffect
  <2>5. worlds[w] \in KnownHeads'
    BY <2>1, <2>2 DEF KnownHeads
  <2>6. Accepts
    BY <2>1, <2>4
  <2> HIDE DEF w
  <2>7. Heads
    BY <2>1, <2>2, <2>3, <2>5 DEF WithHead
  <2> QED
    BY <2>2, <2>6, <2>7
<1>12. CASE UNCHANGED vars
  BY <1>1, <1>2, <1>12 DEF vars
<1> HIDE DEF Good
<1> QED
  BY <1>3, <1>4, <1>5, <1>8, <1>9, <1>10, <1>11, <1>12 DEF Next

(* Which committed candidates the anchors of a head are.                   *)
AnchorsAreThose ==
  \A h \in WorldHead : \A c :
    c \in WorldAnchors(h) <=>
      \E n \in 1..Len(h.steps) :
        c \in LedTo(Ancestor(h, n)) /\ \A m \in n..Len(h.steps) : LedTo(Ancestor(h, m)) # {}

(* The closed form of the walk back: an anchor is a candidate that led to  *)
(* some step from which on every step was led to by one.                   *)
LEMMA AnchorsForm == AnchorsAreThose
BY AnchorsAre DEF AnchorsAreThose

(* A commit extends a head that is current, so it leads to no head that is *)
(* on a path already: the anchors of such a head stay as they are.         *)
LEMMA AnchorsKept ==
  ASSUME TypeOK, NEW h \in WorldHead, OnPath(h),
         \/ Committed' = Committed
         \/ \E c \in Candidate :
              /\ Committed' = Committed \cup {c}
              /\ c.parent.world \in DOMAIN worlds
              /\ worlds[c.parent.world] = c.parent
  PROVE  WorldAnchors(h)' = WorldAnchors(h)
<1> DEFINE N == Len(h.steps)
<1>0. N \in Nat
  BY DEF WorldHead
<1>1. ASSUME NEW n \in 1..N PROVE LedTo(Ancestor(h, n))' = LedTo(Ancestor(h, n))
  <2>1. CASE Committed' = Committed
    BY <2>1 DEF LedTo
  <2>2. ASSUME NEW c \in Candidate, c.parent.world \in DOMAIN worlds,
               worlds[c.parent.world] = c.parent
        PROVE  ProposedHead(c) # Ancestor(h, n)
    <3> SUFFICES ASSUME ProposedHead(c) = Ancestor(h, n) PROVE FALSE
      OBVIOUS
    <3>1. n \in 0..N /\ h.steps # <<>>
      BY <1>0
    <3>2. /\ Len(Ancestor(h, n).steps) = n /\ Ancestor(h, n).world = h.world
      BY <3>1, AncestorIs
    <3>3. c.parent \in WorldHead /\ StepOf(c) \in Step
      BY StepIsTyped DEF Candidate
    <3>4. /\ ProposedHead(c).world = c.parent.world
          /\ ProposedHead(c).steps = Append(c.parent.steps, StepOf(c))
      BY <3>3, ExtendIsHead DEF ProposedHead
    <3>5. c.parent.steps \in Seq(Step)
      BY <3>3 DEF WorldHead
    <3>6. n = Len(c.parent.steps) + 1 /\ Len(c.parent.steps) \in Nat
      BY <3>2, <3>3, <3>4, <3>5
    <3>7. N <= Len(c.parent.steps)
      BY <2>2, <3>1, <3>2, <3>4 DEF OnPath
    <3> HIDE DEF N
    <3> QED
      BY <1>0, <3>6, <3>7
  <2>3. ASSUME NEW c \in Candidate, Committed' = Committed \cup {c}, c.parent.world \in DOMAIN worlds,
               worlds[c.parent.world] = c.parent
        PROVE  LedTo(Ancestor(h, n))' = LedTo(Ancestor(h, n))
    BY <2>2, <2>3 DEF LedTo
  <2> QED
    BY <2>1, <2>3
<1>2. AnchorsAreThose /\ AnchorsAreThose'
  BY AnchorsForm, PTL
<1>3. \A c : c \in WorldAnchors(h)' <=>
               \E n \in 1..N :
                 c \in LedTo(Ancestor(h, n))' /\ \A m \in n..N : LedTo(Ancestor(h, m))' # {}
  BY <1>2 DEF AnchorsAreThose
<1>4. \A c : c \in WorldAnchors(h) <=>
               \E n \in 1..N :
                 c \in LedTo(Ancestor(h, n)) /\ \A m \in n..N : LedTo(Ancestor(h, m)) # {}
  BY <1>2 DEF AnchorsAreThose
<1>5. \A n \in 1..N : \A m \in n..N : m \in 1..N
  BY <1>0
<1> HIDE DEF N
<1>6. PICK A, B : A = WorldAnchors(h)' /\ B = WorldAnchors(h)
  OBVIOUS
<1>7. ASSUME NEW c PROVE c \in A <=> c \in B
  <2>1. c \in A <=> \E n \in 1..N : c \in LedTo(Ancestor(h, n))' /\ \A m \in n..N : LedTo(Ancestor(h, m))' # {}
    BY <1>3, <1>6
  <2>2. c \in B <=> \E n \in 1..N : c \in LedTo(Ancestor(h, n)) /\ \A m \in n..N : LedTo(Ancestor(h, m)) # {}
    BY <1>4, <1>6
  <2> QED
    BY <1>1, <1>5, <2>1, <2>2, Zenon
<1> QED
  BY <1>6, <1>7

(* A head known to the session stays known, unless it is a genesis that is *)
(* refined away; and a head once found is found again.                     *)
LEMMA FoundAgain ==
  ASSUME TypeOK, IInv, TypeOK', [Next]_vars, NEW h, NEW model, WorldFound(h, model), model = ModelOf(h)
  PROVE  WorldFound(h, model)'
<1>1. CASE h = GenesisWorld(h.world, model)
  BY <1>1 DEF WorldFound
<1>2. ASSUME NEW w \in DOMAIN worlds, h = worlds[w] PROVE WorldFound(h, model)'
  <2>1. /\ w \in DOMAIN worlds'
        /\ \/ worlds'[w] = worlds[w]
           \/ worlds[w] \in KnownHeads'
           \/ worlds[w].steps = <<>> /\ worlds[w] = GenesisWorld(w, ModelOf(worlds[w]))
    BY SessionStep
  <2>2. ASSUME worlds'[w] = worlds[w] PROVE h \in KnownHeads'
    BY <1>2, <2>1, <2>2 DEF KnownHeads, Range
  <2>3. h.world = w
    BY <1>2 DEF TypeOK
  <2> QED
    BY <1>2, <2>1, <2>2, <2>3 DEF WorldFound
<1>3. ASSUME NEW c \in DOMAIN candidates, h \in {ProposedHead(c), c.parent} PROVE h \in KnownHeads'
  <2>1. c \in DOMAIN candidates'
    BY SessionStep
  <2> QED
    BY <1>3, <2>1 DEF KnownHeads
<1>4. ASSUME NEW r \in revisions, h \in {r.source, TargetHead(r)} PROVE h \in KnownHeads'
  <2>1. r \in revisions'
    BY SessionStep
  <2> QED
    BY <1>4, <2>1 DEF KnownHeads
<1> QED
  BY <1>1, <1>2, <1>3, <1>4 DEF WorldFound, KnownHeads, Range

-----------------------------------------------------------------------------
(* A graph that may be exported.                                           *)

(* A candidate leads to a head exactly when it was rolled from the head    *)
(* below it and is the last step of it.                                    *)
LEMMA LedToBy ==
  ASSUME NEW h \in WorldHead, NEW n \in 1..Len(h.steps), NEW c \in Candidate
  PROVE  ProposedHead(c) = Ancestor(h, n) <=> c.parent = Ancestor(h, n - 1) /\ StepOf(c) = h.steps[n]
<1> DEFINE a == Ancestor(h, n)
           p == Ancestor(h, n - 1)
<1>1. n \in 0..Len(h.steps) /\ n - 1 \in 0..Len(h.steps) /\ n - 1 \in 0..n /\ n \in 1..n /\ n - 1 \in Nat
  BY DEF WorldHead
<1>2. /\ a \in WorldHead /\ Len(a.steps) = n /\ a.steps[n] = h.steps[n] /\ Ancestor(a, n - 1) = p
      /\ \A i \in 1..n : a.steps[i] = h.steps[i]
      /\ a.world = h.world
  BY <1>1, AncestorIs
<1>3. /\ p \in WorldHead /\ Len(p.steps) = n - 1 /\ \A i \in 1..(n - 1) : p.steps[i] = h.steps[i]
      /\ p.world = h.world
  BY <1>1, AncestorIs
<1>4. a.genesis = p.genesis
  BY DEF Ancestor
<1>5. c.parent \in WorldHead /\ StepOf(c) \in Step
  BY StepIsTyped DEF Candidate
<1>6. a.steps \in Seq(Step) /\ p.steps \in Seq(Step) /\ c.parent.steps \in Seq(Step)
  BY <1>2, <1>3, <1>5 DEF WorldHead
<1> HIDE DEF a, p
<1>7. ASSUME ProposedHead(c) = a PROVE c.parent = p /\ StepOf(c) = h.steps[n]
  <2>1. a = Extend(c.parent, StepOf(c)) /\ a.steps = Append(c.parent.steps, StepOf(c))
    BY <1>5, <1>7, ExtendIsHead DEF ProposedHead
  <2>2. Len(c.parent.steps) = n - 1 /\ Len(c.parent.steps) + 1 = n
    BY <1>2, <1>5, <1>6, <2>1
  <2>3. Ancestor(a, n - 1) = c.parent /\ a.steps[n] = StepOf(c)
    BY <1>5, <2>1, <2>2, AncestorsKept
  <2> QED
    BY <1>2, <2>3
<1>8. ASSUME c.parent = p, StepOf(c) = h.steps[n] PROVE ProposedHead(c) = a
  <2>1. Append(p.steps, StepOf(c)) = a.steps
    <3>1. /\ Append(p.steps, StepOf(c)) \in Seq(Step) /\ Len(Append(p.steps, StepOf(c))) = n
          /\ \A i \in 1..(n - 1) : Append(p.steps, StepOf(c))[i] = p.steps[i]
          /\ Append(p.steps, StepOf(c))[n] = StepOf(c)
      BY <1>1, <1>3, <1>5, <1>6
    <3> HIDE DEF a, p
    <3>2. \A i \in 1..n : i \in 1..(n - 1) \/ i = n
      OBVIOUS
    <3>3. \A i \in 1..n : Append(p.steps, StepOf(c))[i] = a.steps[i]
      BY <1>2, <1>3, <1>8, <3>1, <3>2
    <3> QED
      BY <1>2, <1>6, <3>1, <3>3, SeqEqual
  <2>2. ProposedHead(c) = [world |-> p.world, genesis |-> p.genesis, steps |-> a.steps]
    BY <1>8, <2>1 DEF ProposedHead, Extend
  <2>3. a = [world |-> a.world, genesis |-> a.genesis, steps |-> a.steps]
    BY <1>2 DEF WorldHead
  <2> QED
    BY <1>2, <1>3, <1>4, <2>2, <2>3
<1> QED
  BY <1>7, <1>8 DEF a, p

(* Down an accepted path without a revision every head was led to by one   *)
(* committed candidate, so the anchors are one to a step.                  *)
LEMMA ChainOf ==
  ASSUME TypeOK, LineageRestores, NEW h \in WorldHead, OnPath(h),
         h.steps = <<>> \/ ~HasRevisionHistory(h)
  PROVE  /\ ModelOf(h) = h.genesis
         /\ \A n \in DOMAIN h.steps :
              /\ h.steps[n].kind = "roll"
              /\ CandidateFor(Ancestor(h, n - 1), h.steps[n]) \in WorldAnchors(h)
         /\ IsFiniteSet(WorldAnchors(h)) /\ Cardinality(WorldAnchors(h)) = Len(h.steps)
         /\ \A c \in WorldAnchors(h) : Len(c.parent.steps) < Len(h.steps)
<1> DEFINE s == h.steps
           N == Len(s)
           cand(n) == CandidateFor(Ancestor(h, n - 1), s[n])
<1>1. s \in Seq(Step) /\ N \in Nat /\ DOMAIN s = 1..N /\ \A n \in 1..N : s[n] \in Step
  BY DEF WorldHead
<1>2. ASSUME NEW n \in 1..N, s[n].kind = "roll" PROVE cand(n) \in Committed
  <2> DEFINE p == worlds[h.world]
  <2>1. h.world \in DOMAIN worlds /\ N <= Len(p.steps) /\ h = Ancestor(p, N)
    BY <1>1 DEF OnPath
  <2>2. p \in WorldHead /\ p.steps \in Seq(Step)
    BY <2>1 DEF TypeOK, WorldHead
  <2>3. N \in 0..Len(p.steps) /\ n - 1 \in 0..N /\ n \in DOMAIN p.steps
    BY <1>1, <2>1, <2>2
  <2>4. Ancestor(h, n - 1) = Ancestor(p, n - 1) /\ s[n] = p.steps[n]
    <3>1. /\ \A i \in 1..N : Ancestor(p, N).steps[i] = p.steps[i]
          /\ \A k \in 0..N : Ancestor(Ancestor(p, N), k) = Ancestor(p, k)
      BY <2>2, <2>3, AncestorIs
    <3> QED
      BY <2>1, <2>3, <3>1
  <2> QED
    BY <1>2, <2>1, <2>3, <2>4 DEF LineageRestores
<1>3. \A n \in 1..N : s[n].kind = "roll" /\ s[n] \in CandidateStep
  <2> DEFINE R == {n \in 1..N : s[n].kind = "revision"}
  <2>1. \A n \in 1..N : (s[n].kind = "roll" /\ s[n] \in CandidateStep) \/ s[n].kind = "revision"
    BY <1>1 DEF Step, CandidateStep, RevisionStep
  <2>2. ASSUME R # {} PROVE FALSE
    <3>1. PICK n : n = Max(R)
      OBVIOUS
    <3>2. R \subseteq 1..N
      OBVIOUS
    <3>3. n \in R /\ \A y \in R : n >= y
      BY <1>1, <2>2, <3>1, <3>2, LastOf
    <3>4. n \in 1..N /\ s[n].kind = "revision"
      BY <3>3
    <3>5. ASSUME NEW m \in (n + 1)..N PROVE s[m].kind = "roll" /\ cand(m) \in DOMAIN candidates
      <4>1. m \in 1..N /\ ~(n >= m)
        BY <1>1, <3>4
      <4>2. s[m].kind # "revision"
        BY <3>3, <4>1
      <4> QED
        BY <1>2, <2>1, <4>1, <4>2 DEF Committed
    <3>6. h.steps # <<>>
      BY <1>1, <3>4
    <3> QED
      BY <3>4, <3>5, <3>6, RevisionSeen
  <2> QED
    BY <2>1, <2>2
<1>4. ModelOf(h) = h.genesis
  <2>1. {i \in DOMAIN h.steps : h.steps[i].kind = "revision"} = {}
    BY <1>1, <1>3
  <2> QED
    BY <2>1 DEF ModelOf
<1>5. ASSUME NEW n \in 1..N
      PROVE  /\ LedTo(Ancestor(h, n)) = {cand(n)}
             /\ Len(cand(n).parent.steps) = n - 1
  <2>1. n - 1 \in 0..N
    BY <1>1
  <2>2. cand(n) \in Candidate /\ cand(n) \in Committed
    BY <1>2, <1>3 DEF Committed, TypeOK
  <2>3. cand(n).parent = Ancestor(h, n - 1) /\ StepOf(cand(n)) = s[n]
    BY <1>3 DEF CandidateFor, StepOf, CandidateStep
  <2>4. ProposedHead(cand(n)) = Ancestor(h, n)
    <3> HIDE DEF cand
    <3> QED
      BY <2>2, <2>3, LedToBy
  <2>5. ASSUME NEW c \in Committed, ProposedHead(c) = Ancestor(h, n) PROVE c = cand(n)
    <3>1. c \in Candidate
      BY DEF Committed, TypeOK
    <3>2. c.parent = Ancestor(h, n - 1) /\ StepOf(c) = s[n]
      BY <2>5, <3>1, LedToBy
    <3>3. c = CandidateFor(c.parent, StepOf(c))
      BY <3>1, RecordsReadBack
    <3> QED
      BY <3>2, <3>3
  <2>6. Len(Ancestor(h, n - 1).steps) = n - 1
    BY <2>1, AncestorIs
  <2> HIDE DEF cand
  <2> QED
    BY <2>2, <2>3, <2>4, <2>5, <2>6 DEF LedTo
<1>6. WorldAnchors(h) = {cand(n) : n \in 1..N}
  <2> HIDE DEF cand
  <2>1. ASSUME NEW c PROVE c \in WorldAnchors(h) <=> \E n \in 1..N : c = cand(n)
    <3>1. \A n \in 1..N : \A m \in n..N : m \in 1..N
      BY <1>1
    <3>2. \A n \in 1..N : LedTo(Ancestor(h, n)) # {}
      BY <1>5
    <3>3. c \in WorldAnchors(h) <=>
            \E n \in 1..N : c \in LedTo(Ancestor(h, n)) /\ \A m \in n..N : LedTo(Ancestor(h, m)) # {}
      BY AnchorsAre
    <3> QED
      BY <1>5, <3>1, <3>2, <3>3, Zenon
  <2> QED
    BY <2>1
<1> HIDE DEF cand
<1>7. IsFiniteSet(WorldAnchors(h)) /\ Cardinality(WorldAnchors(h)) = N
  <2> DEFINE f == [n \in 1..N |-> cand(n)]
  <2>1. \A n, m \in 1..N : cand(n) = cand(m) => n = m
    <3> SUFFICES ASSUME NEW n \in 1..N, NEW m \in 1..N, cand(n) = cand(m) PROVE n = m
      OBVIOUS
    <3>1. n - 1 = m - 1
      BY <1>5
    <3> QED
      BY <1>1, <3>1
  <2>2. f \in Bijection(1..N, WorldAnchors(h))
    BY <1>6, <2>1 DEF Bijection, Injection, Surjection, IsInjective
  <2>3. ExistsBijection(1..N, WorldAnchors(h))
    BY <2>2 DEF ExistsBijection
  <2>4. IsFiniteSet(1..N) /\ Cardinality(1..N) = N
    BY <1>1, FS_Interval
  <2> QED
    BY <2>3, <2>4, FS_Bijection
<1>8. \A n \in DOMAIN h.steps : h.steps[n].kind = "roll" /\ cand(n) \in WorldAnchors(h)
  BY <1>1, <1>3, <1>6
<1>9. \A c \in WorldAnchors(h) : Len(c.parent.steps) < N
  <2>1. \A n \in 1..N : n - 1 < N
    BY <1>1
  <2> QED
    BY <1>5, <1>6, <2>1
<1> QED
  BY <1>4, <1>7, <1>8, <1>9 DEF cand

(* What the source of a grounded graph is, and what is stored with it.     *)
LEMMA SourceIs ==
  ASSUME TypeOK, GraphsGrounded, NEW g \in DOMAIN graphs
  PROVE  LET source == SourceOf(g)
             snapshot == graphs[g]
         IN  \/ /\ source.kind = "model" /\ snapshot.anchors = {}
                /\ SourceModel(source) = source.of /\ snapshot.model = source.of
             \/ /\ source.kind = "world" /\ source.of \in WorldHead /\ OnPath(source.of)
                /\ WorldFound(source.of, snapshot.model)
                /\ ModelOf(source.of) = snapshot.model
                /\ snapshot.anchors = WorldAnchors(source.of)
             \/ /\ source.kind = "candidate" /\ source.of \in DOMAIN candidates /\ source.of \in Candidate
                /\ OnPath(source.of.parent)
                /\ ModelOf(source.of.parent) = snapshot.model
                /\ snapshot.anchors = WorldAnchors(source.of.parent) \cup {source.of}
<1> DEFINE source == SourceOf(g)
           snapshot == graphs[g]
<1>1. g.line \in Seq(Source) /\ g.line # <<>>
  BY DEF GraphsGrounded
<1>2. source \in Source
  BY <1>1 DEF SourceOf, Last
<1>3. /\ SnapshotBound(g, snapshot) /\ AnchorsValid(g, snapshot)
      /\ source.kind = "world" => OnPath(source.of)
  BY DEF GraphsGrounded, Admissible
<1>4. /\ SourceModel(source) = snapshot.model
      /\ source.kind = "world" => WorldFound(source.of, snapshot.model)
      /\ source.kind = "candidate" => source.of \in DOMAIN candidates
      /\ snapshot.anchors = SourceAnchors(source)
  BY <1>3 DEF SnapshotBound, AnchorsValid
<1>5. CASE source \in [kind : {"model"}, of : Models]
  <2>1. source.kind = "model" /\ SourceModel(source) = source.of /\ SourceAnchors(source) = {}
    BY <1>5 DEF SourceModel, SourceAnchors
  <2> QED
    BY <1>4, <2>1
<1>6. CASE source \in [kind : {"world"}, of : WorldHead]
  <2>1. source.kind = "world" /\ source.of \in WorldHead
    BY <1>6
  <2>2. SourceModel(source) = ModelOf(source.of) /\ SourceAnchors(source) = WorldAnchors(source.of)
    BY <2>1 DEF SourceModel, SourceAnchors
  <2> QED
    BY <1>3, <1>4, <2>1, <2>2
<1>7. CASE source \in [kind : {"candidate"}, of : Candidate]
  <2>1. source.kind = "candidate" /\ source.of \in Candidate /\ source.of \in DOMAIN candidates
    BY <1>4, <1>7
  <2>2. SourceModel(source) = ModelOf(source.of.parent)
    BY <2>1 DEF SourceModel
  <2>3. SourceAnchors(source) = WorldAnchors(source.of.parent) \cup {source.of}
    BY <2>1 DEF SourceAnchors
  <2>4. OnPath(source.of.parent)
    BY <2>1 DEF GraphsGrounded
  <2> QED
    BY <1>4, <2>1, <2>2, <2>3, <2>4
<1> QED
  BY <1>2, <1>5, <1>6, <1>7 DEF Source

(* A graph that may be exported holds by itself: without a revision in its *)
(* history the path of its source is a chain of the stored anchors.        *)
LEMMA ExportedStandsAlone ==
  ASSUME TypeOK, LineageRestores, GraphsGrounded, NEW g \in DOMAIN graphs, Portable(SourceOf(g))
  PROVE  Standalone(SourceOf(g), graphs[g])
<1> DEFINE source == SourceOf(g)
           snapshot == graphs[g]
<1>1. CASE source.kind = "model" /\ snapshot.anchors = {} /\ snapshot.model = source.of
  BY <1>1 DEF Standalone
<1>2. CASE /\ source.kind = "world" /\ source.of \in WorldHead /\ OnPath(source.of)
           /\ WorldFound(source.of, snapshot.model)
           /\ ModelOf(source.of) = snapshot.model
           /\ snapshot.anchors = WorldAnchors(source.of)
  <2> DEFINE h == source.of
  <2>1. h \in KnownHeads => ~HasRevisionHistory(h)
    BY <1>2 DEF Portable
  <2>2. h \notin KnownHeads => h.steps = <<>>
    BY <1>2 DEF WorldFound, GenesisWorld
  <2>3. h.steps = <<>> \/ ~HasRevisionHistory(h)
    BY <2>1, <2>2
  <2>4. h \in WorldHead /\ OnPath(h)
    BY <1>2
  <2> HIDE DEF h
  <2>5. /\ ModelOf(h) = h.genesis
        /\ \A n \in DOMAIN h.steps :
             /\ h.steps[n].kind = "roll"
             /\ CandidateFor(Ancestor(h, n - 1), h.steps[n]) \in WorldAnchors(h)
        /\ Cardinality(WorldAnchors(h)) = Len(h.steps)
    BY <2>3, <2>4, ChainOf
  <2>6. snapshot.anchors = WorldAnchors(h) /\ snapshot.model = h.genesis
    BY <1>2, <2>5 DEF h
  <2>7. ChainHolds(h, snapshot)
    BY <2>5, <2>6 DEF ChainHolds
  <2> QED
    BY <1>2, <2>7 DEF Standalone, h
<1>3. CASE /\ source.kind = "candidate" /\ source.of \in DOMAIN candidates /\ source.of \in Candidate
           /\ OnPath(source.of.parent)
           /\ ModelOf(source.of.parent) = snapshot.model
           /\ snapshot.anchors = WorldAnchors(source.of.parent) \cup {source.of}
  <2> DEFINE c == source.of
             h == source.of.parent
             p == ProposedHead(c)
  <2>1. ~HasRevisionHistory(h)
    BY <1>3 DEF Portable
  <2>2. /\ c \in Candidate /\ h \in WorldHead /\ OnPath(h) /\ h = c.parent
        /\ StepOf(c) \in Step /\ StepOf(c).kind = "roll" /\ CandidateFor(h, StepOf(c)) = c
    BY <1>3, StepIsTyped, RecordsReadBack DEF Candidate
  <2>3. p = Extend(h, StepOf(c))
    BY DEF ProposedHead
  <2>4. snapshot.anchors = WorldAnchors(h) \cup {c} /\ ModelOf(h) = snapshot.model
    BY <1>3
  <2> HIDE DEF c, h, p
  <2>5. /\ ModelOf(h) = h.genesis
        /\ \A n \in DOMAIN h.steps :
             /\ h.steps[n].kind = "roll"
             /\ CandidateFor(Ancestor(h, n - 1), h.steps[n]) \in WorldAnchors(h)
        /\ IsFiniteSet(WorldAnchors(h)) /\ Cardinality(WorldAnchors(h)) = Len(h.steps)
        /\ \A d \in WorldAnchors(h) : Len(d.parent.steps) < Len(h.steps)
    BY <2>1, <2>2, ChainOf
  <2>6. h.steps \in Seq(Step) /\ Len(h.steps) \in Nat /\ DOMAIN h.steps = 1..Len(h.steps)
    BY <2>2 DEF WorldHead
  <2>7. p.genesis = h.genesis /\ p.steps = Append(h.steps, StepOf(c)) /\ Len(p.steps) = Len(h.steps) + 1
    <3>1. p.genesis = h.genesis /\ p.steps = Append(h.steps, StepOf(c))
      BY <2>2, <2>3, ExtendIsHead
    <3> QED
      BY <2>2, <2>6, <3>1, AppendProperties
  <2>8. /\ DOMAIN p.steps = 1..(Len(h.steps) + 1)
        /\ \A n \in DOMAIN h.steps : p.steps[n] = h.steps[n] /\ Ancestor(p, n - 1) = Ancestor(h, n - 1)
        /\ p.steps[Len(h.steps) + 1] = StepOf(c)
        /\ Ancestor(p, Len(h.steps)) = h
    BY <2>2, <2>3, AncestorsKept
  <2>9. ASSUME NEW n \in DOMAIN p.steps
        PROVE  p.steps[n].kind = "roll" /\ CandidateFor(Ancestor(p, n - 1), p.steps[n]) \in snapshot.anchors
    <3>1. CASE n \in DOMAIN h.steps
      BY <2>4, <2>5, <2>8, <3>1
    <3>2. CASE n = Len(h.steps) + 1
      <4>1. n - 1 = Len(h.steps)
        BY <2>6, <3>2
      <4> QED
        BY <2>2, <2>4, <2>8, <3>2, <4>1
    <3>3. n \in DOMAIN h.steps \/ n = Len(h.steps) + 1
      BY <2>6, <2>8
    <3> QED
      BY <3>1, <3>2, <3>3
  <2>10. c \notin WorldAnchors(h)
    BY <2>2, <2>5, <2>6
  <2>11. Cardinality(WorldAnchors(h) \cup {c}) = Len(p.steps)
    BY <2>5, <2>7, <2>10, FS_AddElement
  <2>12. ChainHolds(p, snapshot) /\ c \in snapshot.anchors
    BY <2>4, <2>5, <2>7, <2>9, <2>11 DEF ChainHolds
  <2> QED
    BY <1>3, <2>12 DEF Standalone, c, p
<1> HIDE DEF source, snapshot
<1> QED
  BY <1>1, <1>2, <1>3, SourceIs DEF source, snapshot

-----------------------------------------------------------------------------
(* The commands on graphs, and the session under them.                     *)

(* The commands on graphs are steps the session does not see.              *)
THEOREM GraphsLeaveSession == NarrativesSpec => Spec
<1>1. NarrativesInit => Init
  BY DEF NarrativesInit
<1>2. [NarrativesNext]_narrativeVars => [Next]_vars
  BY DEF NarrativesNext, RegisterGraph, ReviseGraph, ExtendGraph, StoreGraph, narrativeVars, vars
<1> QED
  BY <1>1, <1>2, PTL DEF NarrativesSpec, Spec

(* The anchors of a source stay as they are, whatever is committed since.  *)
LEMMA AdmittedAgain ==
  ASSUME TypeOK, IInv, TypeOK', [Next]_vars, GraphsGrounded, NEW g, NEW snapshot,
         SourceOf(g) \in Source, SourceOf(g).kind = "world" => OnPath(SourceOf(g).of),
         SnapshotBound(g, snapshot), AnchorsValid(g, snapshot)
  PROVE  SnapshotBound(g, snapshot)' /\ AnchorsValid(g, snapshot)'
<1> DEFINE source == SourceOf(g)
<1>0. PICK src : src = source
  OBVIOUS
<1>1. /\ models \subseteq models' /\ DOMAIN candidates \subseteq DOMAIN candidates'
      /\ \/ Committed' = Committed
         \/ \E c \in Candidate :
              /\ Committed' = Committed \cup {c}
              /\ c.parent.world \in DOMAIN worlds
              /\ worlds[c.parent.world] = c.parent
  BY SessionStep
<1>2. /\ snapshot.model \in models
      /\ src.kind = "world" => WorldFound(src.of, snapshot.model)
      /\ src.kind = "candidate" => src.of \in DOMAIN candidates
      /\ SourceModel(src) = snapshot.model
      /\ snapshot.anchors = SourceAnchors(src)
      /\ \A c \in snapshot.anchors : c \in DOMAIN candidates /\ ModelOf(c.parent) = snapshot.model
  BY <1>0 DEF SnapshotBound, AnchorsValid
<1>3. src.kind = "world" => WorldFound(src.of, snapshot.model)'
  <2> SUFFICES ASSUME src.kind = "world" PROVE WorldFound(src.of, snapshot.model)'
    OBVIOUS
  <2>1. snapshot.model = ModelOf(src.of)
    BY <1>2 DEF SourceModel
  <2>2. PICK h, m : h = src.of /\ m = snapshot.model
    OBVIOUS
  <2>3. WorldFound(h, m) /\ m = ModelOf(h)
    BY <1>2, <2>1, <2>2
  <2>4. WorldFound(h, m)'
    BY <2>3, FoundAgain
  <2> QED
    BY <2>2, <2>4
<1>4. SourceAnchors(src)' = SourceAnchors(src)
  <2>1. CASE src \in [kind : {"model"}, of : Models]
    BY <2>1 DEF SourceAnchors
  <2>2. CASE src \in [kind : {"world"}, of : WorldHead]
    <3>1. PICK h : h = src.of
      OBVIOUS
    <3>2. h \in WorldHead /\ src.kind = "world" /\ OnPath(h)
      BY <1>0, <2>2, <3>1
    <3>3. WorldAnchors(h)' = WorldAnchors(h)
      BY <1>1, <3>2, AnchorsKept
    <3> QED
      BY <3>1, <3>2, <3>3 DEF SourceAnchors
  <2>3. CASE src \in [kind : {"candidate"}, of : Candidate]
    <3>1. src.kind = "candidate" /\ src.of \in DOMAIN candidates /\ src.of.parent \in WorldHead
      BY <1>2, <2>3 DEF Candidate
    <3>2. PICK h : h = src.of.parent
      OBVIOUS
    <3>3. h \in WorldHead /\ OnPath(h)
      BY <3>1, <3>2 DEF GraphsGrounded
    <3>4. WorldAnchors(h)' = WorldAnchors(h)
      BY <1>1, <3>3, AnchorsKept
    <3> QED
      BY <3>1, <3>2, <3>4 DEF SourceAnchors
  <2> QED
    BY <1>0, <2>1, <2>2, <2>3 DEF Source
<1>5. SnapshotBound(g, snapshot)'
  BY <1>0, <1>1, <1>2, <1>3 DEF SnapshotBound
<1>6. AnchorsValid(g, snapshot)'
  BY <1>0, <1>1, <1>2, <1>4 DEF AnchorsValid
<1> QED
  BY <1>5, <1>6

(* Whatever the session does, what the graphs rest on stays.               *)
LEMMA SessionKeepsGraphs ==
  ASSUME TypeOK, IInv, TypeOK', [Next]_vars, GraphsGrounded, UNCHANGED graphs
  PROVE  GraphsGrounded'
<1>1. \A w \in DOMAIN worlds :
        /\ w \in DOMAIN worlds'
        /\ \/ worlds'[w] = worlds[w]
           \/ \E s \in Step : worlds'[w] = Extend(worlds[w], s)
           \/ worlds[w].steps = <<>>
  BY SessionStep
<1>2. ASSUME NEW h \in WorldHead, OnPath(h) PROVE OnPath(h)'
  BY <1>1, <1>2, PathsKept
<1>3. ASSUME NEW c \in DOMAIN candidates' PROVE OnPath(c.parent)'
  <2>1. c.parent \in WorldHead
    BY DEF TypeOK, Candidate
  <2>2. OnPath(c.parent)
    <3>1. CASE c \in DOMAIN candidates
      BY <3>1 DEF GraphsGrounded
    <3>2. CASE c.parent.world \in DOMAIN worlds /\ worlds[c.parent.world] = c.parent
      BY <3>2, AcceptedOnPath
    <3> QED
      BY <3>1, <3>2, SessionStep
  <2>3. PICK h : h = c.parent
    OBVIOUS
  <2>4. OnPath(h)'
    BY <1>2, <2>1, <2>2, <2>3
  <2> QED
    BY <2>3, <2>4
<1>4. ASSUME NEW g \in DOMAIN graphs
      PROVE  /\ SourceOf(g).kind = "world" => OnPath(SourceOf(g).of)'
             /\ Admissible(g, graphs[g], DOMAIN graphs \ {g})'
  <2>1. /\ g.line \in Seq(Source) /\ g.line # <<>>
        /\ SourceOf(g).kind = "world" => OnPath(SourceOf(g).of)
        /\ Linked(g, DOMAIN graphs \ {g}) /\ SnapshotBound(g, graphs[g]) /\ AnchorsValid(g, graphs[g])
    BY DEF GraphsGrounded, Admissible
  <2>2. SourceOf(g) \in Source
    BY <2>1 DEF SourceOf, Last
  <2>3. PICK snapshot : snapshot = graphs[g]
    OBVIOUS
  <2>4. SnapshotBound(g, snapshot)' /\ AnchorsValid(g, snapshot)'
    BY <2>1, <2>2, <2>3, AdmittedAgain
  <2>5. Admissible(g, graphs[g], DOMAIN graphs \ {g})'
    <3>1. Linked(g, DOMAIN graphs \ {g})'
      BY <2>1 DEF Linked
    <3> QED
      BY <2>3, <2>4, <3>1 DEF Admissible
  <2>6. ASSUME SourceOf(g).kind = "world" PROVE OnPath(SourceOf(g).of)'
    <3>1. PICK h : h = SourceOf(g).of
      OBVIOUS
    <3>2. h \in WorldHead /\ OnPath(h)
      BY <2>1, <2>2, <2>6, <3>1 DEF Source
    <3>3. OnPath(h)'
      BY <1>2, <3>2
    <3> QED
      BY <3>1, <3>3
  <2> QED
    BY <2>5, <2>6
<1> QED
  BY <1>3, <1>4 DEF GraphsGrounded

(* A graph that is admitted is one more that rests on what is stored.      *)
LEMMA StoringKeepsGraphs ==
  ASSUME TypeOK, IInv, TypeOK', GraphsGrounded, NEW g, NEW snapshot,
         g \in [id : GraphIds, line : Seq(Source) \ {<<>>}],
         SourceOf(g).kind = "world" => OnPath(SourceOf(g).of),
         StoreGraph(g, snapshot)
  PROVE  GraphsGrounded'
<1>1. /\ g \notin DOMAIN graphs /\ UNCHANGED vars
      /\ Linked(g, DOMAIN graphs) /\ SnapshotBound(g, snapshot) /\ AnchorsValid(g, snapshot)
      /\ DOMAIN graphs' = DOMAIN graphs \cup {g}
      /\ graphs'[g] = snapshot
      /\ \A f \in DOMAIN graphs : graphs'[f] = graphs[f]
  BY DEF StoreGraph, Admissible
<1>2. \A h : OnPath(h) => OnPath(h)'
  BY <1>1 DEF OnPath, vars
<1>3. \A c \in DOMAIN candidates' : OnPath(c.parent)'
  BY <1>1, <1>2 DEF GraphsGrounded, vars
<1>4. ASSUME NEW f \in DOMAIN graphs'
      PROVE  /\ f \in [id : GraphIds, line : Seq(Source) \ {<<>>}]
             /\ SourceOf(f).kind = "world" => OnPath(SourceOf(f).of)
             /\ SnapshotBound(f, graphs'[f]) /\ AnchorsValid(f, graphs'[f])
             /\ Linked(f, DOMAIN graphs' \ {f})
  <2>1. CASE f = g
    <3>1. DOMAIN graphs' \ {g} = DOMAIN graphs
      BY <1>1
    <3> QED
      BY <1>1, <2>1, <3>1
  <2>2. CASE f \in DOMAIN graphs /\ f # g
    <3>1. /\ f \in [id : GraphIds, line : Seq(Source) \ {<<>>}]
          /\ SourceOf(f).kind = "world" => OnPath(SourceOf(f).of)
          /\ Linked(f, DOMAIN graphs \ {f}) /\ SnapshotBound(f, graphs[f]) /\ AnchorsValid(f, graphs[f])
      BY <2>2 DEF GraphsGrounded, Admissible
    <3>2. DOMAIN graphs' \ {f} = (DOMAIN graphs \ {f}) \cup {g}
      BY <1>1, <2>2
    <3>3. ASSUME Len(f.line) = 1, g.id = f.id PROVE Len(g.line) > 1
      <4>1. Len(g.line) = 1 => Len(f.line) > 1
        BY <1>1, <2>2, <3>3, Zenon DEF Linked
      <4>2. ~(1 > 1)
        OBVIOUS
      <4>3. Len(g.line) # 1
        BY <3>3, <4>1, <4>2
      <4>4. PICK line : line = g.line
        OBVIOUS
      <4>5. line \in Seq(Source) /\ line # <<>>
        BY <4>4
      <4>6. Len(line) \in Nat /\ Len(line) # 0
        BY <4>5
      <4>7. Len(line) # 1
        BY <4>3, <4>4, Zenon
      <4>8. Len(line) > 1
        <5>1. \A n \in Nat : n # 0 /\ n # 1 => n > 1
          OBVIOUS
        <5> QED
          BY <4>6, <4>7, <5>1, Zenon
      <4> QED
        BY <4>4, <4>8, Zenon
    <3>4. Linked(f, DOMAIN graphs' \ {f})
      BY <3>1, <3>2, <3>3 DEF Linked
    <3> QED
      BY <1>1, <2>2, <3>1, <3>4
  <2> QED
    BY <1>1, <2>1, <2>2
<1>5. ASSUME NEW f \in DOMAIN graphs'
      PROVE  Admissible(f, graphs[f], DOMAIN graphs \ {f})'
  <2>1. PICK kept : kept = graphs'[f]
    OBVIOUS
  <2>2. f.line \in Seq(Source) /\ f.line # <<>>
    BY <1>4
  <2>3. SourceOf(f) \in Source
    BY <2>2 DEF SourceOf, Last
  <2>4. SnapshotBound(f, kept)' /\ AnchorsValid(f, kept)'
    BY <1>1, <1>4, <2>1, <2>3, AdmittedAgain
  <2>5. Linked(f, DOMAIN graphs \ {f})'
    BY <1>4 DEF Linked
  <2> QED
    BY <2>1, <2>4, <2>5 DEF Admissible
<1> QED
  BY <1>2, <1>3, <1>4, <1>5 DEF GraphsGrounded

(* What may be bound by a graph is typed, and a world is bound on its path. *)
LEMMA SourcesTyped ==
  ASSUME TypeOK, NEW source \in Sources
  PROVE  source \in Source /\ (source.kind = "world" => OnPath(source.of))
<1>1. CASE source \in {ModelSource(m) : m \in models}
  BY <1>1 DEF ModelSource, Source, TypeOK
<1>2. CASE source \in {WorldSource(worlds[w]) : w \in DOMAIN worlds}
  BY <1>2, AcceptedOnPath DEF WorldSource, Source, TypeOK
<1>3. CASE source \in {CandidateSource(c) : c \in DOMAIN candidates}
  BY <1>3 DEF CandidateSource, Source, TypeOK
<1> QED
  BY <1>1, <1>2, <1>3 DEF Sources

(* The graphs rest on accepted heads, and each would be admitted again.    *)
LEMMA GroundedInvariant == NarrativesSpec => []GraphsGrounded
<1>1. NarrativesInit => GraphsGrounded
  <2> SUFFICES ASSUME NarrativesInit PROVE GraphsGrounded
    OBVIOUS
  <2>1. DOMAIN candidates = {} /\ DOMAIN graphs = {}
    BY DEF NarrativesInit, Init
  <2> QED
    BY <2>1 DEF GraphsGrounded
<1>2. IInv /\ TypeOK' /\ GraphsGrounded /\ [NarrativesNext]_narrativeVars => GraphsGrounded'
  <2> SUFFICES ASSUME IInv, TypeOK', GraphsGrounded, [NarrativesNext]_narrativeVars
               PROVE  GraphsGrounded'
    OBVIOUS
  <2>0. TypeOK
    BY DEF IInv
  <2>1. CASE [Next]_vars /\ UNCHANGED graphs
    BY <2>0, <2>1, SessionKeepsGraphs
  <2>2. ASSUME NEW id \in GraphIds, NEW source \in Sources, RegisterGraph(id, source)
        PROVE  GraphsGrounded'
    <3> DEFINE g == [id |-> id, line |-> <<source>>]
    <3>1. source \in Source /\ (source.kind = "world" => OnPath(source.of))
      BY <2>0, SourcesTyped
    <3>2. <<source>> \in Seq(Source) \ {<<>>} /\ Last(<<source>>) = source
      BY <3>1 DEF Last
    <3>3. g \in [id : GraphIds, line : Seq(Source) \ {<<>>}] /\ SourceOf(g) = source
      BY <3>2 DEF SourceOf
    <3>4. StoreGraph(g, Capture(source))
      BY <2>2 DEF RegisterGraph
    <3> HIDE DEF g
    <3> QED
      BY <2>0, <3>1, <3>3, <3>4, StoringKeepsGraphs
  <2>3. ASSUME NEW f \in DOMAIN graphs, NEW source, source \in Source,
               source.kind = "world" => OnPath(source.of), NEW snapshot,
               StoreGraph([f EXCEPT !.line = Append(@, source)], snapshot)
        PROVE  GraphsGrounded'
    <3> DEFINE g == [f EXCEPT !.line = Append(@, source)]
    <3>1. f \in [id : GraphIds, line : Seq(Source) \ {<<>>}]
      BY DEF GraphsGrounded
    <3>2. /\ Append(f.line, source) \in Seq(Source) /\ Append(f.line, source) # <<>>
          /\ Last(Append(f.line, source)) = source
      <4>1. f.line \in Seq(Source)
        BY <3>1
      <4> QED
        BY <2>3, <4>1, AppendProperties DEF Last
    <3>3. g \in [id : GraphIds, line : Seq(Source) \ {<<>>}] /\ g.line = Append(f.line, source)
      BY <3>1, <3>2
    <3>4. SourceOf(g) = source
      BY <3>2, <3>3 DEF SourceOf
    <3>5. StoreGraph(g, snapshot)
      BY <2>3
    <3> HIDE DEF g
    <3> QED
      BY <2>0, <2>3, <3>3, <3>4, <3>5, StoringKeepsGraphs
  <2>4. ASSUME NEW f \in DOMAIN graphs, NEW source \in Sources, ReviseGraph(f, source)
        PROVE  GraphsGrounded'
    <3>1. source \in Source /\ (source.kind = "world" => OnPath(source.of))
      BY <2>0, SourcesTyped
    <3>2. PICK snapshot : StoreGraph([f EXCEPT !.line = Append(@, source)], snapshot)
      BY <2>4 DEF ReviseGraph
    <3> QED
      BY <2>3, <3>1, <3>2
  <2>5. ASSUME NEW f \in DOMAIN graphs, ExtendGraph(f) PROVE GraphsGrounded'
    <3>1. PICK source, snapshot : /\ source = SourceOf(f)
                                  /\ StoreGraph([f EXCEPT !.line = Append(@, source)], snapshot)
      BY <2>5 DEF ExtendGraph
    <3>2. f.line \in Seq(Source) /\ f.line # <<>>
      BY DEF GraphsGrounded
    <3>3. SourceOf(f) \in Source
      BY <3>2 DEF SourceOf, Last
    <3>4. SourceOf(f).kind = "world" => OnPath(SourceOf(f).of)
      BY DEF GraphsGrounded
    <3> QED
      BY <2>3, <3>1, <3>3, <3>4
  <2> QED
    BY <2>1, <2>2, <2>4, <2>5 DEF NarrativesNext, narrativeVars
<1>3. NarrativesSpec => []IInv
  BY GraphsLeaveSession, TypeInvariant, LineageInvariant, PTL DEF IInv
<1>4. NarrativesSpec => []TypeOK
  BY GraphsLeaveSession, TypeInvariant, PTL
<1> QED
  BY <1>1, <1>2, <1>3, <1>4, PTL DEF NarrativesSpec

(* A graph that was admitted is admitted again whatever the session has    *)
(* done since, and one that may be exported holds by itself.               *)
THEOREM GraphsAreRestored == NarrativesSpec => []GraphsRestore
<1>1. IInv /\ GraphsGrounded => GraphsRestore
  <2> SUFFICES ASSUME IInv, GraphsGrounded, NEW g \in DOMAIN graphs
               PROVE  /\ Admissible(g, graphs[g], DOMAIN graphs \ {g})
                      /\ Portable(SourceOf(g)) => Standalone(SourceOf(g), graphs[g])
    BY DEF GraphsRestore
  <2>1. Admissible(g, graphs[g], DOMAIN graphs \ {g})
    BY DEF GraphsGrounded
  <2>2. Portable(SourceOf(g)) => Standalone(SourceOf(g), graphs[g])
    BY ExportedStandsAlone DEF IInv
  <2> QED
    BY <2>1, <2>2
<1>2. NarrativesSpec => []IInv
  BY GraphsLeaveSession, TypeInvariant, LineageInvariant, PTL DEF IInv
<1> QED
  BY <1>1, <1>2, GroundedInvariant, PTL
===============================================================================
