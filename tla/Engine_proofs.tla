---------------------------- MODULE Engine_proofs -----------------------------
(***************************************************************************)
(* Proofs about the engine: the process as the server sees it, for every   *)
(* set of calls, every length of the queue and both ways to bound the time *)
(* of a call; and the revisions it keeps, for all revisions, any number of *)
(* processes and writes, and whatever else is done to the file.            *)
(***************************************************************************)
EXTENDS EngineProcess, RevisionStore, SequenceTheorems, TLAPS

-----------------------------------------------------------------------------
(* Sequences without duplicates, by the sets of their elements.            *)

(* The elements of a sequence are those of its set.                        *)
LEMMA Elements ==
  ASSUME NEW S, NEW s \in Seq(S)
  PROVE  ToSet(s) \subseteq S /\ (s = <<>> <=> ToSet(s) = {})
BY DEF ToSet

(* A new element is added at the end.                                      *)
LEMMA Appended ==
  ASSUME NEW S, NEW s \in Seq(S), NEW e \in S
  PROVE  /\ Append(s, e) \in Seq(S)
         /\ ToSet(Append(s, e)) = ToSet(s) \cup {e}
         /\ IsInjective(s) /\ e \notin ToSet(s) => IsInjective(Append(s, e))
<1>1. Append(s, e) \in Seq(S) /\ Len(Append(s, e)) = Len(s) + 1
  OBVIOUS
<1>2. \A i \in 1..Len(s) + 1 : Append(s, e)[i] = IF i <= Len(s) THEN s[i] ELSE e
  OBVIOUS
<1>3. ToSet(Append(s, e)) = ToSet(s) \cup {e}
  BY <1>1, <1>2 DEF ToSet
<1>4. ASSUME IsInjective(s), e \notin ToSet(s) PROVE IsInjective(Append(s, e))
  BY <1>1, <1>2, <1>4 DEF ToSet, IsInjective
<1> QED
  BY <1>1, <1>3, <1>4

(* The oldest element is taken from the front.                             *)
LEMMA Taken ==
  ASSUME NEW S, NEW s \in Seq(S), s # <<>>
  PROVE  /\ Head(s) \in S /\ Tail(s) \in Seq(S)
         /\ ToSet(s) = {Head(s)} \cup ToSet(Tail(s))
         /\ IsInjective(s) => IsInjective(Tail(s)) /\ Head(s) \notin ToSet(Tail(s))
<1>1. /\ Head(s) \in S /\ Tail(s) \in Seq(S) /\ Len(Tail(s)) = Len(s) - 1
      /\ Head(s) = s[1] /\ Len(s) \in Nat \ {0}
      /\ DOMAIN s = 1..Len(s) /\ DOMAIN Tail(s) = 1..Len(s) - 1
  OBVIOUS
<1>2. \A i \in 1..Len(s) - 1 : Tail(s)[i] = s[i + 1]
  OBVIOUS
<1>3. ToSet(s) = {Head(s)} \cup ToSet(Tail(s))
  <2>1. ASSUME NEW x \in ToSet(s) PROVE x = Head(s) \/ x \in ToSet(Tail(s))
    <3>1. PICK i \in 1..Len(s) : x = s[i]
      BY DEF ToSet
    <3>2. CASE i = 1
      BY <1>1, <3>1, <3>2
    <3>3. CASE i # 1
      <4>1. i - 1 \in 1..Len(s) - 1 /\ Tail(s)[i - 1] = x
        BY <1>1, <1>2, <3>1, <3>3
      <4> QED
        BY <1>1, <4>1 DEF ToSet
    <3> QED
      BY <3>2, <3>3
  <2>2. Head(s) \in ToSet(s)
    BY <1>1 DEF ToSet
  <2>3. ASSUME NEW x \in ToSet(Tail(s)) PROVE x \in ToSet(s)
    BY <1>1, <1>2, <2>3 DEF ToSet
  <2> QED
    BY <2>1, <2>2, <2>3
<1>4. ASSUME IsInjective(s) PROVE IsInjective(Tail(s)) /\ Head(s) \notin ToSet(Tail(s))
  BY <1>1, <1>2, <1>4 DEF ToSet, IsInjective
<1> QED
  BY <1>1, <1>3, <1>4

(* An element is removed from where it is, and is nowhere else.            *)
LEMMA Removed ==
  ASSUME NEW S, NEW s \in Seq(S), NEW i \in DOMAIN s, IsInjective(s)
  PROVE  LET t == RemoveAt(s, i)
         IN  /\ t \in Seq(S) /\ Len(t) = Len(s) - 1
             /\ ToSet(t) = ToSet(s) \ {s[i]} /\ IsInjective(t)
<1> DEFINE t == RemoveAt(s, i)
<1>1. /\ i \in 1..Len(s) /\ Len(s) \in Nat /\ DOMAIN s = 1..Len(s)
      /\ \A j \in 1..Len(s) : s[j] \in S
  OBVIOUS
<1>2. /\ t \in Seq(S) /\ Len(t) = Len(s) - 1
      /\ \A j \in 1..Len(s) - 1 : t[j] = IF j < i THEN s[j] ELSE s[j + 1]
  <2> DEFINE a == SubSeq(s, 1, i - 1)
             b == SubSeq(s, i + 1, Len(s))
  <2>1. a \in Seq(S) /\ Len(a) = i - 1 /\ \A j \in 1..i - 1 : a[j] = s[j]
    <3>1. \A j \in 1..i - 1 : s[j] \in S
      BY <1>1
    <3> QED
      BY <1>1, <3>1, SubSeqProperties
  <2>2. b \in Seq(S) /\ Len(b) = Len(s) - i /\ \A j \in 1..Len(s) - i : b[j] = s[i + j]
    <3>1. \A j \in i + 1..Len(s) : s[j] \in S
      BY <1>1
    <3> QED
      BY <1>1, <3>1, SubSeqProperties
  <2>3. t = a \o b
    BY DEF RemoveAt
  <2> HIDE DEF a, b, t
  <2>4. /\ a \o b \in Seq(S) /\ Len(a \o b) = Len(a) + Len(b)
        /\ \A j \in 1..Len(a) + Len(b) : (a \o b)[j] = IF j <= Len(a) THEN a[j] ELSE b[j - Len(a)]
    BY <2>1, <2>2, ConcatProperties
  <2>5. t \in Seq(S) /\ Len(t) = Len(s) - 1
    BY <1>1, <2>1, <2>2, <2>3, <2>4
  <2>6. ASSUME NEW j \in 1..Len(s) - 1 PROVE t[j] = IF j < i THEN s[j] ELSE s[j + 1]
    <3>1. t[j] = IF j < i THEN a[j] ELSE b[j - (i - 1)]
      BY <1>1, <2>1, <2>2, <2>3, <2>4
    <3>2. CASE j < i
      BY <1>1, <2>1, <3>1, <3>2
    <3>3. CASE ~(j < i)
      <4>1. j - (i - 1) \in 1..Len(s) - i /\ i + (j - (i - 1)) = j + 1
        BY <1>1, <3>3
      <4> QED
        BY <2>2, <3>1, <3>3, <4>1
    <3> QED
      BY <3>2, <3>3
  <2> QED
    BY <2>5, <2>6
<1> HIDE DEF t
<1>3. ToSet(t) = ToSet(s) \ {s[i]}
  <2>1. ASSUME NEW x \in ToSet(t) PROVE x \in ToSet(s) /\ x # s[i]
    BY <1>1, <1>2, <2>1 DEF ToSet, IsInjective
  <2>2. ASSUME NEW x \in ToSet(s), x # s[i] PROVE x \in ToSet(t)
    <3>1. PICK j \in 1..Len(s) : x = s[j]
      BY DEF ToSet
    <3>2. CASE j < i
      BY <1>1, <1>2, <3>1, <3>2 DEF ToSet
    <3>3. CASE j > i
      <4>1. j - 1 \in 1..Len(s) - 1 /\ t[j - 1] = x
        BY <1>1, <1>2, <3>1, <3>3
      <4> QED
        BY <1>2, <4>1 DEF ToSet
    <3> QED
      BY <1>1, <2>2, <3>1, <3>2, <3>3
  <2> QED
    BY <2>1, <2>2
<1>4. IsInjective(t)
  BY <1>1, <1>2 DEF IsInjective
<1> QED
  BY <1>2, <1>3, <1>4 DEF t

-----------------------------------------------------------------------------
(* The inductive invariant.                                                *)

(* The requests that were handed to the engine's input.                    *)
Handed == ToSet(stdin) \cup executed

(* No request is twice in a queue, handed over twice, or still to be       *)
(* written once it was; before the engine is spawned nothing was asked.    *)
OnceQueued ==
  /\ IsInjective(pending) /\ IsInjective(writeQueue) /\ IsInjective(stdin)
  /\ ToSet(writeQueue) \cap Handed = {} /\ ToSet(stdin) \cap executed = {}
  /\ ~child => pending = <<>> /\ ~description /\ Describe \notin ToSet(writeQueue) \cup Handed

(* Only what was executed is answered.                                     *)
AnswersAreTrue ==
  /\ running = None \/ running \in executed
  /\ ToSet(stdout) \subseteq executed
  /\ \A c \in Calls : outcome[c] = "answered" => c \in executed

(* What was not queued yet, and a mutation that was refused, is nowhere on *)
(* its way to the engine.                                                  *)
RefusedIsUnsent ==
  \A c \in Calls :
    \/ outcome[c] \in {"idle", "waiting"}
    \/ outcome[c] = "refused" /\ c \in Mutating
    => c \notin ToSet(writeQueue) \cup Handed

IndeterminateMutates == \A c \in Calls : outcome[c] = "indeterminate" => c \in Mutating

IInv == TypeOK /\ OnceQueued /\ AnswersAreTrue /\ RefusedIsUnsent /\ IndeterminateMutates

(* Nothing is in an empty queue.                                           *)
LEMMA EmptyQueue == ToSet(<<>>) = {} /\ IsInjective(<<>>)
BY DEF ToSet, IsInjective

(* A request handed over or queued is new there.                           *)
LEMMA Scheduled ==
  ASSUME IInv, NEW r \in Requests, r \notin ToSet(writeQueue) \cup Handed, ScheduleWrite(r)
  PROVE  /\ writeQueue' \in Seq(Requests) /\ stdin' \in Seq(Requests) /\ writing' \in Requests \cup {None}
         /\ IsInjective(writeQueue') /\ IsInjective(stdin')
         /\ \/ ToSet(stdin') = ToSet(stdin) \cup {r} /\ ToSet(writeQueue') = ToSet(writeQueue)
            \/ ToSet(stdin') = ToSet(stdin) /\ ToSet(writeQueue') = ToSet(writeQueue) \cup {r}
<1>1. /\ writeQueue \in Seq(Requests) /\ stdin \in Seq(Requests) /\ writing \in Requests \cup {None}
      /\ IsInjective(writeQueue) /\ IsInjective(stdin)
  BY DEF IInv, TypeOK, OnceQueued
<1>2. CASE writing = None
  <2>1. writing' = r /\ stdin' = Append(stdin, r) /\ writeQueue' = writeQueue
    BY <1>2 DEF ScheduleWrite
  <2>2. r \notin ToSet(stdin)
    BY DEF Handed
  <2> QED
    BY <1>1, <2>1, <2>2, Appended
<1>3. CASE writing # None
  <2>1. writing' = writing /\ stdin' = stdin /\ writeQueue' = Append(writeQueue, r)
    BY <1>3 DEF ScheduleWrite
  <2> QED
    BY <1>1, <2>1, Appended
<1> QED
  BY <1>2, <1>3

(* Giving up what is pending.                                              *)
LEMMA RejectKeeps ==
  ASSUME IInv, RejectPending, UNCHANGED <<mode, child, description, writing, stdin, alive, running, executed>>,
         stdout' \in Seq(Requests), ToSet(stdout') \subseteq ToSet(stdout),
         {failure, closed, heartbeat, killed}' \subseteq BOOLEAN
  PROVE  IInv'
<1>1. /\ pending' = <<>> /\ timers' = {} /\ writeQueue' = <<>>
      /\ ToSet(pending') = {} /\ ToSet(writeQueue') = {} /\ IsInjective(pending') /\ IsInjective(writeQueue')
      /\ pending' \in Seq(Requests) /\ writeQueue' \in Seq(Requests) /\ Len(pending') = 0
  BY EmptyQueue DEF RejectPending
<1>2. \A c \in Calls : outcome'[c] = IF outcome[c] = "pending" THEN Lost(c) ELSE outcome[c]
  BY DEF RejectPending
<1>3. /\ outcome' \in [Calls -> Outcomes]
      /\ \A c \in Calls : outcome'[c] # "pending"
  <2>1. \A c \in Calls : outcome'[c] \in Outcomes /\ outcome'[c] # "pending"
    BY <1>2 DEF IInv, TypeOK, Outcomes, Lost
  <2>2. outcome' = [c \in Calls |-> outcome'[c]]
    BY DEF RejectPending
  <2> QED
    BY <2>1, <2>2
<1>4. TypeOK'
  <2>1. {c \in Calls : outcome'[c] = "pending"} = ToSet(pending') \ {Describe}
    BY <1>1, <1>3
  <2>2. Len(pending') <= MaxPendingCalls /\ timers' \subseteq Requests
    BY <1>1, EngineProcessAssumption
  <2> QED
    BY <1>1, <1>3, <2>1, <2>2 DEF IInv, TypeOK
<1>5. OnceQueued'
  BY <1>1 DEF IInv, OnceQueued, Handed
<1>6. AnswersAreTrue'
  BY <1>2 DEF IInv, AnswersAreTrue, Lost
<1>7. RefusedIsUnsent'
  <2> SUFFICES ASSUME NEW c \in Calls,
                      outcome'[c] \in {"idle", "waiting"} \/ (outcome'[c] = "refused" /\ c \in Mutating)
               PROVE  c \notin Handed'
    BY <1>1 DEF RefusedIsUnsent
  <2>1. Handed' = Handed
    BY DEF Handed
  <2>2. CASE outcome[c] = "pending"
    BY <1>2, <2>1, <2>2 DEF IInv, OnceQueued, Lost
  <2>3. CASE outcome[c] # "pending"
    BY <1>2, <2>1, <2>3 DEF IInv, RefusedIsUnsent
  <2> QED
    BY <2>2, <2>3
<1>8. IndeterminateMutates'
  BY <1>2 DEF IInv, IndeterminateMutates, Lost
<1> QED
  BY <1>4, <1>5, <1>6, <1>7, <1>8 DEF IInv

(* The process fails: what was outstanding is settled.                     *)
LEMMA FailKeeps ==
  ASSUME IInv, Fail, UNCHANGED <<alive, running, executed>>,
         stdout' \in Seq(Requests), ToSet(stdout') \subseteq ToSet(stdout)
  PROVE  IInv'
<1>1. /\ RejectPending /\ UNCHANGED <<mode, child, description, writing, stdin, alive, running, executed>>
      /\ {failure, closed, heartbeat, killed}' \subseteq BOOLEAN
  BY DEF Fail, IInv, TypeOK
<1> QED
  BY <1>1, RejectKeeps

-----------------------------------------------------------------------------
(* The actions.                                                            *)

(* A call is admitted or refused.                                          *)
LEMMA CallKeeps ==
  ASSUME IInv, NEW c \in Calls, Call(c)
  PROVE  IInv'
<1>1. CASE outcome' = [outcome EXCEPT ![c] = "waiting"] /\ UNCHANGED <<pending, timers, writeVars, lifeVars, engineVars, stdin>>
  BY <1>1 DEF Call, IInv, TypeOK, OnceQueued, AnswersAreTrue, RefusedIsUnsent, IndeterminateMutates, Handed, Outcomes,
              writeVars, lifeVars, engineVars
<1>2. CASE outcome' = [outcome EXCEPT ![c] = "refused"] /\ UNCHANGED <<pending, timers, writeVars, lifeVars, engineVars, stdin>>
  BY <1>2 DEF Call, IInv, TypeOK, OnceQueued, AnswersAreTrue, RefusedIsUnsent, IndeterminateMutates, Handed, Outcomes,
              writeVars, lifeVars, engineVars
<1>3. CASE /\ ~description /\ ~child /\ outcome' = [outcome EXCEPT ![c] = "waiting"]
           /\ child' = TRUE /\ alive' = TRUE /\ Enqueue(Describe)
           /\ UNCHANGED <<mode, description, failure, closed, heartbeat, killed, running, executed, stdout>>
  <2>1. Describe \in Requests /\ Describe \notin ToSet(writeQueue) \cup Handed /\ pending = <<>>
    BY <1>3 DEF IInv, OnceQueued, Requests
  <2>2. /\ pending' \in Seq(Requests) /\ ToSet(pending') = {Describe} /\ IsInjective(pending') /\ Len(pending') = 1
        /\ ToSet(pending) = {}
    <3>1. pending' = Append(pending, Describe) /\ pending \in Seq(Requests) /\ Len(pending) = 0
      BY <1>3, <2>1 DEF Enqueue, IInv, TypeOK
    <3>2. ToSet(pending) = {} /\ IsInjective(pending)
      BY <2>1, EmptyQueue
    <3>3. Len(Append(pending, Describe)) = 1
      BY <3>1
    <3>4. Describe \in Requests /\ pending \in Seq(Requests) /\ Describe \notin ToSet(pending)
      BY <2>1, <3>1, <3>2
    <3>5. /\ Append(pending, Describe) \in Seq(Requests) /\ IsInjective(Append(pending, Describe))
          /\ ToSet(Append(pending, Describe)) = ToSet(pending) \cup {Describe}
      BY <3>2, <3>4, Appended
    <3> QED
      BY <3>1, <3>2, <3>3, <3>5
  <2>3. timers' \subseteq Requests
    <3>1. FirstOf(pending') \subseteq ToSet(pending')
      BY <2>2, Taken, EmptyQueue DEF FirstOf
    <3> QED
      BY <1>3, <2>1, <2>2, <3>1 DEF Enqueue, StartTimers
  <2>4. ScheduleWrite(Describe)
    BY <1>3 DEF Enqueue
  <2>5. TypeOK'
    BY <1>3, <2>1, <2>2, <2>3, <2>4, Scheduled, EngineProcessAssumption DEF Call, IInv, TypeOK, Outcomes
  <2>6. OnceQueued'
    BY <1>3, <2>1, <2>2, <2>4, Scheduled DEF IInv, OnceQueued, Handed
  <2>7. AnswersAreTrue' /\ IndeterminateMutates'
    BY <1>3 DEF IInv, AnswersAreTrue, IndeterminateMutates, TypeOK
  <2>8. RefusedIsUnsent'
    BY <1>3, <2>1, <2>4, Scheduled, EngineProcessAssumption DEF Call, IInv, TypeOK, RefusedIsUnsent, Handed
  <2> QED
    BY <2>5, <2>6, <2>7, <2>8 DEF IInv
<1> QED
  BY <1>1, <1>2, <1>3 DEF Call

(* A queued call is written to the engine.                                 *)
LEMMA DispatchKeeps ==
  ASSUME IInv, NEW c \in Calls, Dispatch(c)
  PROVE  IInv'
<1>1. CASE outcome' = [outcome EXCEPT ![c] = "refused"] /\ UNCHANGED <<pending, timers, writeVars, stdin>>
  BY <1>1 DEF Dispatch, IInv, TypeOK, OnceQueued, AnswersAreTrue, RefusedIsUnsent, IndeterminateMutates, Handed, Outcomes,
              writeVars, lifeVars, engineVars
<1>2. CASE outcome' = [outcome EXCEPT ![c] = "pending"] /\ Len(pending) < MaxPendingCalls /\ Enqueue(c)
  <2>1. /\ c \in Requests /\ c \notin ToSet(writeQueue) \cup Handed /\ outcome[c] = "waiting"
        /\ c # Describe /\ child
    BY EngineProcessAssumption DEF Dispatch, IInv, OnceQueued, RefusedIsUnsent, Requests
  <2>2. c \notin ToSet(pending)
    BY <2>1 DEF IInv, TypeOK
  <2>3. /\ pending' \in Seq(Requests) /\ ToSet(pending') = ToSet(pending) \cup {c} /\ IsInjective(pending')
        /\ Len(pending') = Len(pending) + 1 /\ Len(pending) \in Nat
    BY <1>2, <2>1, <2>2, Appended DEF Enqueue, IInv, TypeOK, OnceQueued
  <2>4. timers' \subseteq Requests
    <3>1. FirstOf(pending') \subseteq ToSet(pending') /\ ToSet(pending') \subseteq Requests
      BY <2>3, Taken, Elements DEF FirstOf
    <3> QED
      BY <1>2, <3>1 DEF Enqueue, StartTimers, IInv, TypeOK
  <2>5. ScheduleWrite(c)
    BY <1>2 DEF Enqueue
  <2>6. TypeOK'
    <3>1. Len(pending') <= MaxPendingCalls
      BY <1>2, <2>3, EngineProcessAssumption
    <3>2. outcome' \in [Calls -> Outcomes] /\ {d \in Calls : outcome'[d] = "pending"} = ToSet(pending') \ {Describe}
      BY <1>2, <2>1, <2>3 DEF IInv, TypeOK, Outcomes
    <3>3. /\ writeQueue' \in Seq(Requests) /\ stdin' \in Seq(Requests) /\ writing' \in Requests \cup {None}
      BY <2>1, <2>5, Scheduled
    <3> QED
      BY <2>3, <2>4, <3>1, <3>2, <3>3 DEF Dispatch, IInv, TypeOK, lifeVars, engineVars
  <2>7. OnceQueued'
    BY <2>1, <2>3, <2>5, Scheduled DEF Dispatch, IInv, OnceQueued, Handed, lifeVars, engineVars
  <2>8. AnswersAreTrue' /\ IndeterminateMutates'
    BY <1>2 DEF Dispatch, IInv, AnswersAreTrue, IndeterminateMutates, TypeOK, engineVars
  <2>9. RefusedIsUnsent'
    BY <1>2, <2>1, <2>5, Scheduled DEF Dispatch, IInv, TypeOK, RefusedIsUnsent, Handed, engineVars
  <2> QED
    BY <2>6, <2>7, <2>8, <2>9 DEF IInv
<1> QED
  BY <1>1, <1>2 DEF Dispatch

(* A write ends, or fails.                                                 *)
LEMMA WriteDoneKeeps ==
  ASSUME IInv, WriteDone
  PROVE  IInv'
<1>1. /\ writeQueue \in Seq(Requests) /\ stdin \in Seq(Requests) /\ IsInjective(writeQueue) /\ IsInjective(stdin)
      /\ UNCHANGED <<mode, child, description, failure, closed, heartbeat, killed, outcome, pending, timers>>
      /\ UNCHANGED <<alive, running, executed, stdout>>
  BY DEF WriteDone, IInv, TypeOK, OnceQueued, callVars, lifeVars, engineVars
<1>2. CASE writing' = None /\ UNCHANGED <<writeQueue, stdin>>
  BY <1>1, <1>2 DEF IInv, TypeOK, OnceQueued, AnswersAreTrue, RefusedIsUnsent, IndeterminateMutates, Handed
<1>3. CASE /\ writeQueue # <<>> /\ writing' = Head(writeQueue) /\ stdin' = Append(stdin, Head(writeQueue))
           /\ writeQueue' = Tail(writeQueue)
  <2>1. /\ Head(writeQueue) \in Requests /\ writeQueue' \in Seq(Requests) /\ IsInjective(writeQueue')
        /\ ToSet(writeQueue) = {Head(writeQueue)} \cup ToSet(writeQueue') /\ Head(writeQueue) \notin ToSet(writeQueue')
    BY <1>1, <1>3, Taken
  <2>2. Head(writeQueue) \notin ToSet(stdin) /\ Head(writeQueue) \notin executed
    BY <2>1 DEF IInv, OnceQueued, Handed
  <2>3. stdin' \in Seq(Requests) /\ ToSet(stdin') = ToSet(stdin) \cup {Head(writeQueue)} /\ IsInjective(stdin')
    BY <1>1, <1>3, <2>1, <2>2, Appended
  <2>4. ToSet(writeQueue') \cup Handed' = ToSet(writeQueue) \cup Handed
    BY <1>1, <2>1, <2>3 DEF Handed
  <2>5. TypeOK'
    BY <1>1, <1>3, <2>1, <2>3 DEF IInv, TypeOK
  <2>6. OnceQueued'
    BY <1>1, <2>1, <2>2, <2>3, <2>4 DEF IInv, OnceQueued, Handed
  <2>7. AnswersAreTrue' /\ RefusedIsUnsent' /\ IndeterminateMutates'
    BY <1>1, <2>4 DEF IInv, AnswersAreTrue, RefusedIsUnsent, IndeterminateMutates
  <2> QED
    BY <2>5, <2>6, <2>7 DEF IInv
<1> QED
  BY <1>2, <1>3 DEF WriteDone

(* An answer is read and settles its call.                                 *)
LEMMA ConsumeKeeps ==
  ASSUME IInv, ConsumeResponse
  PROVE  IInv'
<1> DEFINE r == Head(stdout)
<1>1. /\ stdout \in Seq(Requests) /\ stdout # <<>> /\ stdout' = Tail(stdout)
      /\ UNCHANGED <<alive, running, executed>>
  BY DEF ConsumeResponse, IInv, TypeOK
<1>2. /\ r \in Requests /\ stdout' \in Seq(Requests) /\ r \in executed /\ ToSet(stdout') \subseteq ToSet(stdout)
  BY <1>1, Taken DEF IInv, AnswersAreTrue
<1> HIDE DEF r
<1>3. ASSUME Fail PROVE IInv'
  BY <1>1, <1>2, <1>3, FailKeeps
<1>4. ASSUME NEW i \in DOMAIN pending, pending[i] = r, pending' = RemoveAt(pending, i),
             timers' = StartTimers(pending'),
             outcome' = [c \in Calls |-> IF c = r THEN "answered" ELSE outcome[c]],
             description' = (description \/ r = Describe),
             UNCHANGED <<mode, child, failure, closed, heartbeat, killed, writeVars, stdin>>
      PROVE  IInv'
  <2>1. /\ pending \in Seq(Requests) /\ Len(pending) \in Nat /\ Len(pending) <= MaxPendingCalls /\ i \in 1..Len(pending)
    BY DEF IInv, TypeOK
  <2>2. /\ pending' \in Seq(Requests) /\ Len(pending') = Len(pending) - 1
        /\ ToSet(pending') = ToSet(pending) \ {r} /\ IsInjective(pending')
    BY <1>4, <2>1, Removed DEF IInv, OnceQueued
  <2>3. timers' \subseteq Requests
    <3>1. FirstOf(pending') \subseteq ToSet(pending') /\ ToSet(pending') \subseteq Requests
      BY <2>2, Taken, Elements DEF FirstOf
    <3> QED
      BY <1>4, <3>1 DEF StartTimers, IInv, TypeOK
  <2>4. child /\ description' \in BOOLEAN
    BY <1>4, <2>1 DEF IInv, OnceQueued, TypeOK
  <2>5. TypeOK'
    <3>1. outcome' \in [Calls -> Outcomes] /\ {c \in Calls : outcome'[c] = "pending"} = ToSet(pending') \ {Describe}
      BY <1>4, <2>2 DEF IInv, TypeOK, Outcomes
    <3>2. Len(pending') <= MaxPendingCalls
      BY <2>1, <2>2, EngineProcessAssumption
    <3> QED
      BY <1>1, <1>2, <1>4, <2>2, <2>3, <2>4, <3>1, <3>2 DEF IInv, TypeOK, writeVars
  <2>6. OnceQueued'
    BY <1>1, <1>4, <2>2, <2>4 DEF IInv, OnceQueued, Handed, writeVars
  <2>7. AnswersAreTrue'
    BY <1>1, <1>2, <1>4 DEF IInv, AnswersAreTrue
  <2>8. RefusedIsUnsent' /\ IndeterminateMutates'
    BY <1>1, <1>4 DEF IInv, RefusedIsUnsent, IndeterminateMutates, Handed, writeVars
  <2> QED
    BY <2>5, <2>6, <2>7, <2>8 DEF IInv
<1> QED
  BY <1>3, <1>4 DEF ConsumeResponse, r

(* The events that only concern the life of the process.                   *)
LEMMA LifeKeeps ==
  ASSUME IInv, UNCHANGED <<callVars, writeVars, stdin, mode, child, description, running, executed, stdout>>,
         {failure, closed, heartbeat, killed, alive}' \subseteq BOOLEAN
  PROVE  IInv'
BY DEF IInv, TypeOK, OnceQueued, AnswersAreTrue, RefusedIsUnsent, IndeterminateMutates, Handed, callVars, writeVars

(* The engine executes the next request.                                   *)
LEMMA ExecuteKeeps ==
  ASSUME IInv, Execute
  PROVE  IInv'
<1> DEFINE r == Head(stdin)
<1>1. /\ stdin \in Seq(Requests) /\ stdin # <<>> /\ stdin' = Tail(stdin) /\ executed' = executed \cup {r} /\ running' = r
      /\ UNCHANGED <<callVars, writeVars, lifeVars, alive, stdout>> /\ IsInjective(stdin)
  BY DEF Execute, IInv, TypeOK, OnceQueued
<1>2. /\ r \in Requests /\ stdin' \in Seq(Requests) /\ ToSet(stdin) = {r} \cup ToSet(stdin') /\ IsInjective(stdin')
      /\ r \notin ToSet(stdin')
  BY <1>1, Taken
<1> HIDE DEF r
<1>3. Handed' = Handed
  BY <1>1, <1>2 DEF Handed
<1>4. TypeOK'
  BY <1>1, <1>2 DEF IInv, TypeOK, callVars, writeVars, lifeVars
<1>5. OnceQueued'
  BY <1>1, <1>2, <1>3 DEF IInv, OnceQueued, callVars, writeVars, lifeVars
<1>6. AnswersAreTrue' /\ RefusedIsUnsent' /\ IndeterminateMutates'
  BY <1>1, <1>3 DEF IInv, AnswersAreTrue, RefusedIsUnsent, IndeterminateMutates, callVars, writeVars
<1> QED
  BY <1>4, <1>5, <1>6 DEF IInv

(* The engine writes an answer.                                            *)
LEMMA RespondKeeps ==
  ASSUME IInv, Respond
  PROVE  IInv'
<1>1. /\ stdout \in Seq(Requests) /\ running \in Requests /\ running \in executed
      /\ stdout' = Append(stdout, running) /\ running' = None
      /\ UNCHANGED <<callVars, writeVars, lifeVars, alive, executed, stdin>>
  BY DEF Respond, IInv, TypeOK, AnswersAreTrue
<1>2. stdout' \in Seq(Requests) /\ ToSet(stdout') = ToSet(stdout) \cup {running}
  BY <1>1, Appended
<1> QED
  BY <1>1, <1>2 DEF IInv, TypeOK, OnceQueued, AnswersAreTrue, RefusedIsUnsent, IndeterminateMutates, Handed,
                    callVars, writeVars, lifeVars

-----------------------------------------------------------------------------
(* What one event does, whichever it is.                                   *)
LEMMA StepKeeps ==
  ASSUME IInv, [Next]_vars
  PROVE  IInv'
<1>1. ASSUME NEW c \in Calls, Call(c) PROVE IInv'
  BY <1>1, CallKeeps
<1>2. ASSUME NEW c \in Calls, Dispatch(c) PROVE IInv'
  BY <1>2, DispatchKeeps
<1>3. ASSUME NEW c \in Calls, InitializeRejected(c) PROVE IInv'
  BY <1>3 DEF InitializeRejected, IInv, TypeOK, OnceQueued, AnswersAreTrue, RefusedIsUnsent, IndeterminateMutates,
              Handed, Outcomes, writeVars, lifeVars, engineVars
<1>4. CASE WriteDone
  BY <1>4, WriteDoneKeeps
<1>5. CASE ConsumeResponse
  BY <1>5, ConsumeKeeps
<1>6. CASE Beat
  BY <1>6, LifeKeeps DEF Beat, IInv, TypeOK, engineVars
<1>7. CASE (\E r \in Requests : TimedOut(r)) \/ FallsSilent \/ ExitSeen \/ WriteFails \/ ResponseTooLarge
  <2>1. Fail /\ UNCHANGED engineVars
    BY <1>7 DEF TimedOut, FallsSilent, ExitSeen, WriteFails, ResponseTooLarge
  <2> QED
    BY <2>1, FailKeeps DEF engineVars, IInv, TypeOK
<1>8. CASE Close
  <2>1. /\ UNCHANGED <<mode, child, description, failure, heartbeat, killed, writing, engineVars, stdin>>
        /\ closed' = TRUE
    BY <1>8 DEF Close
  <2>2. CASE failure
    BY <1>8, <2>1, <2>2, LifeKeeps DEF Close, callVars, writeVars, engineVars, IInv, TypeOK
  <2>3. CASE ~failure
    BY <1>8, <2>1, <2>3, RejectKeeps DEF Close, engineVars, IInv, TypeOK
  <2> QED
    BY <2>2, <2>3
<1>9. CASE ForceKill
  BY <1>9, LifeKeeps DEF ForceKill, IInv, TypeOK, engineVars
<1>10. CASE Execute
  BY <1>10, ExecuteKeeps
<1>11. CASE Respond
  BY <1>11, RespondKeeps
<1>12. CASE Dies
  BY <1>12, LifeKeeps DEF Dies, IInv, TypeOK, lifeVars
<1>13. CASE Killed \/ EndOfInput
  BY <1>12, <1>13 DEF Killed, EndOfInput
<1>14. CASE UNCHANGED vars
  BY <1>14, LifeKeeps DEF vars, callVars, writeVars, lifeVars, engineVars, IInv, TypeOK
<1> QED
  BY <1>1, <1>2, <1>3, <1>4, <1>5, <1>6, <1>7, <1>8, <1>9, <1>10, <1>11, <1>12, <1>13, <1>14 DEF Next

(* The invariant holds before the first call.                              *)
LEMMA InitHolds == Init => IInv
<1> SUFFICES ASSUME Init PROVE IInv
  OBVIOUS
<1>1. /\ ToSet(pending) = {} /\ ToSet(writeQueue) = {} /\ ToSet(stdin) = {} /\ ToSet(stdout) = {}
      /\ IsInjective(pending) /\ IsInjective(writeQueue) /\ IsInjective(stdin)
  BY EmptyQueue DEF Init
<1>2. TypeOK
  <2>1. outcome \in [Calls -> Outcomes] /\ {c \in Calls : outcome[c] = "pending"} = {}
    BY DEF Init, Outcomes
  <2>2. {child, description, failure, closed, heartbeat, killed, alive} \subseteq BOOLEAN
    BY DEF Init
  <2>3. /\ pending \in Seq(Requests) /\ writeQueue \in Seq(Requests) /\ stdin \in Seq(Requests) /\ stdout \in Seq(Requests)
    BY DEF Init
  <2>4. pending = <<>> /\ Len(pending) <= MaxPendingCalls
    BY EngineProcessAssumption DEF Init
  <2> QED
    BY <1>1, <2>1, <2>2, <2>3, <2>4 DEF Init, TypeOK
<1> QED
  BY <1>1, <1>2 DEF Init, IInv, OnceQueued, AnswersAreTrue, RefusedIsUnsent, IndeterminateMutates, Handed

(* So it holds throughout.                                                 *)
LEMMA Invariance == Spec => []IInv
BY InitHolds, StepKeeps, PTL DEF Spec

(* The process, its queues and its pipes have their types at all times, no *)
(* more calls are pending than are allowed, and the queue of pending       *)
(* requests is what the callers wait for.                                  *)
THEOREM TypeInvariant == Spec => []TypeOK
<1>1. IInv => TypeOK
  BY DEF IInv
<1> QED
  BY <1>1, Invariance, PTL

-----------------------------------------------------------------------------
(* Refinement.                                                             *)

(* The state of an abstract call, by the outcome of its call.              *)
LEMMA ToldIs ==
  /\ Told = [c \in Calls |-> Told[c]]
  /\ \A c \in Calls : Told[c] = IF outcome[c] \in {"waiting", "pending"} THEN "asked" ELSE outcome[c]
BY DEF Told

(* What ends calls is a settlement: the invariant says it is truthful.     *)
LEMMA Settles ==
  ASSUME IInv, IInv', executed' = executed,
         \A c \in Calls : \/ outcome'[c] = outcome[c]
                          \/ outcome[c] = "waiting" /\ outcome'[c] = "pending"
                          \/ /\ outcome[c] \in {"idle", "waiting", "pending"}
                             /\ outcome'[c] \in {"answered", "refused", "indeterminate"}
  PROVE  Remote!Settle
<1>1. \A c \in Calls : outcome'[c] \in Outcomes
  BY DEF IInv, TypeOK
<1>2. ASSUME NEW c \in Calls
      PROVE  Told'[c] = IF outcome'[c] \in {"waiting", "pending"} THEN "asked" ELSE outcome'[c]
  BY DEF Told
<1>3. Told' \in [Calls -> {"idle", "asked"} \cup Remote!Final]
  <2>1. Told' = [c \in Calls |-> Told'[c]]
    BY DEF Told
  <2>2. \A c \in Calls : Told'[c] \in {"idle", "asked"} \cup Remote!Final
    BY <1>1, <1>2 DEF Outcomes, Remote!Final
  <2> QED
    BY <2>1, <2>2
<1>4. ASSUME NEW c \in Calls
      PROVE  \/ Told'[c] = Told[c]
             \/ /\ Told[c] \in {"idle", "asked"} /\ Told'[c] \in Remote!Final
                /\ Remote!Truthful(c, Told'[c])
  <2>1. /\ outcome'[c] = "answered" => c \in executed \ {Describe}
        /\ outcome'[c] = "refused" /\ c \in Mutating => c \notin executed
        /\ outcome'[c] = "indeterminate" => c \in Mutating
    BY EngineProcessAssumption DEF IInv, AnswersAreTrue, RefusedIsUnsent, IndeterminateMutates, Handed
  <2> QED
    BY <1>1, <1>2, <2>1, ToldIs DEF Remote!Final, Remote!Truthful, Outcomes
<1> QED
  BY <1>3, <1>4 DEF Remote!Settle

(* The process implements what it promises to its callers: whatever fails, *)
(* times out or is closed, a call is executed at most once, only what was  *)
(* executed is answered, and a mutation that was refused never runs.       *)
THEOREM ImplementsCalls == Spec => ImplementsRemoteCalls
<1>1. Init => Remote!RInit
  BY DEF Init, Remote!RInit, Told
<1>2. IInv /\ IInv' /\ [Next]_vars => [Remote!RNext]_(Remote!rvars)
  <2> SUFFICES ASSUME IInv, IInv', [Next]_vars
               PROVE  Remote!RNext \/ UNCHANGED <<executed \ {Describe}, Told>>
    BY DEF Remote!rvars
  <2>1. ASSUME executed' = executed, outcome' = outcome
        PROVE  UNCHANGED <<executed \ {Describe}, Told>>
    BY <2>1 DEF Told
  <2>2. ASSUME NEW c \in Calls, Call(c)
        PROVE  Remote!Ask(c) \/ Remote!Settle
    <3>1. executed' = executed /\ outcome[c] = "idle"
      BY <2>2 DEF Call, engineVars
    <3>2. CASE outcome' = [outcome EXCEPT ![c] = "waiting"]
      BY <3>1, <3>2 DEF Remote!Ask, Told, IInv, TypeOK
    <3>3. CASE outcome' = [outcome EXCEPT ![c] = "refused"]
      BY <3>1, <3>3, Settles DEF IInv, TypeOK
    <3> QED
      BY <2>2, <3>2, <3>3 DEF Call
  <2>3. ASSUME NEW c \in Calls, Dispatch(c) \/ InitializeRejected(c)
        PROVE  Remote!Settle
    <3>1. /\ executed' = executed /\ outcome[c] = "waiting"
          /\ \/ outcome' = [outcome EXCEPT ![c] = "pending"]
             \/ outcome' = [outcome EXCEPT ![c] = "refused"]
      BY <2>3 DEF Dispatch, InitializeRejected, engineVars
    <3> QED
      BY <3>1, Settles DEF IInv, TypeOK
  <2>4. ASSUME RejectPending, executed' = executed PROVE Remote!Settle
    <3>1. \A c \in Calls : outcome'[c] = IF outcome[c] = "pending" THEN Lost(c) ELSE outcome[c]
      BY <2>4 DEF RejectPending
    <3> QED
      BY <2>4, <3>1, Settles DEF Lost
  <2>5. CASE ConsumeResponse
    <3>1. executed' = executed
      BY <2>5 DEF ConsumeResponse
    <3>2. CASE Fail
      BY <2>4, <3>1, <3>2 DEF Fail, Remote!RNext
    <3>3. ASSUME NEW i \in DOMAIN pending, pending[i] = Head(stdout),
                 outcome' = [c \in Calls |-> IF c = Head(stdout) THEN "answered" ELSE outcome[c]]
          PROVE  Remote!Settle
      <4> DEFINE r == Head(stdout)
      <4>1. r \in ToSet(pending)
        BY <3>3 DEF ToSet
      <4>2. r \in Calls => outcome[r] = "pending"
        BY <4>1, EngineProcessAssumption DEF IInv, TypeOK
      <4>3. \A c \in Calls : outcome'[c] = IF c = r THEN "answered" ELSE outcome[c]
        BY <3>3
      <4> QED
        BY <3>1, <4>2, <4>3, Settles
    <3> QED
      BY <2>5, <3>2, <3>3 DEF ConsumeResponse, Remote!RNext
  <2>6. CASE (\E r \in Requests : TimedOut(r)) \/ FallsSilent \/ ExitSeen \/ WriteFails \/ ResponseTooLarge
    <3>1. RejectPending /\ executed' = executed
      BY <2>6 DEF TimedOut, FallsSilent, ExitSeen, WriteFails, ResponseTooLarge, Fail, engineVars
    <3> QED
      BY <2>4, <3>1 DEF Remote!RNext
  <2>7. CASE Close
    <3>1. executed' = executed /\ (outcome' = outcome \/ RejectPending)
      BY <2>7 DEF Close, callVars, engineVars
    <3> QED
      BY <2>1, <2>4, <3>1 DEF Remote!RNext
  <2>8. CASE Execute
    <3> DEFINE r == Head(stdin)
    <3>1. r \in ToSet(stdin) /\ r \in Requests /\ executed' = executed \cup {r} /\ outcome' = outcome
      BY <2>8, Taken DEF Execute, IInv, TypeOK, callVars
    <3> HIDE DEF r
    <3>2. r \notin executed /\ r \in Handed
      BY <3>1 DEF IInv, OnceQueued, Handed
    <3>3. CASE r = Describe
      BY <3>1, <3>3 DEF Told
    <3>4. CASE r \in Calls
      <4>1. outcome[r] \notin {"idle", "waiting"} /\ ~(outcome[r] = "refused" /\ r \in Mutating)
        BY <3>2, <3>4 DEF IInv, RefusedIsUnsent
      <4>2. Remote!Execute(r)
        BY <3>1, <3>2, <3>4, <4>1, EngineProcessAssumption DEF Remote!Execute, Told
      <4> QED
        BY <3>4, <4>2 DEF Remote!RNext
    <3> QED
      BY <3>1, <3>3, <3>4 DEF Requests
  <2>9. CASE WriteDone \/ Beat \/ ForceKill \/ Respond \/ Dies \/ Killed \/ EndOfInput \/ UNCHANGED vars
    <3>1. executed' = executed /\ outcome' = outcome
      BY <2>9 DEF WriteDone, Beat, ForceKill, Respond, Dies, Killed, EndOfInput, vars, callVars, engineVars
    <3> QED
      BY <2>1, <3>1
  <2> QED
    BY <2>2, <2>3, <2>5, <2>6, <2>7, <2>8, <2>9 DEF Next, Remote!RNext
<1> QED
  BY <1>1, <1>2, Invariance, PTL DEF Spec, ImplementsRemoteCalls, Remote!RSpec

-----------------------------------------------------------------------------
(***************************************************************************)
(* The revisions an engine keeps.                                          *)
(***************************************************************************)
(* What is said of a revision from what is said of the one before it.      *)

Closed(S, stop) == \A r \in S \ stop : Previous[r] \in S

Follows(h, S, stop, base, g) ==
  \A r \in S : h[r] = IF r \in stop THEN base[r] ELSE g[<<r, h[Previous[r]]>>]

(* What is said so is said once: two such functions agree where both are.  *)
LEMMA FollowedOnce ==
  ASSUME NEW S \in SUBSET Revisions, NEW Z \in SUBSET Revisions, NEW stop, NEW base, NEW g,
         Closed(S, stop), Closed(Z, stop),
         NEW h, Follows(h, S, stop, base, g), NEW k, Follows(k, Z, stop, base, g)
  PROVE  \A r \in S \cap Z : h[r] = k[r]
<1> DEFINE T == {r \in S \cap Z : h[r] # k[r]}
<1>1. ASSUME NEW r \in T, Previous[r] \notin T PROVE FALSE
  <2>1. CASE r \in stop
    BY <1>1, <2>1 DEF Follows
  <2>2. CASE r \notin stop
    <3>1. Previous[r] \in S \cap Z
      BY <2>2 DEF Closed
    <3>2. h[Previous[r]] = k[Previous[r]]
      BY <1>1, <3>1
    <3>3. h[r] = g[<<r, h[Previous[r]]>>] /\ k[r] = g[<<r, k[Previous[r]]>>]
      BY <2>2 DEF Follows
    <3> QED
      BY <3>2, <3>3
  <2> QED
    BY <2>1, <2>2
<1>2. T \in SUBSET Revisions
  OBVIOUS
<1> HIDE DEF T
<1>3. T = {}
  BY <1>1, <1>2, AncestryAssumption
<1> QED
  BY <1>3 DEF T

(* And it is said of all of D, by the least revision it were not said of.  *)
LEMMA FollowedThrough ==
  ASSUME NEW D \in SUBSET Revisions, NEW stop, Closed(D, stop),
         NEW V, NEW base \in [D -> V], NEW g \in [D \X V -> V]
  PROVE  \E f \in [D -> V] : Follows(f, D, stop, base, g)
<1> DEFINE Part(S, h) == S \in SUBSET D /\ Closed(S, stop) /\ h \in [S -> V] /\ Follows(h, S, stop, base, g)
           Reached(r) == \E S, h : r \in S /\ Part(S, h)
           T == {r \in D : ~Reached(r)}
<1>1. ASSUME NEW r \in T, Previous[r] \notin T PROVE FALSE
  <2>1. CASE r \in stop
    <3> DEFINE h == [x \in {r} |-> base[x]]
    <3>1. Part({r}, h)
      BY <2>1 DEF Closed, Follows
    <3> HIDE DEF Part
    <3> QED
      BY <3>1
  <2>2. CASE r \notin stop
    <3>1. Previous[r] \in D
      BY <2>2 DEF Closed
    <3>2. PICK S, h : Previous[r] \in S /\ Part(S, h)
      BY <1>1, <3>1
    <3>3. r \notin S
      BY <3>2
    <3> DEFINE R == S \cup {r}
               k == [x \in R |-> IF x = r THEN g[<<r, h[Previous[r]]>>] ELSE h[x]]
    <3>4. k \in [R -> V]
      BY <3>2
    <3>5. Closed(R, stop)
      BY <3>2 DEF Closed
    <3>6. Follows(k, R, stop, base, g)
      <4> SUFFICES ASSUME NEW x \in R
                   PROVE  k[x] = IF x \in stop THEN base[x] ELSE g[<<x, k[Previous[x]]>>]
        BY Zenon DEF Follows
      <4>1. CASE x = r
        BY <2>2, <3>2, <3>3, <4>1
      <4>2. CASE x # r
        <5>1. x \in S /\ k[x] = h[x] /\ h[x] = IF x \in stop THEN base[x] ELSE g[<<x, h[Previous[x]]>>]
          BY <3>2, <4>2 DEF Follows
        <5>2. x \notin stop => Previous[x] \in S /\ Previous[x] # r
          BY <3>2, <3>3, <5>1 DEF Closed
        <5>3. x \notin stop => k[Previous[x]] = h[Previous[x]]
          BY <5>2
        <5> QED
          BY <5>1, <5>3
      <4> QED
        BY <4>1, <4>2
    <3>7. Part(R, k) /\ r \in R
      BY <3>2, <3>4, <3>5, <3>6
    <3> HIDE DEF Part
    <3> QED
      BY <3>7
  <2> QED
    BY <2>1, <2>2
<1>2. T \in SUBSET Revisions
  OBVIOUS
<1> HIDE DEF T
<1>3. T = {}
  BY <1>1, <1>2, AncestryAssumption
<1>4. \A r \in D : Reached(r)
  BY <1>3 DEF T
<1> DEFINE val(r) == CHOOSE v : \E S, h : r \in S /\ Part(S, h) /\ v = h[r]
           f == [r \in D |-> val(r)]
<1>5. \A r \in D : \E S, h : r \in S /\ Part(S, h) /\ val(r) = h[r]
  <2> TAKE r \in D
  <2>1. \E v : \E S, h : r \in S /\ Part(S, h) /\ v = h[r]
    <3> HIDE DEF Part
    <3> QED
      BY <1>4
  <2> HIDE DEF Part
  <2> QED
    BY <2>1
<1>6. \A r \in D : \A S, h : r \in S /\ Part(S, h) => val(r) = h[r]
  <2> TAKE r \in D
  <2> TAKE S, h
  <2> HAVE r \in S /\ Part(S, h)
  <2>1. PICK Z, k : r \in Z /\ Part(Z, k) /\ val(r) = k[r]
    BY <1>5
  <2>2. h[r] = k[r]
    BY <2>1, FollowedOnce
  <2> QED
    BY <2>1, <2>2
<1> HIDE DEF val
<1>7. f \in [D -> V]
  <2>1. ASSUME NEW r \in D PROVE val(r) \in V
    <3>1. PICK S, h : r \in S /\ Part(S, h) /\ val(r) = h[r]
      BY <1>5
    <3> QED
      BY <3>1
  <2> QED
    BY <2>1
<1>8. Follows(f, D, stop, base, g)
  <2> SUFFICES ASSUME NEW r \in D
               PROVE  f[r] = IF r \in stop THEN base[r] ELSE g[<<r, f[Previous[r]]>>]
    BY Zenon DEF Follows
  <2>1. PICK S, h : r \in S /\ Part(S, h)
    BY <1>4
  <2>2. f[r] = h[r] /\ h[r] = IF r \in stop THEN base[r] ELSE g[<<r, h[Previous[r]]>>]
    BY <1>6, <2>1 DEF Follows
  <2>3. r \notin stop => f[Previous[r]] = h[Previous[r]]
    <3> HAVE r \notin stop
    <3>1. Previous[r] \in S /\ Previous[r] \in D
      BY <2>1 DEF Closed
    <3>2. val(Previous[r]) = h[Previous[r]]
      BY <1>6, <2>1, <3>1, Zenon
    <3> QED
      BY <3>1, <3>2
  <2> QED
    BY <2>2, <2>3
<1> QED
  BY <1>7, <1>8

(* The revisions a revision is made from, itself included.                 *)
LEMMA AncestryIs ==
  /\ Ancestry \in [Revisions -> SUBSET Revisions]
  /\ \A r \in Revisions : Ancestry[r] = {r} \cup IF Previous[r] = Nothing THEN {} ELSE Ancestry[Previous[r]]
<1> DEFINE D == Revisions
           V == SUBSET Revisions
           stop == {r \in Revisions : Previous[r] = Nothing}
           base == [r \in D |-> {r}]
           g == [p \in D \X V |-> {p[1]} \cup p[2]]
           Is(a) == a = [r \in Revisions |-> {r} \cup IF Previous[r] = Nothing THEN {} ELSE a[Previous[r]]]
<1>1. Closed(D, stop) /\ base \in [D -> V] /\ g \in [D \X V -> V]
  BY StoreAssumption DEF Closed
<1>2. PICK f \in [D -> V] : Follows(f, D, stop, base, g)
  <2> HIDE DEF D, V, stop, base, g
  <2> D \in SUBSET Revisions
    BY DEF D
  <2> QED
    BY <1>1, FollowedThrough
<1>3. Is(f)
  <2>1. ASSUME NEW r \in Revisions PROVE f[r] = {r} \cup IF Previous[r] = Nothing THEN {} ELSE f[Previous[r]]
    <3>1. Previous[r] # Nothing => Previous[r] \in D
      BY <1>1 DEF Closed
    <3> QED
      BY <1>2, <3>1 DEF Follows
  <2> QED
    BY <1>2, <2>1
<1>4. Is(Ancestry)
  <2>1. \E a : Is(a)
    BY <1>3
  <2>2. Ancestry = CHOOSE a : Is(a)
    BY Zenon DEF Ancestry
  <2> HIDE DEF Is
  <2> QED
    BY <2>1, <2>2
<1>5. \A r \in Revisions : Ancestry[r] \in SUBSET Revisions
  <2> DEFINE T == {r \in Revisions : ~(Ancestry[r] \in SUBSET Revisions)}
  <2>1. ASSUME NEW r \in T, Previous[r] \notin T PROVE FALSE
    <3>1. Previous[r] # Nothing => Previous[r] \in Revisions
      BY StoreAssumption
    <3>2. Ancestry[r] = {r} \cup IF Previous[r] = Nothing THEN {} ELSE Ancestry[Previous[r]]
      BY <1>4
    <3> QED
      BY <2>1, <3>1, <3>2
  <2>2. T \in SUBSET Revisions
    OBVIOUS
  <2> HIDE DEF T
  <2>3. T = {}
    BY <2>1, <2>2, AncestryAssumption
  <2> QED
    BY <2>3 DEF T
<1> QED
  BY <1>4, <1>5

(* The ancestry of a revision is the revision and the ancestry of the one  *)
(* before it.                                                              *)
LEMMA AncestryFacts ==
  ASSUME NEW r \in Revisions
  PROVE  /\ Ancestry[r] \subseteq Revisions /\ r \in Ancestry[r]
         /\ Previous[r] = Nothing => Ancestry[r] = {r}
         /\ Previous[r] # Nothing => /\ Previous[r] \in Revisions /\ Previous[r] \in Ancestry[r]
                                     /\ Ancestry[r] = {r} \cup Ancestry[Previous[r]]
<1>1. Previous[r] # Nothing => Previous[r] \in Revisions
  BY StoreAssumption
<1> QED
  BY <1>1, AncestryIs

(* An ancestry reaches to the first revision of its line.                  *)
LEMMA AncestryGoesDown ==
  ASSUME NEW r \in Revisions, NEW a \in Ancestry[r]
  PROVE  Previous[a] # Nothing => Previous[a] \in Ancestry[r]
<1> DEFINE T == {x \in Revisions : \E y \in Ancestry[x] : Previous[y] # Nothing /\ Previous[y] \notin Ancestry[x]}
<1>1. ASSUME NEW x \in T, Previous[x] \notin T PROVE FALSE
  <2>1. PICK y \in Ancestry[x] : Previous[y] # Nothing /\ Previous[y] \notin Ancestry[x]
    OBVIOUS
  <2>2. y # x
    BY <2>1, AncestryFacts
  <2>3. Previous[x] # Nothing /\ y \in Ancestry[Previous[x]] /\ Previous[x] \in Revisions
    BY <2>1, <2>2, AncestryFacts
  <2>4. Previous[y] \in Ancestry[Previous[x]]
    BY <1>1, <2>1, <2>3
  <2> QED
    BY <2>1, <2>3, <2>4, AncestryFacts
<1>2. T \in SUBSET Revisions
  OBVIOUS
<1> HIDE DEF T
<1>3. T = {}
  BY <1>1, <1>2, AncestryAssumption
<1> QED
  BY <1>3 DEF T

(* The rows that are needed are below, down to where the rest is ready.    *)
LEMMA NeededIs ==
  ASSUME NEW form, NEW ready, NEW r \in Revisions
  PROVE  /\ r \in Needed(form, ready, r)
         /\ \A K \in SUBSET Revisions :
              Closed(K, {x \in Revisions : Previous[x] = Nothing}) /\ r \in K => Needed(form, ready, r) \subseteq K
<1> DEFINE D == Revisions
           V == SUBSET Revisions
           Stops(a) == Previous[a] = Nothing \/ (a \in Models /\ form[a] = "whole") \/ Previous[a] \in ready
           stop == {a \in Revisions : Stops(a)}
           base == [a \in D |-> {a}]
           g == [p \in D \X V |-> {p[1]} \cup p[2]]
           Is(f) == f = [a \in Revisions |->
                           {a} \cup IF Previous[a] = Nothing \/ (a \in Models /\ form[a] = "whole") \/ Previous[a] \in ready
                                    THEN {} ELSE f[Previous[a]]]
<1>1. Closed(D, stop) /\ base \in [D -> V] /\ g \in [D \X V -> V]
  BY StoreAssumption DEF Closed
<1>2. PICK f \in [D -> V] : Follows(f, D, stop, base, g)
  <2> HIDE DEF D, V, stop, base, g
  <2> D \in SUBSET Revisions
    BY DEF D
  <2> QED
    BY <1>1, FollowedThrough
<1>3. Is(f)
  <2>1. ASSUME NEW a \in Revisions PROVE f[a] = {a} \cup IF Stops(a) THEN {} ELSE f[Previous[a]]
    <3>1. ~Stops(a) => Previous[a] \in D
      BY <1>1 DEF Closed
    <3> QED
      BY <1>2, <3>1 DEF Follows
  <2> QED
    BY <1>2, <2>1
<1>4. PICK h : Needed(form, ready, r) = h[r] /\ Is(h)
  <2>1. \E a : Is(a)
    BY <1>3
  <2>2. Needed(form, ready, r) = (CHOOSE a : Is(a))[r]
    BY Zenon DEF Needed
  <2> HIDE DEF Is
  <2>3. Is(CHOOSE a : Is(a))
    BY <2>1
  <2> QED
    BY <2>2, <2>3
<1>5. \A a \in Revisions : h[a] = {a} \cup IF Stops(a) THEN {} ELSE h[Previous[a]]
  BY <1>4
<1> HIDE DEF Is, Stops
<1>6. ASSUME NEW K \in SUBSET Revisions, Closed(K, {x \in Revisions : Previous[x] = Nothing}), r \in K
      PROVE  h[r] \subseteq K
  <2> DEFINE T == {a \in K : ~(h[a] \subseteq K)}
  <2>1. ASSUME NEW a \in T, Previous[a] \notin T PROVE FALSE
    <3>1. ~Stops(a) => Previous[a] \in K
      BY <1>6 DEF Closed, Stops
    <3> QED
      BY <1>5, <2>1, <3>1
  <2>2. T \in SUBSET Revisions
    OBVIOUS
  <2> HIDE DEF T
  <2>3. T = {}
    BY <2>1, <2>2, AncestryAssumption
  <2> QED
    BY <1>6, <2>3 DEF T
<1> QED
  BY <1>4, <1>5, <1>6

-----------------------------------------------------------------------------
(* Seals that stand for the rows of a file, and files and sessions made of *)
(* such seals.                                                             *)

Fits(seal, r, f) ==
  /\ f.version = 3
  /\ seal \in [Ancestry[r] -> Rows]
  /\ \A a \in Ancestry[r] :
       /\ a \in DOMAIN f.rows
       /\ seal[a].form = KeptForm(a) /\ seal[a].text # "wrong"
       /\ seal[a].text = "respelled" => f.rows[a].text # "right"

FileFits(f) ==
  /\ f = [version |-> f.version, generation |-> f.generation, rows |-> f.rows, seals |-> f.seals]
  /\ f.version \in {0, 2, 3} /\ f.generation \in Nat
  /\ DOMAIN f.rows \subseteq Revisions
  /\ f.version = 0 => DOMAIN f.rows = {}
  /\ \A r \in DOMAIN f.rows :
       /\ f.rows[r] \in Rows
       /\ Previous[r] # Nothing => Previous[r] \in DOMAIN f.rows
       /\ f.version = 3 \/ r \in Graphs => f.rows[r].form = KeptForm(r)
  /\ \A r \in DOMAIN f.seals : r \in DOMAIN f.rows /\ Fits(f.seals[r], r, f)

(* What a session knows it holds, or can read under a seal that fits; what *)
(* it has not written is not in the file it may still write.               *)
SessionFits(z, f) ==
  /\ z = [known |-> z.known, held |-> z.held, reader |-> z.reader, dirty |-> z.dirty, writing |-> z.writing,
          sealing |-> z.sealing, generation |-> z.generation, ready |-> z.ready]
  /\ DOMAIN z.known \subseteq Revisions
  /\ \A r \in DOMAIN z.known :
       /\ z.known[r] = [form |-> KeptForm(r), seal |-> z.known[r].seal]
       /\ Previous[r] # Nothing => Previous[r] \in DOMAIN z.known
       /\ z.known[r].seal = Nothing \/ Fits(z.known[r].seal, r, f)
       /\ r \in DOMAIN z.held \/ (z.reader /\ z.known[r].seal # Nothing)
  /\ \A r \in DOMAIN z.held : r \in DOMAIN z.known /\ z.held[r] = Row(KeptForm(r))
  /\ z.dirty \subseteq DOMAIN z.held
  /\ z.reader => f.version = 3
  /\ \A r \in DOMAIN z.ready : z.ready[r]
  /\ \A r \in DOMAIN z.sealing : r \in DOMAIN f.rows /\ Fits(z.sealing[r], r, f)
  /\ z.generation \in Nat /\ z.generation <= f.generation
  /\ z.generation = f.generation =>
       DOMAIN z.known = DOMAIN f.rows \cup z.dirty /\ z.dirty \cap DOMAIN f.rows = {}

(* A file after others wrote to it, or something else changed it.          *)
Extends(f, e) ==
  /\ DOMAIN f.rows \subseteq DOMAIN e.rows
  /\ f.version = 3 => e.version = 3 /\ \A r \in DOMAIN f.rows : f.rows[r].text # "right" => e.rows[r].text # "right"
  /\ \/ f.generation = e.generation /\ DOMAIN f.rows = DOMAIN e.rows
     \/ f.generation < e.generation

(* What fits is a seal.                                                    *)
LEMMA FitsIsSeal ==
  ASSUME NEW r \in Revisions, NEW f, NEW seal, Fits(seal, r, f)
  PROVE  seal # Nothing
BY AncestryFacts, NothingAssumption DEF Fits

(* A seal fits a file that was written on, or damaged.                     *)
LEMMA FitsStill ==
  ASSUME NEW r \in Revisions, NEW seal, NEW f, NEW e, Fits(seal, r, f), Extends(f, e)
  PROVE  Fits(seal, r, e)
BY DEF Fits, Extends

(* So does a session, the one that wrote apart.                            *)
LEMMA SessionStill ==
  ASSUME NEW z, NEW f, NEW e, FileFits(f), FileFits(e), SessionFits(z, f), Extends(f, e)
  PROVE  SessionFits(z, e)
<1>1. \A r \in DOMAIN z.known : z.known[r].seal = Nothing \/ Fits(z.known[r].seal, r, e)
  BY FitsStill DEF SessionFits
<1>2. \A r \in DOMAIN z.sealing : r \in DOMAIN e.rows /\ Fits(z.sealing[r], r, e)
  BY FitsStill DEF SessionFits, FileFits, Extends
<1>3. z.reader => e.version = 3
  BY DEF SessionFits, Extends
<1>4. /\ z.generation \in Nat /\ z.generation <= e.generation
      /\ z.generation = e.generation =>
           DOMAIN z.known = DOMAIN e.rows \cup z.dirty /\ z.dirty \cap DOMAIN e.rows = {}
  <2>1. z.generation \in Nat /\ z.generation <= f.generation /\ f.generation \in Nat /\ e.generation \in Nat
    BY DEF SessionFits, FileFits
  <2>2. CASE f.generation = e.generation /\ DOMAIN f.rows = DOMAIN e.rows
    BY <2>1, <2>2 DEF SessionFits
  <2>3. CASE f.generation < e.generation
    BY <2>1, <2>3
  <2> QED
    BY <2>2, <2>3 DEF Extends
<1> HIDE DEF Fits
<1> QED
  BY <1>1, <1>2, <1>3, <1>4 DEF SessionFits

(* A seal upon a seal that fits, for a row that is not wrong, fits.        *)
LEMMA SealUpon ==
  ASSUME NEW f, FileFits(f), f.version = 3, NEW r \in DOMAIN f.rows,
         NEW row \in Rows, row.form = KeptForm(r), row.text # "wrong",
         row.text = "respelled" => f.rows[r].text # "right",
         NEW parent, Previous[r] # Nothing => parent = Nothing \/ Fits(parent, Previous[r], f)
  PROVE  /\ Seal(r, row, parent) = Nothing \/ Fits(Seal(r, row, parent), r, f)
         /\ Previous[r] = Nothing \/ parent # Nothing => Fits(Seal(r, row, parent), r, f)
<1>1. r \in Revisions
  BY DEF FileFits
<1>2. CASE Previous[r] = Nothing
  <2>1. Seal(r, row, parent) = [x \in {r} |-> row] /\ Ancestry[r] = {r}
    BY <1>1, <1>2, AncestryFacts DEF Seal, Only
  <2> QED
    BY <2>1 DEF Fits
<1>3. CASE Previous[r] # Nothing /\ parent = Nothing
  BY <1>3 DEF Seal
<1>4. CASE Previous[r] # Nothing /\ parent # Nothing
  <2> DEFINE new == Over(Only(r, row), parent)
  <2>1. Seal(r, row, parent) = new /\ Fits(parent, Previous[r], f)
    BY <1>4 DEF Seal
  <2>2. Ancestry[r] = {r} \cup Ancestry[Previous[r]]
    BY <1>1, <1>4, AncestryFacts
  <2>3. DOMAIN parent = Ancestry[Previous[r]] /\ parent \in [Ancestry[Previous[r]] -> Rows]
    BY <2>1 DEF Fits
  <2>4. new = [x \in Ancestry[r] |-> IF x = r THEN row ELSE parent[x]]
    BY <2>2, <2>3 DEF Over, Only
  <2>5. new \in [Ancestry[r] -> Rows]
    BY <2>2, <2>3, <2>4
  <2>6. ASSUME NEW a \in Ancestry[r]
        PROVE  /\ a \in DOMAIN f.rows /\ new[a].form = KeptForm(a) /\ new[a].text # "wrong"
               /\ new[a].text = "respelled" => f.rows[a].text # "right"
    <3>1. CASE a = r
      BY <2>4, <3>1
    <3>2. CASE a # r
      <4>1. a \in Ancestry[Previous[r]] /\ new[a] = parent[a]
        BY <2>2, <2>4, <3>2
      <4> QED
        BY <2>1, <4>1 DEF Fits
    <3> QED
      BY <3>1, <3>2
  <2> HIDE DEF new
  <2>7. Fits(new, r, f)
    BY <2>5, <2>6 DEF Fits
  <2> QED
    BY <2>1, <2>7
<1> QED
  BY <1>2, <1>3, <1>4

SealValues == {Nothing} \cup UNION {[S -> Rows] : S \in SUBSET Revisions}

(* Seals are functions from revisions to rows, or none.                    *)
LEMMA SealIsValue ==
  ASSUME NEW r \in Revisions, NEW row \in Rows, NEW v \in SealValues
  PROVE  Seal(r, row, v) \in SealValues
<1>1. CASE Previous[r] = Nothing
  <2>1. Seal(r, row, v) \in [{r} -> Rows]
    BY <1>1 DEF Seal, Only
  <2> QED
    BY <2>1 DEF SealValues
<1>2. CASE Previous[r] # Nothing /\ v = Nothing
  BY <1>2 DEF Seal, SealValues
<1>3. CASE Previous[r] # Nothing /\ v # Nothing
  <2>1. PICK S \in SUBSET Revisions : v \in [S -> Rows]
    BY <1>3 DEF SealValues
  <2>2. Seal(r, row, v) \in [({r} \cup S) -> Rows]
    BY <1>3, <2>1 DEF Seal, Only, Over
  <2>3. {r} \cup S \in SUBSET Revisions
    OBVIOUS
  <2> QED
    BY <2>2, <2>3 DEF SealValues
<1> QED
  BY <1>1, <1>2, <1>3

(* A seal that fits is such a function.                                    *)
LEMMA FitsIsValue ==
  ASSUME NEW r \in Revisions, NEW f, NEW seal, Fits(seal, r, f)
  PROVE  seal \in SealValues
<1>1. Ancestry[r] \in SUBSET Revisions /\ seal \in [Ancestry[r] -> Rows]
  BY AncestryFacts DEF Fits
<1> QED
  BY <1>1 DEF SealValues

(* What is sealed when a file is validated fits it.                        *)
LEMMA SealsOfIs ==
  ASSUME NEW f, FileFits(f), f.version = 3, NEW trusted, trusted \subseteq DOMAIN f.seals
  PROVE  /\ DOMAIN SealsOf(f, trusted) = DOMAIN f.rows
         /\ \A r \in DOMAIN f.rows :
              SealsOf(f, trusted)[r] =
                IF r \in trusted THEN f.seals[r]
                ELSE Seal(r, f.rows[r], IF Previous[r] = Nothing THEN Nothing ELSE SealsOf(f, trusted)[Previous[r]])
<1> DEFINE D == DOMAIN f.rows
           V == SealValues
           stop == {r \in D : r \in trusted \/ Previous[r] = Nothing}
           base == [r \in D |-> IF r \in trusted THEN f.seals[r] ELSE Seal(r, f.rows[r], Nothing)]
           g == [p \in D \X V |-> Seal(p[1], f.rows[p[1]], p[2])]
           Is(h) == h = [r \in DOMAIN f.rows |->
                           IF r \in trusted THEN f.seals[r]
                           ELSE Seal(r, f.rows[r], IF Previous[r] = Nothing THEN Nothing ELSE h[Previous[r]])]
<1>1. D \in SUBSET Revisions /\ \A r \in D : f.rows[r] \in Rows /\ (Previous[r] # Nothing => Previous[r] \in D)
  BY DEF FileFits
<1>2. Nothing \in V
  BY DEF SealValues
<1>3. Closed(D, stop)
  BY <1>1 DEF Closed
<1>4. base \in [D -> V]
  <2>1. ASSUME NEW r \in D PROVE base[r] \in V
    <3>1. CASE r \in trusted
      BY <1>1, <3>1, FitsIsValue DEF FileFits
    <3>2. CASE r \notin trusted
      BY <1>1, <1>2, <3>2, SealIsValue
    <3> QED
      BY <3>1, <3>2
  <2> HIDE DEF V
  <2> QED
    BY <2>1
<1>5. g \in [D \X V -> V]
  <2>1. ASSUME NEW r \in D, NEW v \in V PROVE Seal(r, f.rows[r], v) \in V
    BY <1>1, SealIsValue
  <2> HIDE DEF V
  <2> QED
    BY <2>1
<1>6. PICK h \in [D -> V] : Follows(h, D, stop, base, g)
  <2> HIDE DEF D, V, stop, base, g
  <2> QED
    BY <1>1, <1>3, <1>4, <1>5, FollowedThrough
<1>7. Is(h)
  <2>1. ASSUME NEW r \in D
        PROVE  h[r] = IF r \in trusted THEN f.seals[r]
                      ELSE Seal(r, f.rows[r], IF Previous[r] = Nothing THEN Nothing ELSE h[Previous[r]])
    <3>1. CASE r \in stop
      <4>1. h[r] = base[r]
        BY <1>6, <3>1 DEF Follows
      <4> QED
        BY <3>1, <4>1
    <3>2. CASE r \notin stop
      <4>1. h[r] = g[<<r, h[Previous[r]]>>] /\ Previous[r] \in D
        BY <1>3, <1>6, <3>2 DEF Follows, Closed
      <4>2. h[Previous[r]] \in V
        BY <1>6, <4>1
      <4> HIDE DEF V
      <4> QED
        BY <3>2, <4>1, <4>2
    <3> QED
      BY <3>1, <3>2
  <2> HIDE DEF V
  <2> QED
    BY <1>6, <2>1
<1>8. Is(SealsOf(f, trusted))
  <2>1. \E a : Is(a)
    BY <1>7
  <2>2. SealsOf(f, trusted) = CHOOSE a : Is(a)
    BY Zenon DEF SealsOf
  <2> HIDE DEF Is
  <2>3. Is(CHOOSE a : Is(a))
    BY <2>1
  <2> QED
    BY <2>2, <2>3
<1> QED
  BY <1>8

(* What a validation finds is not wrong.                                   *)
LEMMA ValidatedIsGood ==
  ASSUME NEW f, FileFits(f), NEW trusted, Validated(f, trusted), NEW r \in DOMAIN f.rows \ trusted
  PROVE  f.rows[r].text # "wrong"
<1>1. r \in Revisions
  BY DEF FileFits
<1>2. r \in Needed(Forms(f), {}, r)
  BY <1>1, NeededIs
<1>3. Good(f, trusted, r)
  BY <1>2 DEF Validated, GoodFor
<1> QED
  BY <1>3 DEF Good

(* Validated rows and trusted seals give seals that fit.                   *)
LEMMA SealsOfFit ==
  ASSUME NEW f, FileFits(f), f.version = 3, NEW trusted, trusted \subseteq DOMAIN f.seals, Validated(f, trusted)
  PROVE  \A r \in DOMAIN f.rows : Fits(SealsOf(f, trusted)[r], r, f)
<1> DEFINE T == {r \in DOMAIN f.rows : ~Fits(SealsOf(f, trusted)[r], r, f)}
<1>1. ASSUME NEW r \in T, Previous[r] \notin T PROVE FALSE
  <2>1. CASE r \in trusted
    BY <2>1, SealsOfIs DEF FileFits
  <2>2. CASE r \notin trusted
    <3> DEFINE parent == IF Previous[r] = Nothing THEN Nothing ELSE SealsOf(f, trusted)[Previous[r]]
    <3>1. SealsOf(f, trusted)[r] = Seal(r, f.rows[r], parent)
      BY <2>2, SealsOfIs
    <3>2. r \in Revisions /\ f.rows[r] \in Rows /\ f.rows[r].form = KeptForm(r) /\ f.rows[r].text # "wrong"
      BY <2>2, ValidatedIsGood DEF FileFits
    <3>3. f.rows[r].text = "respelled" => f.rows[r].text # "right"
      OBVIOUS
    <3>4. Previous[r] # Nothing => Previous[r] \in Revisions /\ Fits(parent, Previous[r], f)
      BY <1>1 DEF FileFits
    <3>5. Previous[r] # Nothing => parent = Nothing \/ Fits(parent, Previous[r], f)
      BY <3>4
    <3>6. Previous[r] = Nothing \/ parent # Nothing
      BY <3>4, FitsIsSeal
    <3> HIDE DEF parent
    <3>7. Fits(Seal(r, f.rows[r], parent), r, f)
      BY <3>2, <3>3, <3>5, <3>6, SealUpon
    <3> QED
      BY <3>1, <3>7
  <2> QED
    BY <2>1, <2>2
<1>2. T \in SUBSET Revisions
  BY DEF FileFits
<1> HIDE DEF T
<1>3. T = {}
  BY <1>1, <1>2, AncestryAssumption
<1> QED
  BY <1>3 DEF T

(* A row that is trusted has a seal.                                       *)
LEMMA TrustedIsSealed ==
  ASSUME NEW f, FileFits(f)
  PROVE  Trusted(f) \subseteq DOMAIN f.seals
BY AncestryFacts DEF FileFits, Trusted, UsableSeal

(* A session that opens a file fits it.                                    *)
LEMMA OpenedFits ==
  ASSUME NEW f, FileFits(f), NEW trusted, trusted \subseteq DOMAIN f.seals, Opens(f, trusted)
  PROVE  /\ SessionFits(Opened(f, trusted), f)
         /\ f.version = 3 => \A r \in DOMAIN NewSeals(f, trusted) :
                                r \in DOMAIN f.rows /\ Fits(NewSeals(f, trusted)[r], r, f)
<1> DEFINE z == Opened(f, trusted)
<1>1. CASE f.version = 3
  <2>1. Validated(f, trusted)
    BY <1>1 DEF Opens, OpensIndexed
  <2>2. \A r \in DOMAIN f.rows : r \in Revisions /\ Fits(SealsOf(f, trusted)[r], r, f)
    BY <1>1, <2>1, SealsOfFit DEF FileFits
  <2>3. \A r \in DOMAIN f.rows : SealsOf(f, trusted)[r] # Nothing
    BY <2>2, FitsIsSeal
  <2>4. z = Indexed(f, trusted)
    BY <1>1 DEF Opened
  <2>5. /\ z = [known |-> z.known, held |-> z.held, reader |-> z.reader, dirty |-> z.dirty, writing |-> z.writing,
                sealing |-> z.sealing, generation |-> z.generation, ready |-> z.ready]
        /\ z.known = [r \in DOMAIN f.rows |-> [form |-> f.rows[r].form, seal |-> SealsOf(f, trusted)[r]]]
        /\ z.held = <<>> /\ z.reader = TRUE /\ z.dirty = {} /\ z.sealing = <<>>
        /\ z.generation = f.generation /\ \A r \in DOMAIN z.ready : z.ready[r]
    BY <2>4 DEF Indexed
  <2> HIDE DEF z
  <2>6. DOMAIN z.held = {} /\ DOMAIN z.sealing = {}
    BY <2>5
  <2>7. \A r \in DOMAIN f.rows : /\ f.rows[r].form = KeptForm(r)
                                 /\ Previous[r] # Nothing => Previous[r] \in DOMAIN f.rows
    BY <1>1 DEF FileFits
  <2>8. SessionFits(z, f)
    <3>1. DOMAIN z.known = DOMAIN f.rows /\ f.generation \in Nat
      BY <2>5 DEF FileFits
    <3>2. \A r \in DOMAIN z.known : z.known[r] = [form |-> KeptForm(r), seal |-> SealsOf(f, trusted)[r]]
      BY <2>5, <2>7
    <3> HIDE DEF Fits
    <3> QED
      BY <1>1, <2>2, <2>3, <2>5, <2>6, <2>7, <3>1, <3>2 DEF SessionFits
  <2>9. \A r \in DOMAIN NewSeals(f, trusted) : r \in DOMAIN f.rows /\ Fits(NewSeals(f, trusted)[r], r, f)
    BY <2>2 DEF NewSeals, Restrict
  <2> QED
    BY <2>8, <2>9 DEF z
<1>2. CASE f.version # 3
  <2>1. z = Whole(f)
    BY <1>2 DEF Opened
  <2>2. /\ z = [known |-> z.known, held |-> z.held, reader |-> z.reader, dirty |-> z.dirty, writing |-> z.writing,
                sealing |-> z.sealing, generation |-> z.generation, ready |-> z.ready]
        /\ z.known = [r \in DOMAIN f.rows |-> [form |-> KeptForm(r), seal |-> Nothing]]
        /\ z.held = [r \in DOMAIN f.rows |-> Row(KeptForm(r))]
        /\ z.reader = FALSE /\ z.dirty = {} /\ z.sealing = <<>>
        /\ z.generation = f.generation /\ \A r \in DOMAIN z.ready : z.ready[r]
    BY <2>1 DEF Whole
  <2> HIDE DEF z
  <2>3. DOMAIN z.sealing = {}
    BY <2>2
  <2>4. SessionFits(z, f)
    BY <2>2, <2>3 DEF SessionFits, FileFits
  <2> QED
    BY <1>2, <2>4 DEF z
<1> QED
  BY <1>1, <1>2

-----------------------------------------------------------------------------
(* Writing.                                                                *)

(* What is written is held, and in the form revisions are kept in.         *)
LEMMA PendingIsHeld ==
  ASSUME NEW s, FileFits(file), SessionFits(session[s], file)
  PROVE  \A r \in Pending(s) :
           /\ r \in Revisions /\ r \in DOMAIN session[s].known /\ r \in DOMAIN session[s].held
           /\ RowOf(s, r) = Row(KeptForm(r)) /\ RowOf(s, r) \in Rows /\ RowOf(s, r).form = KeptForm(r)
           /\ RowOf(s, r).text = "right"
<1> SUFFICES ASSUME NEW r \in Pending(s)
             PROVE  /\ r \in Revisions /\ r \in DOMAIN session[s].known /\ r \in DOMAIN session[s].held
                    /\ RowOf(s, r) = Row(KeptForm(r)) /\ RowOf(s, r) \in Rows /\ RowOf(s, r).form = KeptForm(r)
                    /\ RowOf(s, r).text = "right"
  OBVIOUS
<1>1. r \in DOMAIN session[s].held
  <2>1. CASE r \in Dirty(s)
    BY <2>1 DEF Dirty, SessionFits
  <2>2. CASE r \notin Dirty(s)
    <3>1. file.version = 2 /\ r \in DOMAIN session[s].known
      BY <2>2 DEF Pending
    <3>2. ~session[s].reader
      BY <3>1 DEF SessionFits
    <3> QED
      BY <3>1, <3>2 DEF SessionFits
  <2> QED
    BY <2>1, <2>2
<1>2. r \in Revisions /\ r \in DOMAIN session[s].known /\ session[s].held[r] = Row(KeptForm(r))
  BY <1>1 DEF SessionFits
<1>3. RowOf(s, r) = Row(KeptForm(r))
  BY <1>1, <1>2 DEF RowOf
<1> QED
  BY <1>1, <1>2, <1>3 DEF Row, Rows, KeptForm

(* The seals of a write.                                                   *)
LEMMA WrittenSealsAre ==
  ASSUME NEW s, FileFits(file), SessionFits(session[s], file), NEW early
  PROVE  \E h :
           /\ WrittenSeals(s, early) = Restrict(h, {r \in Pending(s) : h[r] # Nothing})
           /\ \A r \in Revisions :
                h[r] = IF r \in Pending(s)
                       THEN Seal(r, SealedRow(s, r), IF Previous[r] = Nothing \/ r \in early THEN Nothing ELSE h[Previous[r]])
                       ELSE IF r \in DOMAIN session[s].known THEN session[s].known[r].seal ELSE Nothing
<1> DEFINE D == Revisions
           V == SealValues
           seal0(r) == IF r \in DOMAIN session[s].known THEN session[s].known[r].seal ELSE Nothing
           stop == {r \in D : r \notin Pending(s) \/ Previous[r] = Nothing \/ r \in early}
           base == [r \in D |-> IF r \in Pending(s) THEN Seal(r, SealedRow(s, r), Nothing) ELSE seal0(r)]
           g == [p \in D \X V |-> IF p[1] \in Pending(s) THEN Seal(p[1], SealedRow(s, p[1]), p[2]) ELSE Nothing]
           Is(h) == h = [r \in Revisions |->
                IF r \in Pending(s)
                THEN Seal(r, SealedRow(s, r), IF Previous[r] = Nothing \/ r \in early THEN Nothing ELSE h[Previous[r]])
                ELSE IF r \in DOMAIN session[s].known THEN session[s].known[r].seal ELSE Nothing]
<1>1. \A r \in Pending(s) : r \in Revisions /\ SealedRow(s, r) \in Rows
  BY PendingIsHeld DEF SealedRow
<1>2. Nothing \in V
  BY DEF SealValues
<1>3. Closed(D, stop) /\ D \in SUBSET Revisions
  BY StoreAssumption DEF Closed
<1>4. base \in [D -> V]
  <2>1. ASSUME NEW r \in D PROVE base[r] \in V
    <3>1. seal0(r) \in V
      BY <1>2, FitsIsValue DEF SessionFits
    <3>2. r \in Pending(s) => Seal(r, SealedRow(s, r), Nothing) \in V
      BY <1>1, <1>2, SealIsValue
    <3> HIDE DEF V, seal0
    <3> QED
      BY <3>1, <3>2
  <2> HIDE DEF V
  <2> QED
    BY <2>1
<1>5. g \in [D \X V -> V]
  <2>1. ASSUME NEW r \in D, NEW v \in V, r \in Pending(s) PROVE Seal(r, SealedRow(s, r), v) \in V
    BY <1>1, <2>1, SealIsValue
  <2> HIDE DEF V
  <2> QED
    BY <1>2, <2>1
<1>6. PICK h \in [D -> V] : Follows(h, D, stop, base, g)
  <2> HIDE DEF D, V, stop, base, g
  <2> QED
    BY <1>3, <1>4, <1>5, FollowedThrough
<1>7. Is(h)
  <2>1. ASSUME NEW r \in Revisions
        PROVE  h[r] = IF r \in Pending(s)
                      THEN Seal(r, SealedRow(s, r), IF Previous[r] = Nothing \/ r \in early THEN Nothing ELSE h[Previous[r]])
                      ELSE IF r \in DOMAIN session[s].known THEN session[s].known[r].seal ELSE Nothing
    <3>1. CASE r \in stop
      <4>1. h[r] = base[r]
        BY <1>6, <3>1 DEF Follows
      <4> QED
        BY <3>1, <4>1
    <3>2. CASE r \notin stop
      <4>1. h[r] = g[<<r, h[Previous[r]]>>] /\ Previous[r] \in D
        BY <1>3, <1>6, <3>2 DEF Follows, Closed
      <4>2. h[Previous[r]] \in V
        BY <1>6, <4>1
      <4> HIDE DEF V
      <4> QED
        BY <3>2, <4>1, <4>2
    <3> QED
      BY <3>1, <3>2
  <2> HIDE DEF V
  <2> QED
    BY <1>6, <2>1
<1>8. PICK k : WrittenSeals(s, early) = Restrict(k, {r \in Pending(s) : k[r] # Nothing}) /\ Is(k)
  <2>1. \E a : Is(a)
    BY <1>7
  <2>2. WrittenSeals(s, early) = Restrict(CHOOSE a : Is(a), {r \in Pending(s) : (CHOOSE a : Is(a))[r] # Nothing})
    BY Zenon DEF WrittenSeals
  <2> HIDE DEF Is
  <2>3. Is(CHOOSE a : Is(a))
    BY <2>1
  <2> QED
    BY <2>2, <2>3
<1> QED
  BY <1>8

(* A write adds rows that are not there, or rewrites an older file.        *)
LEMMA WrittenExtends ==
  ASSUME NEW s, FileFits(file), SessionFits(session[s], file), session[s].generation = file.generation, NEW early
  PROVE  /\ Extends(file, Written(s, early))
         /\ DOMAIN Written(s, early).rows = Pending(s) \cup DOMAIN file.rows
         /\ \A r \in Pending(s) : Written(s, early).rows[r] = Row(KeptForm(r))
         /\ \A r \in DOMAIN file.rows \ Pending(s) : Written(s, early).rows[r] = file.rows[r]
<1> DEFINE w == Written(s, early)
<1>1. w.version = 3 /\ w.generation = file.generation + 1 /\ w.rows = Over(WrittenRows(s), file.rows)
  BY DEF Written
<1>2. DOMAIN WrittenRows(s) = Pending(s) /\ \A r \in Pending(s) : WrittenRows(s)[r] = Row(KeptForm(r))
  BY PendingIsHeld DEF WrittenRows
<1> HIDE DEF w
<1>3. /\ DOMAIN w.rows = Pending(s) \cup DOMAIN file.rows
      /\ \A r \in Pending(s) : w.rows[r] = Row(KeptForm(r))
      /\ \A r \in DOMAIN file.rows \ Pending(s) : w.rows[r] = file.rows[r]
  BY <1>1, <1>2 DEF Over
<1>4. file.version = 3 => DOMAIN file.rows \cap Pending(s) = {}
  BY DEF SessionFits, Pending, Dirty
<1>5. file.generation < w.generation
  BY <1>1 DEF FileFits
<1>6. Extends(file, w)
  BY <1>1, <1>3, <1>4, <1>5 DEF Extends
<1> QED
  BY <1>3, <1>6 DEF w

(* The file fits once it is written, and so do the seals that were.        *)
LEMMA WrittenFits ==
  ASSUME NEW s, FileFits(file), SessionFits(session[s], file), session[s].generation = file.generation, NEW early
  PROVE  /\ FileFits(Written(s, early))
         /\ \A r \in DOMAIN WrittenSeals(s, early) :
              r \in Pending(s) /\ Fits(WrittenSeals(s, early)[r], r, Written(s, early))
<1> DEFINE w == Written(s, early)
<1>1. /\ Extends(file, w)
      /\ DOMAIN w.rows = Pending(s) \cup DOMAIN file.rows
      /\ \A r \in Pending(s) : w.rows[r] = Row(KeptForm(r))
      /\ \A r \in DOMAIN file.rows \ Pending(s) : w.rows[r] = file.rows[r]
  BY WrittenExtends
<1>2. /\ w = [version |-> w.version, generation |-> w.generation, rows |-> w.rows, seals |-> w.seals]
      /\ w.version = 3 /\ w.generation = file.generation + 1 /\ w.seals = Over(WrittenSeals(s, early), file.seals)
  BY DEF Written
<1> HIDE DEF w
<1>3. DOMAIN w.rows \subseteq Revisions
  BY <1>1, PendingIsHeld DEF FileFits
<1>4. ASSUME NEW r \in DOMAIN w.rows
      PROVE  w.rows[r] \in Rows /\ w.rows[r].form = KeptForm(r) /\ (Previous[r] # Nothing => Previous[r] \in DOMAIN w.rows)
  <2>1. w.rows[r] \in Rows /\ w.rows[r].form = KeptForm(r)
    <3>1. CASE r \in Pending(s)
      BY <1>1, <3>1, PendingIsHeld
    <3>2. CASE r \notin Pending(s)
      <4>1. r \in DOMAIN file.rows /\ w.rows[r] = file.rows[r] /\ r \in DOMAIN session[s].known
        BY <1>1, <3>2 DEF SessionFits
      <4>2. file.version = 3 \/ r \in Graphs
        BY <3>2, <4>1 DEF Pending, FileFits, Revisions
      <4> QED
        BY <4>1, <4>2 DEF FileFits
    <3> QED
      BY <3>1, <3>2
  <2>2. DOMAIN session[s].known = DOMAIN file.rows \cup session[s].dirty /\ session[s].dirty \subseteq Pending(s)
    BY DEF SessionFits, Pending, Dirty
  <2>3. Previous[r] # Nothing => Previous[r] \in DOMAIN w.rows
    <3>1. r \in DOMAIN session[s].known
      BY <1>1, <2>2, PendingIsHeld
    <3>2. Previous[r] # Nothing => Previous[r] \in DOMAIN session[s].known
      BY <3>1 DEF SessionFits
    <3> QED
      BY <1>1, <2>2, <3>2
  <2> QED
    BY <2>1, <2>3
<1> DEFINE v == [w EXCEPT !.seals = <<>>]
<1>5. FileFits(v) /\ v.version = 3 /\ v.rows = w.rows
  <2>1. /\ v = [version |-> v.version, generation |-> v.generation, rows |-> v.rows, seals |-> v.seals]
        /\ v.version = 3 /\ v.generation = w.generation /\ v.rows = w.rows /\ DOMAIN v.seals = {}
    BY <1>2
  <2>2. v.generation \in Nat
    BY <1>2, <2>1 DEF FileFits
  <2> HIDE DEF v
  <2> QED
    BY <1>3, <1>4, <2>1, <2>2 DEF FileFits
<1>6. \A seal, r : Fits(seal, r, v) <=> Fits(seal, r, w)
  BY <1>2, <1>5 DEF Fits
<1> HIDE DEF v
<1>7. PICK h :
        /\ WrittenSeals(s, early) = Restrict(h, {r \in Pending(s) : h[r] # Nothing})
        /\ \A r \in Revisions :
             h[r] = IF r \in Pending(s)
                    THEN Seal(r, SealedRow(s, r), IF Previous[r] = Nothing \/ r \in early THEN Nothing ELSE h[Previous[r]])
                    ELSE IF r \in DOMAIN session[s].known THEN session[s].known[r].seal ELSE Nothing
  BY WrittenSealsAre
<1> DEFINE T == {r \in Revisions : ~(h[r] = Nothing \/ Fits(h[r], r, w))}
<1>8. ASSUME NEW r \in T, Previous[r] \notin T PROVE FALSE
  <2>1. CASE r \in Pending(s)
    <3> DEFINE parent == IF Previous[r] = Nothing \/ r \in early THEN Nothing ELSE h[Previous[r]]
    <3>1. h[r] = Seal(r, SealedRow(s, r), parent)
      BY <1>7, <2>1
    <3>2. /\ SealedRow(s, r) \in Rows /\ SealedRow(s, r).form = KeptForm(r)
          /\ SealedRow(s, r).text = "right"
      BY <2>1, PendingIsHeld DEF SealedRow
    <3>3. Previous[r] # Nothing => Previous[r] \in Revisions
      BY StoreAssumption
    <3>4. Previous[r] # Nothing => parent = Nothing \/ Fits(parent, Previous[r], v)
      BY <1>6, <1>8, <3>3
    <3>5. r \in DOMAIN v.rows
      BY <1>1, <1>5, <2>1
    <3> HIDE DEF parent
    <3>6. SealedRow(s, r).text # "wrong" /\ (SealedRow(s, r).text = "respelled" => v.rows[r].text # "right")
      BY <3>2
    <3>7. h[r] = Nothing \/ Fits(h[r], r, v)
      BY <1>5, <3>1, <3>2, <3>4, <3>5, <3>6, SealUpon
    <3> QED
      BY <1>6, <3>7
  <2>2. CASE r \notin Pending(s)
    <3>1. h[r] = Nothing \/ Fits(h[r], r, file)
      BY <1>7, <2>2 DEF SessionFits
    <3> QED
      BY <1>1, <3>1, FitsStill
  <2> QED
    BY <2>1, <2>2
<1>9. T \in SUBSET Revisions
  OBVIOUS
<1> HIDE DEF T
<1>10. T = {}
  BY <1>8, <1>9, AncestryAssumption
<1>11. \A r \in Pending(s) : r \in Revisions
  BY PendingIsHeld
<1>12. \A r \in DOMAIN WrittenSeals(s, early) : r \in Pending(s) /\ Fits(WrittenSeals(s, early)[r], r, w)
  BY <1>7, <1>10, <1>11 DEF T, Restrict
<1>13. ASSUME NEW r \in DOMAIN w.seals PROVE r \in DOMAIN w.rows /\ Fits(w.seals[r], r, w)
  <2>1. CASE r \in DOMAIN WrittenSeals(s, early)
    <3>1. r \in Pending(s) /\ w.seals[r] = WrittenSeals(s, early)[r]
      BY <1>2, <1>12, <2>1 DEF Over
    <3> QED
      BY <1>1, <1>12, <2>1, <3>1
  <2>2. CASE r \notin DOMAIN WrittenSeals(s, early)
    <3>1. r \in DOMAIN file.seals /\ w.seals[r] = file.seals[r]
      BY <1>2, <2>2 DEF Over
    <3>2. r \in DOMAIN file.rows /\ r \in Revisions /\ Fits(file.seals[r], r, file)
      BY <3>1 DEF FileFits
    <3> QED
      BY <1>1, <3>1, <3>2, FitsStill
  <2> QED
    BY <2>1, <2>2
<1>14. w.generation \in Nat
  BY <1>2 DEF FileFits
<1>15. FileFits(w)
  <2> HIDE DEF Fits
  <2> QED
    BY <1>2, <1>3, <1>4, <1>13, <1>14 DEF FileFits
<1> QED
  BY <1>12, <1>15 DEF w

-----------------------------------------------------------------------------
(* The invariant, and the steps that keep it.                              *)

StoreFits ==
  /\ FileFits(file)
  /\ damage \in Nat
  /\ damage = 0 => \A r \in DOMAIN file.rows : file.rows[r].text = "right"
  /\ session = [s \in Sessions |-> session[s]]
  /\ \A s \in Sessions : session[s] # Nothing => SessionFits(session[s], file)

(* A session may set out to write other seals that fit.                    *)
LEMMA Resealed ==
  ASSUME NEW z, NEW f, SessionFits(z, f), NEW seals,
         \A r \in DOMAIN seals : r \in DOMAIN f.rows /\ Fits(seals[r], r, f)
  PROVE  SessionFits([z EXCEPT !.sealing = seals], f)
<1> DEFINE y == [z EXCEPT !.sealing = seals]
<1>1. /\ y = [known |-> y.known, held |-> y.held, reader |-> y.reader, dirty |-> y.dirty, writing |-> y.writing,
              sealing |-> y.sealing, generation |-> y.generation, ready |-> y.ready]
      /\ y.known = z.known /\ y.held = z.held /\ y.reader = z.reader /\ y.dirty = z.dirty
      /\ y.sealing = seals /\ y.generation = z.generation /\ y.ready = z.ready
  BY DEF SessionFits
<1> HIDE DEF y, Fits
<1>2. SessionFits(y, f)
  BY <1>1 DEF SessionFits
<1> QED
  BY <1>2 DEF y

(* A session may remember other revisions it rebuilt right.                *)
LEMMA Remembered ==
  ASSUME NEW z, NEW f, SessionFits(z, f), NEW ready, \A r \in DOMAIN ready : ready[r]
  PROVE  SessionFits([z EXCEPT !.ready = ready], f)
<1> DEFINE y == [z EXCEPT !.ready = ready]
<1>1. /\ y = [known |-> y.known, held |-> y.held, reader |-> y.reader, dirty |-> y.dirty, writing |-> y.writing,
              sealing |-> y.sealing, generation |-> y.generation, ready |-> y.ready]
      /\ y.known = z.known /\ y.held = z.held /\ y.reader = z.reader /\ y.dirty = z.dirty
      /\ y.sealing = z.sealing /\ y.generation = z.generation /\ y.ready = ready
  BY DEF SessionFits
<1> HIDE DEF y, Fits
<1>2. SessionFits(y, f)
  BY <1>1 DEF SessionFits
<1> QED
  BY <1>2 DEF y

(* A session that becomes one that fits, whatever goes from its cache.     *)
LEMMA BecomesFit ==
  ASSUME StoreFits, NEW e, e = file', FileFits(e), Extends(file, e),
         NEW s \in Sessions, NEW next, SessionFits(next, e), Become(s, next)
  PROVE  /\ session' = [t \in Sessions |-> session'[t]]
         /\ \A t \in Sessions : session'[t] # Nothing => SessionFits(session'[t], e)
<1>1. PICK kept \in Trimmed(DOMAIN next.ready) :
        session' = [session EXCEPT ![s] = [next EXCEPT !.ready = Restrict(@, kept)]]
  BY Zenon DEF Become
<1>2. kept \subseteq DOMAIN next.ready
  BY DEF Trimmed, kSubset
<1> DEFINE y == [next EXCEPT !.ready = Restrict(next.ready, kept)]
<1>3. SessionFits(y, e)
  <2>1. \A r \in DOMAIN Restrict(next.ready, kept) : Restrict(next.ready, kept)[r]
    BY <1>2 DEF Restrict, SessionFits
  <2> QED
    BY <2>1, Remembered
<1>4. session' = [session EXCEPT ![s] = y]
  BY <1>1
<1> HIDE DEF y
<1>5. session' = [t \in Sessions |-> session'[t]] /\ session'[s] = y /\ \A t \in Sessions \ {s} : session'[t] = session[t]
  BY <1>4 DEF StoreFits
<1>6. ASSUME NEW t \in Sessions \ {s}, session[t] # Nothing PROVE SessionFits(session[t], e)
  BY <1>6, SessionStill DEF StoreFits
<1> QED
  BY <1>3, <1>5, <1>6

(* A file that nobody touches is such a file.                              *)
LEMMA ExtendsItself ==
  ASSUME NEW f, FileFits(f)
  PROVE  Extends(f, f)
BY DEF Extends

(* A file that is found is right and has no seals.                         *)
LEMMA StoreFitsInit == StoreInit => StoreFits
<1> SUFFICES ASSUME StoreInit PROVE StoreFits
  OBVIOUS
<1>1. /\ damage = 0 /\ session = [s \in Sessions |-> Nothing]
  BY DEF StoreInit
<1>2. FileFits(file) /\ \A r \in DOMAIN file.rows : file.rows[r].text = "right"
  <2>1. CASE file = [version |-> 0, generation |-> 0, rows |-> <<>>, seals |-> <<>>]
    BY <2>1 DEF FileFits
  <2>2. ASSUME NEW rs \in Found, NEW version \in {2, 3}, NEW form,
               file = [version |-> version, generation |-> 1, rows |-> [r \in rs |-> Row(form[r])], seals |-> <<>>],
               \A r \in rs : form[r] \in {"whole", "changes"} /\ (version = 3 \/ r \in Graphs => form[r] = KeptForm(r))
        PROVE  FileFits(file) /\ \A r \in DOMAIN file.rows : file.rows[r].text = "right"
    <3>1. rs \subseteq Revisions /\ \A r \in rs : Previous[r] # Nothing => Previous[r] \in rs
      BY AncestryFacts DEF Found
    <3>2. /\ file = [version |-> file.version, generation |-> file.generation, rows |-> file.rows, seals |-> file.seals]
          /\ file.version = version /\ file.generation = 1 /\ DOMAIN file.rows = rs
          /\ \A r \in rs : file.rows[r] = Row(form[r])
          /\ DOMAIN file.seals = {}
      BY <2>2
    <3>3. \A r \in rs : file.rows[r] \in Rows /\ file.rows[r].form = form[r] /\ file.rows[r].text = "right"
      BY <2>2, <3>2 DEF Row, Rows
    <3> HIDE DEF Fits
    <3> QED
      BY <2>2, <3>1, <3>2, <3>3 DEF FileFits
  <2>3. ASSUME NEW rs \in Found,
               file = [version |-> 2, generation |-> 1, rows |-> [r \in rs |-> Row(OlderForm(r))], seals |-> <<>>]
        PROVE  FileFits(file) /\ \A r \in DOMAIN file.rows : file.rows[r].text = "right"
    <3> DEFINE form == [r \in rs |-> OlderForm(r)]
    <3>1. \A r \in rs : form[r] \in {"whole", "changes"} /\ (r \in Graphs => form[r] = KeptForm(r))
      BY StoreAssumption DEF OlderForm, KeptForm
    <3>2. file = [version |-> 2, generation |-> 1, rows |-> [r \in rs |-> Row(form[r])], seals |-> <<>>]
      BY <2>3
    <3> HIDE DEF form
    <3> QED
      BY <2>2, <3>1, <3>2
  <2>4. ASSUME NEW rs \in Found,
               file = [version |-> 3, generation |-> 1, rows |-> [r \in rs |-> Row(KeptForm(r))], seals |-> <<>>]
        PROVE  FileFits(file) /\ \A r \in DOMAIN file.rows : file.rows[r].text = "right"
    <3> DEFINE form == [r \in rs |-> KeptForm(r)]
    <3>1. \A r \in rs : form[r] \in {"whole", "changes"} /\ form[r] = KeptForm(r)
      BY DEF KeptForm
    <3>2. file = [version |-> 3, generation |-> 1, rows |-> [r \in rs |-> Row(form[r])], seals |-> <<>>]
      BY <2>4
    <3> HIDE DEF form
    <3> QED
      BY <2>2, <3>1, <3>2
  <2> QED
    BY <2>1, <2>3, <2>4 DEF StoreInit, InitialFiles
<1> QED
  BY <1>1, <1>2 DEF StoreFits

(* Opening: what is not trusted is validated before it is sealed.          *)
LEMMA StartKeeps ==
  ASSUME StoreFits, NEW s \in Sessions, Start(s)
  PROVE  StoreFits'
<1> DEFINE trusted == Trusted(file)
           z == Opened(file, trusted)
           seals == IF file.version = 3 THEN NewSeals(file, trusted) ELSE <<>>
<1>1. FileFits(file) /\ file' = file /\ damage' = damage
  BY DEF StoreFits, Start
<1>2. Opens(file, trusted) /\ Become(s, [z EXCEPT !.sealing = seals])
  BY DEF Start
<1>3. trusted \subseteq DOMAIN file.seals
  BY <1>1, TrustedIsSealed
<1> HIDE DEF trusted
<1>4. SessionFits(z, file) /\ \A r \in DOMAIN seals : r \in DOMAIN file.rows /\ Fits(seals[r], r, file)
  BY <1>1, <1>2, <1>3, OpenedFits
<1> HIDE DEF z, seals
<1>5. SessionFits([z EXCEPT !.sealing = seals], file)
  BY <1>4, Resealed
<1>6. Extends(file, file)
  BY <1>1, ExtendsItself
<1>7. /\ session' = [t \in Sessions |-> session'[t]]
      /\ \A t \in Sessions : session'[t] # Nothing => SessionFits(session'[t], file)
  BY <1>1, <1>2, <1>5, <1>6, BecomesFit
<1> QED
  BY <1>1, <1>7 DEF StoreFits

(* The seals that are written fit the rows the file has now.               *)
LEMMA WriteSealsKeeps ==
  ASSUME StoreFits, NEW s \in Sessions, WriteSeals(s)
  PROVE  StoreFits'
<1> DEFINE z == session[s]
<1>1. FileFits(file) /\ damage' = damage /\ SessionFits(z, file) /\ Become(s, [z EXCEPT !.sealing = <<>>])
  BY DEF StoreFits, WriteSeals
<1>2. SessionFits([z EXCEPT !.sealing = <<>>], file)
  BY <1>1, Resealed
<1>3. PICK e : e = file'
  OBVIOUS
<1>4. FileFits(e) /\ Extends(file, e) /\ e.rows = file.rows
  <2>1. CASE e = file
    BY <1>1, <2>1, ExtendsItself
  <2>2. CASE e = [file EXCEPT !.seals = Over(z.sealing, file.seals)]
    <3>1. /\ e = [version |-> e.version, generation |-> e.generation, rows |-> e.rows, seals |-> e.seals]
          /\ e.version = file.version /\ e.generation = file.generation /\ e.rows = file.rows
          /\ e.seals = Over(z.sealing, file.seals)
      BY <1>1, <2>2 DEF FileFits
    <3>2. \A seal, r : Fits(seal, r, file) <=> Fits(seal, r, e)
      BY <3>1 DEF Fits
    <3>3. ASSUME NEW r \in DOMAIN e.seals PROVE r \in DOMAIN e.rows /\ Fits(e.seals[r], r, e)
      <4>1. CASE r \in DOMAIN z.sealing
        BY <1>1, <3>1, <3>2, <4>1 DEF Over, SessionFits
      <4>2. CASE r \notin DOMAIN z.sealing
        <5>1. r \in DOMAIN file.seals /\ e.seals[r] = file.seals[r]
          BY <3>1, <4>2 DEF Over
        <5> QED
          BY <1>1, <3>1, <3>2, <5>1 DEF FileFits
      <4> QED
        BY <4>1, <4>2
    <3>4. Extends(file, e)
      BY <3>1 DEF Extends
    <3> HIDE DEF Fits
    <3> QED
      BY <1>1, <3>1, <3>3, <3>4 DEF FileFits
  <2> QED
    BY <1>3, <2>1, <2>2 DEF WriteSeals
<1> HIDE DEF z
<1>5. SessionFits([z EXCEPT !.sealing = <<>>], e)
  BY <1>1, <1>2, <1>4, SessionStill
<1>6. /\ session' = [t \in Sessions |-> session'[t]]
      /\ \A t \in Sessions : session'[t] # Nothing => SessionFits(session'[t], e)
  BY <1>1, <1>3, <1>4, <1>5, BecomesFit
<1> QED
  BY <1>1, <1>3, <1>4, <1>6 DEF StoreFits

(* A session that is killed leaves the file.                               *)
LEMMA KillKeeps ==
  ASSUME StoreFits, NEW s \in Sessions, Kill(s)
  PROVE  StoreFits'
<1>1. /\ session' = [session EXCEPT ![s] = Nothing] /\ file' = file /\ damage' = damage
  BY DEF Kill
<1>2. session' = [t \in Sessions |-> session'[t]]
  BY <1>1 DEF StoreFits
<1>3. \A t \in Sessions : session'[t] = Nothing \/ session'[t] = session[t]
  BY <1>1 DEF StoreFits
<1> QED
  BY <1>1, <1>2, <1>3 DEF StoreFits

(* What is rebuilt from rows that are held, or checked, is right.          *)
LEMMA RebuiltIsRight ==
  ASSUME StoreFits, NEW s \in Sessions, session[s] # Nothing, NEW r, Materializes(s, r)
  PROVE  Right(s, r)
<1> DEFINE z == session[s]
<1>1. SessionFits(z, file) /\ r \in DOMAIN z.known /\ \A a \in NeededBy(s, r) : Readable(s, a)
  BY DEF StoreFits, Materializes
<1>2. NeededBy(s, r) \subseteq DOMAIN z.known
  <2>1. CASE r \in DOMAIN session[s].ready
    BY <2>1 DEF NeededBy
  <2>2. CASE r \notin DOMAIN session[s].ready
    <3>1. Closed(DOMAIN z.known, {x \in Revisions : Previous[x] = Nothing})
      BY <1>1 DEF Closed, SessionFits
    <3>2. DOMAIN z.known \in SUBSET Revisions /\ r \in Revisions
      BY <1>1 DEF SessionFits
    <3>3. NeededBy(s, r) = Needed(Forming(s), DOMAIN session[s].ready, r)
      BY <2>2 DEF NeededBy
    <3> HIDE DEF z
    <3> QED
      BY <1>1, <3>1, <3>2, <3>3, NeededIs
  <2> QED
    BY <2>1, <2>2
<1>3. ASSUME NEW a \in NeededBy(s, r) PROVE RowOf(s, a).text # "wrong"
  <2>1. a \in DOMAIN z.known /\ a \in Revisions /\ Readable(s, a)
    BY <1>1, <1>2 DEF SessionFits
  <2>2. CASE a \in DOMAIN z.held
    <3>1. RowOf(s, a) = z.held[a]
      BY <2>2 DEF RowOf
    <3>2. z.held[a] = Row(KeptForm(a))
      BY <1>1, <2>2 DEF SessionFits
    <3> QED
      BY <3>1, <3>2 DEF Row
  <2>3. CASE a \notin DOMAIN z.held
    <3>1. z.known[a].seal # Nothing /\ RowOf(s, a) = z.known[a].seal[a]
      BY <2>1, <2>3 DEF Readable, CheckedRow, RowOf
    <3>2. Fits(z.known[a].seal, a, file)
      BY <1>1, <2>1, <3>1 DEF SessionFits
    <3> QED
      BY <2>1, <3>1, <3>2, AncestryFacts DEF Fits
  <2> QED
    BY <2>2, <2>3
<1>4. \A a \in DOMAIN z.ready : z.ready[a]
  BY <1>1 DEF SessionFits
<1> QED
  BY <1>3, <1>4 DEF Right

(* What is read and cached is right.                                       *)
LEMMA ReadKeeps ==
  ASSUME StoreFits, NEW s \in Sessions, NEW r \in Revisions, Read(s, r)
  PROVE  StoreFits'
<1> DEFINE z == session[s]
           ready == IF r \in DOMAIN z.ready THEN z.ready ELSE Over(z.ready, Only(r, Right(s, r)))
<1>1. FileFits(file) /\ file' = file /\ damage' = damage /\ SessionFits(z, file)
  BY DEF StoreFits, Read, Ready
<1>2. Right(s, r)
  BY RebuiltIsRight DEF Read, Ready
<1>3. Become(s, [z EXCEPT !.ready = ready])
  BY DEF Read, Materialized
<1>4. ASSUME NEW a \in DOMAIN ready PROVE ready[a]
  <2>1. CASE a \in DOMAIN z.ready
    <3>1. ready[a] = z.ready[a]
      BY <2>1 DEF Over
    <3> QED
      BY <1>1, <2>1, <3>1 DEF SessionFits
  <2>2. CASE a \notin DOMAIN z.ready
    <3>1. a = r /\ ready[a] = Right(s, r)
      BY <2>2 DEF Over, Only
    <3> QED
      BY <1>2, <3>1
  <2> QED
    BY <2>1, <2>2
<1> HIDE DEF ready
<1>5. SessionFits([z EXCEPT !.ready = ready], file)
  BY <1>1, <1>4, Remembered
<1>6. Extends(file, file)
  BY <1>1, ExtendsItself
<1>7. /\ session' = [t \in Sessions |-> session'[t]]
      /\ \A t \in Sessions : session'[t] # Nothing => SessionFits(session'[t], file)
  BY <1>1, <1>3, <1>5, <1>6, BecomesFit
<1> QED
  BY <1>1, <1>7 DEF StoreFits

(* A new revision is held until it is written.                             *)
LEMMA ReviseKeeps ==
  ASSUME StoreFits, NEW s \in Sessions, NEW r \in Revisions, Revise(s, r)
  PROVE  StoreFits'
<1> DEFINE z == session[s]
           y == [z EXCEPT !.known = Over(@, Only(r, [form |-> KeptForm(r), seal |-> Nothing])),
                          !.held = Over(@, Only(r, Row(KeptForm(r)))),
                          !.ready = Over(@, Only(r, TRUE)),
                          !.dirty = {r}, !.writing = TRUE]
<1>1. FileFits(file) /\ file' = file /\ damage' = damage /\ SessionFits(z, file)
  BY DEF StoreFits, Revise, Ready
<1>2. z.dirty = {} /\ r \notin DOMAIN z.known /\ Become(s, y)
  BY DEF Revise, Dirty
<1>3. Previous[r] # Nothing => Previous[r] \in DOMAIN z.known
  BY DEF Revise, Materializes
<1>4. r \notin DOMAIN z.held
  BY <1>1, <1>2 DEF SessionFits
<1>5. /\ y = [known |-> y.known, held |-> y.held, reader |-> y.reader, dirty |-> y.dirty, writing |-> y.writing,
              sealing |-> y.sealing, generation |-> y.generation, ready |-> y.ready]
      /\ y.known = Over(z.known, Only(r, [form |-> KeptForm(r), seal |-> Nothing]))
      /\ y.held = Over(z.held, Only(r, Row(KeptForm(r))))
      /\ y.ready = Over(z.ready, Only(r, TRUE))
      /\ y.reader = z.reader /\ y.dirty = {r} /\ y.sealing = z.sealing /\ y.generation = z.generation
  <2> DEFINE k == Over(z.known, Only(r, [form |-> KeptForm(r), seal |-> Nothing]))
             h == Over(z.held, Only(r, Row(KeptForm(r))))
             q == Over(z.ready, Only(r, TRUE))
  <2>1. y = [z EXCEPT !.known = k, !.held = h, !.ready = q, !.dirty = {r}, !.writing = TRUE]
    OBVIOUS
  <2>2. z = [known |-> z.known, held |-> z.held, reader |-> z.reader, dirty |-> z.dirty, writing |-> z.writing,
             sealing |-> z.sealing, generation |-> z.generation, ready |-> z.ready]
    BY <1>1 DEF SessionFits
  <2> HIDE DEF y, z, k, h, q
  <2>3. /\ y = [known |-> y.known, held |-> y.held, reader |-> y.reader, dirty |-> y.dirty, writing |-> y.writing,
                sealing |-> y.sealing, generation |-> y.generation, ready |-> y.ready]
        /\ y.known = k /\ y.held = h /\ y.ready = q
        /\ y.reader = z.reader /\ y.dirty = {r} /\ y.sealing = z.sealing /\ y.generation = z.generation
    BY <2>1, <2>2
  <2> QED
    BY <2>3 DEF k, h, q
<1>6. /\ DOMAIN y.known = DOMAIN z.known \cup {r} /\ y.known[r] = [form |-> KeptForm(r), seal |-> Nothing]
      /\ \A a \in DOMAIN z.known : y.known[a] = z.known[a]
  BY <1>2, <1>5 DEF Over, Only
<1>7. /\ DOMAIN y.held = DOMAIN z.held \cup {r} /\ y.held[r] = Row(KeptForm(r))
      /\ \A a \in DOMAIN z.held : y.held[a] = z.held[a]
  BY <1>4, <1>5 DEF Over, Only
<1>8. ASSUME NEW a \in DOMAIN y.ready PROVE y.ready[a]
  <2>1. CASE a \in DOMAIN z.ready
    <3>1. y.ready[a] = z.ready[a]
      BY <1>5, <2>1 DEF Over
    <3> QED
      BY <1>1, <2>1, <3>1 DEF SessionFits
  <2>2. CASE a \notin DOMAIN z.ready
    BY <1>5, <1>8, <2>2 DEF Over, Only
  <2> QED
    BY <2>1, <2>2
<1> HIDE DEF y
<1>9. SessionFits(y, file)
  <2>1. ASSUME NEW a \in DOMAIN y.known
        PROVE  /\ y.known[a] = [form |-> KeptForm(a), seal |-> y.known[a].seal]
               /\ Previous[a] # Nothing => Previous[a] \in DOMAIN y.known
               /\ y.known[a].seal = Nothing \/ Fits(y.known[a].seal, a, file)
               /\ a \in DOMAIN y.held \/ (y.reader /\ y.known[a].seal # Nothing)
    <3>1. CASE a = r
      BY <1>3, <1>6, <1>7, <3>1
    <3>2. CASE a # r
      <4>1. a \in DOMAIN z.known /\ y.known[a] = z.known[a]
        BY <1>6, <3>2
      <4> QED
        BY <1>1, <1>5, <1>6, <1>7, <4>1 DEF SessionFits
    <3> QED
      BY <3>1, <3>2
  <2>2. \A a \in DOMAIN y.held : a \in DOMAIN y.known /\ y.held[a] = Row(KeptForm(a))
    BY <1>1, <1>6, <1>7 DEF SessionFits
  <2>3. DOMAIN y.known \subseteq Revisions /\ y.dirty \subseteq DOMAIN y.held
    BY <1>1, <1>5, <1>6, <1>7 DEF SessionFits
  <2>4. y.generation = file.generation =>
          DOMAIN y.known = DOMAIN file.rows \cup y.dirty /\ y.dirty \cap DOMAIN file.rows = {}
    <3> HAVE y.generation = file.generation
    <3>1. DOMAIN z.known = DOMAIN file.rows \cup z.dirty
      BY <1>1, <1>5 DEF SessionFits
    <3>2. DOMAIN z.known = DOMAIN file.rows /\ y.dirty = {r}
      BY <1>2, <1>5, <3>1
    <3> QED
      BY <1>2, <1>6, <3>2
  <2>5. /\ y.reader => file.version = 3
        /\ \A a \in DOMAIN y.sealing : a \in DOMAIN file.rows /\ Fits(y.sealing[a], a, file)
        /\ y.generation \in Nat /\ y.generation <= file.generation
    BY <1>1, <1>5 DEF SessionFits
  <2> HIDE DEF Fits
  <2> QED
    BY <1>5, <1>8, <2>1, <2>2, <2>3, <2>4, <2>5 DEF SessionFits
<1>10. Extends(file, file)
  BY <1>1, ExtendsItself
<1>11. /\ session' = [t \in Sessions |-> session'[t]]
       /\ \A t \in Sessions : session'[t] # Nothing => SessionFits(session'[t], file)
  BY <1>1, <1>2, <1>9, <1>10, BecomesFit
<1> QED
  BY <1>1, <1>11 DEF StoreFits

(* After a write the session knows the seals of what it wrote, and lets go *)
(* of the rows that have one.                                              *)
LEMMA AfterWriteFits ==
  ASSUME NEW s, FileFits(file), SessionFits(session[s], file), session[s].generation = file.generation, NEW early
  PROVE  SessionFits(AfterWrite(s, early), Written(s, early))
<1> DEFINE z == session[s]
           y == AfterWrite(s, early)
           w == Written(s, early)
           seals == WrittenSeals(s, early)
<1>1. /\ y = [known |-> y.known, held |-> y.held, reader |-> y.reader, dirty |-> y.dirty, writing |-> y.writing,
              sealing |-> y.sealing, generation |-> y.generation, ready |-> y.ready]
      /\ y.known = [r \in DOMAIN z.known |-> IF r \in DOMAIN seals THEN [z.known[r] EXCEPT !.seal = seals[r]] ELSE z.known[r]]
      /\ y.held = Restrict(z.held, DOMAIN z.held \ DOMAIN seals)
      /\ y.reader = TRUE /\ y.dirty = {} /\ y.ready = z.ready /\ y.sealing = z.sealing
      /\ y.generation = z.generation + 1
  <2> DEFINE k == [r \in DOMAIN z.known |-> IF r \in DOMAIN seals THEN [z.known[r] EXCEPT !.seal = seals[r]] ELSE z.known[r]]
             h == Restrict(z.held, DOMAIN z.held \ DOMAIN seals)
             n == z.generation + 1
  <2>1. y = [z EXCEPT !.known = k, !.held = h, !.reader = TRUE, !.dirty = {}, !.writing = FALSE, !.generation = n]
    BY DEF AfterWrite, Released
  <2>2. z = [known |-> z.known, held |-> z.held, reader |-> z.reader, dirty |-> z.dirty, writing |-> z.writing,
             sealing |-> z.sealing, generation |-> z.generation, ready |-> z.ready]
    BY DEF SessionFits
  <2> HIDE DEF y, z, k, h, n
  <2>3. /\ y = [known |-> y.known, held |-> y.held, reader |-> y.reader, dirty |-> y.dirty, writing |-> y.writing,
                sealing |-> y.sealing, generation |-> y.generation, ready |-> y.ready]
        /\ y.known = k /\ y.held = h /\ y.reader = TRUE /\ y.dirty = {} /\ y.ready = z.ready /\ y.sealing = z.sealing
        /\ y.generation = n
    BY <2>1, <2>2
  <2> QED
    BY <2>3 DEF k, h, n
<1>2. /\ FileFits(w) /\ \A r \in DOMAIN seals : r \in Pending(s) /\ Fits(seals[r], r, w)
  BY WrittenFits
<1>3. Extends(file, w) /\ DOMAIN w.rows = Pending(s) \cup DOMAIN file.rows
  BY WrittenExtends
<1>4. w.version = 3 /\ w.generation = file.generation + 1
  BY DEF Written
<1>5. \A r \in Pending(s) : r \in DOMAIN z.known /\ r \in Revisions
  BY PendingIsHeld
<1>6. \A r \in DOMAIN seals : seals[r] # Nothing
  BY <1>2, <1>5, FitsIsSeal
<1> HIDE DEF y, w, seals
<1>7. \A r \in DOMAIN z.known : z.known[r].seal = Nothing \/ Fits(z.known[r].seal, r, w)
  BY <1>3, FitsStill DEF SessionFits
<1>8. \A r \in DOMAIN z.sealing : r \in DOMAIN w.rows /\ Fits(z.sealing[r], r, w)
  BY <1>3, FitsStill DEF SessionFits, FileFits
<1>9. DOMAIN y.held = DOMAIN z.held \ DOMAIN seals /\ \A r \in DOMAIN y.held : y.held[r] = z.held[r]
  BY <1>1 DEF Restrict
<1>10. ASSUME NEW r \in DOMAIN y.known
       PROVE  /\ y.known[r] = [form |-> KeptForm(r), seal |-> y.known[r].seal]
              /\ Previous[r] # Nothing => Previous[r] \in DOMAIN y.known
              /\ y.known[r].seal = Nothing \/ Fits(y.known[r].seal, r, w)
              /\ r \in DOMAIN y.held \/ (y.reader /\ y.known[r].seal # Nothing)
  <2>1. /\ r \in DOMAIN z.known /\ z.known[r] = [form |-> KeptForm(r), seal |-> z.known[r].seal]
        /\ Previous[r] # Nothing => Previous[r] \in DOMAIN y.known
    BY <1>1 DEF SessionFits
  <2>2. CASE r \in DOMAIN seals
    <3>1. y.known[r] = [form |-> KeptForm(r), seal |-> seals[r]]
      BY <1>1, <2>1, <2>2
    <3>2. Fits(seals[r], r, w) /\ seals[r] # Nothing
      BY <1>2, <1>6, <2>2
    <3> HIDE DEF Fits
    <3> QED
      BY <1>1, <2>1, <3>1, <3>2
  <2>3. CASE r \notin DOMAIN seals
    <3>1. y.known[r] = z.known[r]
      BY <1>1, <2>1, <2>3
    <3>2. r \in DOMAIN z.held \/ z.known[r].seal # Nothing
      BY <2>1 DEF SessionFits
    <3> HIDE DEF Fits
    <3> QED
      BY <1>1, <1>7, <1>9, <2>1, <2>3, <3>1, <3>2
  <2> QED
    BY <2>2, <2>3
<1>11. \A r \in DOMAIN y.held : r \in DOMAIN y.known /\ y.held[r] = Row(KeptForm(r))
  BY <1>1, <1>9 DEF SessionFits
<1>12. DOMAIN y.known = DOMAIN w.rows
  <2>1. DOMAIN z.known = DOMAIN file.rows \cup z.dirty /\ z.dirty \subseteq Pending(s)
    BY DEF SessionFits, Pending, Dirty
  <2> QED
    BY <1>1, <1>3, <1>5, <2>1
<1>13. DOMAIN y.known \subseteq Revisions /\ y.generation \in Nat /\ y.generation = w.generation
       /\ \A r \in DOMAIN y.ready : y.ready[r]
  BY <1>1, <1>4 DEF SessionFits
<1>14. SessionFits(y, w)
  <2>1. /\ y = [known |-> y.known, held |-> y.held, reader |-> y.reader, dirty |-> y.dirty, writing |-> y.writing,
                sealing |-> y.sealing, generation |-> y.generation, ready |-> y.ready]
        /\ y.reader => w.version = 3
    BY <1>1, <1>4
  <2>2. \A r \in DOMAIN y.sealing : r \in DOMAIN w.rows /\ Fits(y.sealing[r], r, w)
    BY <1>1, <1>8
  <2>3. y.dirty \subseteq DOMAIN y.held /\ y.generation <= w.generation
    BY <1>1, <1>13
  <2>4. DOMAIN y.known = DOMAIN w.rows \cup y.dirty /\ y.dirty \cap DOMAIN w.rows = {}
    BY <1>1, <1>12
  <2> HIDE DEF Fits, z
  <2> QED
    BY <1>10, <1>11, <1>13, <2>1, <2>2, <2>3, <2>4 DEF SessionFits
<1> QED
  BY <1>14 DEF y, w

(* A write leaves what was right right.                                    *)
LEMMA WrittenIsRight ==
  ASSUME StoreFits, NEW s \in Sessions, session[s] # Nothing, session[s].generation = file.generation, NEW early,
         damage = 0
  PROVE  \A r \in DOMAIN Written(s, early).rows : Written(s, early).rows[r].text = "right"
<1>1. FileFits(file) /\ SessionFits(session[s], file) /\ \A r \in DOMAIN file.rows : file.rows[r].text = "right"
  BY DEF StoreFits
<1> DEFINE w == Written(s, early)
<1>2. /\ DOMAIN w.rows = Pending(s) \cup DOMAIN file.rows
      /\ \A r \in Pending(s) : w.rows[r] = Row(KeptForm(r))
      /\ \A r \in DOMAIN file.rows \ Pending(s) : w.rows[r] = file.rows[r]
  BY <1>1, WrittenExtends
<1> HIDE DEF w
<1>3. ASSUME NEW r \in DOMAIN w.rows PROVE w.rows[r].text = "right"
  <2>1. CASE r \in Pending(s)
    <3>1. w.rows[r] = Row(KeptForm(r))
      BY <1>2, <2>1
    <3> QED
      BY <3>1 DEF Row
  <2>2. CASE r \notin Pending(s)
    BY <1>1, <1>2, <2>2
  <2> QED
    BY <2>1, <2>2
<1> QED
  BY <1>3 DEF w

(* A write.                                                                *)
LEMMA PersistKeeps ==
  ASSUME StoreFits, NEW s \in Sessions, Persist(s)
  PROVE  StoreFits'
<1>1. PICK early \in SUBSET MayGoEarly(s) : file' = Written(s, early) /\ Become(s, AfterWrite(s, early))
  BY DEF Persist
<1>2. session[s] # Nothing /\ session[s].generation = file.generation /\ damage' = damage
  BY DEF Persist, CanWrite
<1>3. FileFits(file) /\ SessionFits(session[s], file)
  BY <1>2 DEF StoreFits
<1>4. PICK e : e = file' /\ e = Written(s, early)
  BY <1>1
<1>5. FileFits(e) /\ Extends(file, e) /\ SessionFits(AfterWrite(s, early), e)
  BY <1>2, <1>3, <1>4, WrittenFits, WrittenExtends, AfterWriteFits
<1>6. damage = 0 => \A r \in DOMAIN e.rows : e.rows[r].text = "right"
  BY <1>2, <1>4, WrittenIsRight
<1>7. PICK y : y = AfterWrite(s, early)
  OBVIOUS
<1>8. SessionFits(y, e) /\ Become(s, y)
  BY <1>1, <1>5, <1>7
<1>9. /\ session' = [t \in Sessions |-> session'[t]]
      /\ \A t \in Sessions : session'[t] # Nothing => SessionFits(session'[t], e)
  BY <1>4, <1>5, <1>8, BecomesFit
<1> QED
  BY <1>2, <1>4, <1>5, <1>6, <1>9 DEF StoreFits

(* A write that failed, or whose effect was not learned: the session is    *)
(* the one that opens the file as it is, or keeps its change.              *)
LEMMA PersistFailsKeeps ==
  ASSUME StoreFits, NEW s \in Sessions, PersistFails(s)
  PROVE  StoreFits'
<1>1. session[s] # Nothing /\ damage' = damage
  BY DEF PersistFails
<1>2. FileFits(file) /\ SessionFits(session[s], file)
  BY <1>1 DEF StoreFits
<1>3. PICK e : e = file'
  OBVIOUS
<1>4. FileFits(e) /\ Extends(file, e) /\ (damage = 0 => \A r \in DOMAIN e.rows : e.rows[r].text = "right")
  <2>1. CASE e = file
    BY <1>2, <2>1, ExtendsItself DEF StoreFits
  <2>2. CASE CanWrite(s) /\ \E early \in SUBSET MayGoEarly(s) : e = Written(s, early)
    <3>1. PICK early : e = Written(s, early)
      BY <2>2
    <3>2. session[s].generation = file.generation
      BY <2>2 DEF CanWrite
    <3> QED
      BY <1>1, <1>2, <3>1, <3>2, WrittenFits, WrittenExtends, WrittenIsRight
  <2> QED
    BY <1>3, <2>1, <2>2 DEF PersistFails
<1>5. PICK y : y = IF Opens(e, Trusted(e)) THEN Opened(e, Trusted(e)) ELSE [session[s] EXCEPT !.writing = FALSE]
  OBVIOUS
<1>6. Become(s, y)
  BY <1>3, <1>5 DEF PersistFails
<1>7. SessionFits(y, e)
  <2>1. CASE Opens(e, Trusted(e))
    BY <1>4, <1>5, <2>1, TrustedIsSealed, OpenedFits
  <2>2. CASE ~Opens(e, Trusted(e))
    <3> DEFINE z == session[s]
    <3>1. SessionFits(z, e)
      BY <1>2, <1>4, SessionStill
    <3>2. y = [z EXCEPT !.writing = FALSE]
      BY <1>5, <2>2
    <3> HIDE DEF z
    <3>3. /\ y = [known |-> y.known, held |-> y.held, reader |-> y.reader, dirty |-> y.dirty, writing |-> y.writing,
                  sealing |-> y.sealing, generation |-> y.generation, ready |-> y.ready]
          /\ y.known = z.known /\ y.held = z.held /\ y.reader = z.reader /\ y.dirty = z.dirty
          /\ y.sealing = z.sealing /\ y.generation = z.generation /\ y.ready = z.ready
      BY <3>1, <3>2 DEF SessionFits
    <3> HIDE DEF Fits
    <3> QED
      BY <3>1, <3>3 DEF SessionFits
  <2> QED
    BY <2>1, <2>2
<1>8. /\ session' = [t \in Sessions |-> session'[t]]
      /\ \A t \in Sessions : session'[t] # Nothing => SessionFits(session'[t], e)
  BY <1>3, <1>4, <1>6, <1>7, BecomesFit
<1> QED
  BY <1>1, <1>3, <1>4, <1>8 DEF StoreFits

(* An audit seals what it validated.                                       *)
LEMMA AuditKeeps ==
  ASSUME StoreFits, NEW s \in Sessions, NEW reseal, Audit(s, reseal)
  PROVE  StoreFits'
<1> DEFINE z == session[s]
           seals == NewSeals(file, AuditTrusts)
           differs == {r \in DOMAIN seals : SealIn(file.seals, r) # seals[r]}
           sealing == IF reseal /\ file.version = 3 THEN Restrict(seals, differs) ELSE <<>>
<1>1. FileFits(file) /\ file' = file /\ damage' = damage /\ SessionFits(z, file)
  BY DEF StoreFits, Audit, Ready
<1>2. Opens(file, AuditTrusts) /\ Become(s, [z EXCEPT !.sealing = sealing])
  BY DEF Audit
<1>3. file.version = 3 => \A r \in DOMAIN seals : r \in DOMAIN file.rows /\ Fits(seals[r], r, file)
  BY <1>1, <1>2, OpenedFits DEF AuditTrusts
<1>4. \A r \in DOMAIN sealing : r \in DOMAIN file.rows /\ Fits(sealing[r], r, file)
  <2> HIDE DEF seals, Fits
  <2> QED
    BY <1>3 DEF Restrict
<1> HIDE DEF sealing
<1>5. SessionFits([z EXCEPT !.sealing = sealing], file)
  BY <1>1, <1>4, Resealed
<1>6. Extends(file, file)
  BY <1>1, ExtendsItself
<1>7. /\ session' = [t \in Sessions |-> session'[t]]
      /\ \A t \in Sessions : session'[t] # Nothing => SessionFits(session'[t], file)
  BY <1>1, <1>2, <1>5, <1>6, BecomesFit
<1> QED
  BY <1>1, <1>7 DEF StoreFits

(* What was right is not right any more, or a seal is gone: no seal stands *)
(* for a row in another form.                                              *)
LEMMA DamageKeeps ==
  ASSUME StoreFits, Damage
  PROVE  StoreFits'
<1>1. FileFits(file) /\ damage \in Nat /\ damage' = damage + 1 /\ session' = session
  BY DEF StoreFits, Damage
<1>2. PICK e : e = file'
  OBVIOUS
<1>3. PICK r \in DOMAIN file.rows :
        \/ \E text \in {"respelled", "wrong"} : file.rows[r].text = "right" /\ e = [file EXCEPT !.rows[r].text = text]
        \/ r \in DOMAIN file.seals /\ e = [file EXCEPT !.seals = Restrict(file.seals, DOMAIN file.seals \ {r})]
  BY <1>2 DEF Damage
<1>4. FileFits(e) /\ Extends(file, e)
  <2>1. ASSUME NEW text \in {"respelled", "wrong"}, file.rows[r].text = "right", e = [file EXCEPT !.rows[r].text = text]
        PROVE  FileFits(e) /\ Extends(file, e)
    <3>1. /\ e = [version |-> e.version, generation |-> e.generation, rows |-> e.rows, seals |-> e.seals]
          /\ e.version = file.version /\ e.generation = file.generation /\ e.seals = file.seals
          /\ e.rows = [file.rows EXCEPT ![r] = [file.rows[r] EXCEPT !.text = text]]
      BY <1>1, <2>1 DEF FileFits
    <3>2. file.rows[r] \in Rows
      BY <1>1 DEF FileFits
    <3>3. /\ DOMAIN e.rows = DOMAIN file.rows
          /\ \A a \in DOMAIN file.rows : a # r => e.rows[a] = file.rows[a]
          /\ e.rows[r] \in Rows /\ e.rows[r].form = file.rows[r].form /\ e.rows[r].text = text
      BY <3>1, <3>2 DEF Rows
    <3>4. \A a \in DOMAIN file.rows : /\ e.rows[a].form = file.rows[a].form
                                     /\ file.rows[a].text # "right" => e.rows[a].text # "right"
      BY <3>3
    <3>5. Extends(file, e)
      BY <3>1, <3>3, <3>4 DEF Extends
    <3>6. \A a \in DOMAIN e.seals : a \in DOMAIN e.rows /\ Fits(e.seals[a], a, e)
      <4>1. \A a \in DOMAIN file.seals : a \in Revisions /\ a \in DOMAIN file.rows /\ Fits(file.seals[a], a, file)
        BY <1>1 DEF FileFits
      <4> QED
        BY <3>1, <3>3, <3>5, <4>1, FitsStill
    <3>7. \A a \in DOMAIN e.rows : e.rows[a] \in Rows
      BY <1>1, <3>3 DEF FileFits
    <3> HIDE DEF Fits
    <3> QED
      BY <1>1, <3>1, <3>3, <3>4, <3>5, <3>6, <3>7 DEF FileFits
  <2>2. ASSUME r \in DOMAIN file.seals, e = [file EXCEPT !.seals = Restrict(file.seals, DOMAIN file.seals \ {r})]
        PROVE  FileFits(e) /\ Extends(file, e)
    <3>1. /\ e = [version |-> e.version, generation |-> e.generation, rows |-> e.rows, seals |-> e.seals]
          /\ e.version = file.version /\ e.generation = file.generation /\ e.rows = file.rows
          /\ DOMAIN e.seals \subseteq DOMAIN file.seals /\ \A a \in DOMAIN e.seals : e.seals[a] = file.seals[a]
      BY <1>1, <2>2 DEF FileFits, Restrict
    <3>2. \A seal, a : Fits(seal, a, file) <=> Fits(seal, a, e)
      BY <3>1 DEF Fits
    <3>3. Extends(file, e)
      BY <3>1 DEF Extends
    <3> HIDE DEF Fits
    <3> QED
      BY <1>1, <3>1, <3>2, <3>3 DEF FileFits
  <2> QED
    BY <1>3, <2>1, <2>2
<1>5. \A s \in Sessions : session[s] # Nothing => SessionFits(session[s], e)
  BY <1>1, <1>4, SessionStill DEF StoreFits
<1>6. damage' \in Nat /\ damage' # 0
  BY <1>1
<1> QED
  BY <1>1, <1>2, <1>4, <1>5, <1>6 DEF StoreFits

(* Every step keeps the invariant.                                         *)
LEMMA StoreFitsNext == StoreFits /\ [StoreNext]_storeVars => StoreFits'
<1> SUFFICES ASSUME StoreFits, [StoreNext]_storeVars PROVE StoreFits'
  OBVIOUS
<1>1. CASE UNCHANGED storeVars
  BY <1>1 DEF StoreFits, storeVars
<1>2. CASE StoreNext
  BY <1>2, StartKeeps, WriteSealsKeeps, KillKeeps, PersistKeeps, PersistFailsKeeps, ReadKeeps, ReviseKeeps,
     AuditKeeps, DamageKeeps DEF StoreNext
<1> QED
  BY <1>1, <1>2

(* So it holds throughout.                                                 *)
LEMMA StoreInvariant == StoreSpec => []StoreFits
BY StoreFitsInit, StoreFitsNext, PTL DEF StoreSpec

-----------------------------------------------------------------------------
(* What the invariant gives.                                               *)

(* Every revision a session knows is held, or in the file under a seal the *)
(* session has, with the very bytes of that seal unless something else     *)
(* changed them.                                                           *)
THEOREM RevisionsRead == StoreSpec => []EveryRevisionReads
<1>1. StoreFits => EveryRevisionReads
  <2> SUFFICES ASSUME StoreFits, NEW s \in Running, NEW r \in DOMAIN session[s].known, r \notin DOMAIN session[s].held
               PROVE  /\ session[s].reader /\ session[s].known[r].seal # Nothing /\ r \in DOMAIN file.rows
                      /\ file.rows[r].text = "right" => file.rows[r] = session[s].known[r].seal[r]
    BY DEF EveryRevisionReads
  <2> DEFINE seal == session[s].known[r].seal
  <2>1. FileFits(file) /\ SessionFits(session[s], file)
    BY DEF StoreFits, Running
  <2>2. session[s].reader /\ seal # Nothing /\ r \in Revisions /\ Fits(seal, r, file)
    BY <2>1 DEF SessionFits
  <2>3. /\ r \in DOMAIN file.rows /\ seal[r] \in Rows /\ file.rows[r] \in Rows
        /\ seal[r].form = KeptForm(r) /\ file.rows[r].form = KeptForm(r) /\ seal[r].text # "wrong"
        /\ seal[r].text = "respelled" => file.rows[r].text # "right"
    BY <2>1, <2>2, AncestryFacts DEF Fits, FileFits
  <2> HIDE DEF seal
  <2>4. file.rows[r].text = "right" => file.rows[r] = seal[r]
    BY <2>3 DEF Rows
  <2> QED
    BY <2>2, <2>3, <2>4 DEF seal
<1> QED
  BY <1>1, StoreInvariant, PTL

(* A session serves what was accepted, and no seal stands for a wrong row. *)
THEOREM AcceptedServed == StoreSpec => []ServesAccepted
<1>1. StoreFits => ServesAccepted
  <2> SUFFICES ASSUME StoreFits PROVE ServesAccepted
    OBVIOUS
  <2>1. FileFits(file)
    BY DEF StoreFits
  <2>2. ASSUME NEW r \in Revisions, NEW seal, Fits(seal, r, file) PROVE \A a \in DOMAIN seal : seal[a].text # "wrong"
    BY <2>2 DEF Fits
  <2>3. ASSUME NEW r \in DOMAIN file.seals PROVE \A a \in DOMAIN file.seals[r] : file.seals[r][a].text # "wrong"
    BY <2>1, <2>2 DEF FileFits
  <2>4. ASSUME NEW s \in Running
        PROVE  /\ \A r \in DOMAIN session[s].ready : session[s].ready[r]
               /\ \A r \in DOMAIN session[s].known :
                    session[s].known[r].seal = Nothing
                    \/ \A a \in DOMAIN session[s].known[r].seal : session[s].known[r].seal[a].text # "wrong"
    <3>1. SessionFits(session[s], file)
      BY DEF StoreFits, Running
    <3> QED
      BY <2>2, <3>1 DEF SessionFits
  <2> QED
    BY <2>3, <2>4 DEF ServesAccepted
<1> QED
  BY <1>1, StoreInvariant, PTL

(* Without changes from outside, all seals of a revision stand for the     *)
(* rows its ancestry is kept in, so whichever sessions wrote them, they    *)
(* name each other: what was sealed is trusted.                            *)
THEOREM SealsTrusted == StoreSpec => []SealedOnce
<1>1. StoreFits => SealedOnce
  <2> SUFFICES ASSUME StoreFits, damage = 0, NEW r \in DOMAIN file.seals, Ancestry[r] \subseteq DOMAIN file.seals
               PROVE  r \in Trusted(file)
    BY DEF SealedOnce
  <2>1. FileFits(file) /\ \A a \in DOMAIN file.rows : file.rows[a].text = "right"
    BY DEF StoreFits
  <2>2. r \in Revisions /\ r \in DOMAIN file.rows /\ Ancestry[r] \subseteq Revisions
    BY <2>1, AncestryFacts DEF FileFits
  <2>3. ASSUME NEW a \in Ancestry[r]
        PROVE  /\ a \in DOMAIN file.rows /\ file.rows[a] = Row(KeptForm(a))
               /\ file.seals[a] = [x \in Ancestry[a] |-> Row(KeptForm(x))]
    <3>1. a \in Revisions /\ a \in DOMAIN file.rows /\ Fits(file.seals[a], a, file)
      BY <2>1, <2>2 DEF FileFits
    <3>2. \A x \in Ancestry[a] : file.seals[a][x] = Row(KeptForm(x))
      <4> TAKE x \in Ancestry[a]
      <4>1. /\ file.seals[a][x] \in Rows /\ file.seals[a][x].form = KeptForm(x) /\ file.seals[a][x].text # "wrong"
            /\ file.seals[a][x].text # "respelled"
        BY <2>1, <3>1 DEF Fits
      <4> QED
        BY <4>1 DEF Rows, Row
    <3>3. file.rows[a] \in Rows /\ file.rows[a].form = KeptForm(a) /\ file.rows[a].text = "right"
      BY <2>1, <3>1 DEF FileFits, Fits
    <3>4. file.rows[a] = Row(KeptForm(a))
      BY <3>3 DEF Rows, Row
    <3> QED
      BY <3>1, <3>2, <3>4 DEF Fits
  <2>4. ASSUME NEW a \in Ancestry[r]
        PROVE  /\ a \in DOMAIN file.rows /\ UsableSeal(file, a)
               /\ file.seals[a] = Seal(a, file.seals[a][a], ParentSeal(file.seals, a))
    <3>1. /\ a \in DOMAIN file.rows /\ a \in DOMAIN file.seals /\ a \in Revisions /\ a \in Ancestry[a]
          /\ file.rows[a] = Row(KeptForm(a)) /\ file.seals[a][a] = Row(KeptForm(a))
          /\ file.seals[a] = [x \in Ancestry[a] |-> Row(KeptForm(x))]
      BY <2>2, <2>3, AncestryFacts
    <3>2. UsableSeal(file, a)
      BY <3>1 DEF UsableSeal, SameLength
    <3>3. CASE Previous[a] = Nothing
      <4>1. Seal(a, file.seals[a][a], ParentSeal(file.seals, a)) = [x \in {a} |-> Row(KeptForm(a))]
        BY <3>1, <3>3 DEF Seal, Only
      <4>2. Ancestry[a] = {a}
        BY <3>1, <3>3, AncestryFacts
      <4> QED
        BY <3>1, <3>2, <4>1, <4>2
    <3>4. CASE Previous[a] # Nothing
      <4> DEFINE b == Previous[a]
      <4>1. b \in Ancestry[r] /\ Ancestry[a] = {a} \cup Ancestry[b]
        BY <2>2, <3>1, <3>4, AncestryFacts, AncestryGoesDown
      <4>2. ParentSeal(file.seals, a) = file.seals[b] /\ file.seals[b] = [x \in Ancestry[b] |-> Row(KeptForm(x))]
        BY <2>3, <3>4, <4>1 DEF ParentSeal, SealIn
      <4>3. file.seals[b] # Nothing
        <5>1. b \in Revisions /\ Fits(file.seals[b], b, file)
          BY <2>1, <2>2, <4>1 DEF FileFits
        <5> QED
          BY <5>1, FitsIsSeal
      <4>4. Seal(a, file.seals[a][a], ParentSeal(file.seals, a)) = Over(Only(a, Row(KeptForm(a))), file.seals[b])
        BY <3>1, <3>4, <4>2, <4>3 DEF Seal
      <4> HIDE DEF b
      <4>5. Over(Only(a, Row(KeptForm(a))), file.seals[b]) = [x \in Ancestry[a] |-> Row(KeptForm(x))]
        BY <4>1, <4>2 DEF Over, Only
      <4> QED
        BY <3>1, <3>2, <4>4, <4>5
    <3> QED
      BY <3>3, <3>4
  <2> QED
    BY <2>2, <2>4 DEF Trusted
<1> QED
  BY <1>1, StoreInvariant, PTL
===============================================================================
