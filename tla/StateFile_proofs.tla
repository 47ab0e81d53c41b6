--------------------------- MODULE StateFile_proofs ---------------------------
(***************************************************************************)
(* Proofs about sessions that share a state file, for every set of         *)
(* sessions and of writes and any number of kills.                         *)
(***************************************************************************)
EXTENDS StateFile, TLAPS

(* The part of a session's state that loading and answering may change.    *)
SessionTyped ==
  /\ pc \in [Sessions -> Steps]
  /\ memory \in [Sessions -> Memory]
  /\ dirty \in [Sessions -> SUBSET Writes]
  /\ write \in [Sessions -> Writes \cup {NoWrite}]
  /\ failure \in [Sessions -> Failures]
  /\ existed \in [Sessions -> BOOLEAN]
  /\ attempted \in [Sessions -> BOOLEAN]
  /\ opened \in [Sessions -> {0} \cup Files]
  /\ verdict \in [Writes -> Verdicts]

FileTyped ==
  /\ path \in {0} \cup Files
  /\ disk \in [Files -> File]
  /\ lock \in [Files -> Sessions \cup {NoSession}]
  /\ kills \in 0..MaxKills

(* A failed command is told one of the verdicts on failures.               *)
LEMMA FailureVerdictTyped ==
  \A p, reloaded, generation :
     FailureVerdict(p, reloaded, generation) \in {"error", "persistence_error", "persistence_uncertain"}
BY DEF FailureVerdict

(* A file that is opened or created is one of the files.                   *)
LEMMA OpenOrCreateTyped ==
  ASSUME Typed, NEW p \in Sessions, OpenOrCreate(p)
  PROVE  path' \in Files /\ opened' = [opened EXCEPT ![p] = path']
BY DEF OpenOrCreate, Unused, Typed

(* A commit stores a generation and a sequence of commits.                 *)
LEMMA CommitTyped ==
  ASSUME Typed, NEW p \in Sessions, TakeEffect(p)
  PROVE  disk' \in [Files -> File]
<1>1. CASE opened[p] \in Files
  <2>1. disk[opened[p]] \in File /\ memory[p] \in Memory /\ dirty[p] \in SUBSET Writes
    BY <1>1 DEF Typed
  <2>2. memory[p].generation + 1 \in Nat /\ disk[opened[p]].commits \in Seq(SUBSET Writes)
    BY <2>1 DEF File, Memory
  <2>3. Append(disk[opened[p]].commits, dirty[p]) \in Seq(SUBSET Writes)
    BY <2>1, <2>2
  <2>4. WithCommit(p) \in File
    BY <2>2, <2>3 DEF WithCommit, File, Schemas
  <2> QED
    BY <2>4 DEF TakeEffect, Typed
<1>2. CASE opened[p] \notin Files
  <2>1. disk' = disk
    BY <1>2 DEF TakeEffect, Typed
  <2> QED
    BY <2>1 DEF Typed
<1> QED
  BY <1>1, <1>2

(* Answering a command keeps the session well formed.                      *)
LEMMA AnswerTyped ==
  ASSUME Typed, NEW p \in Sessions, NEW v \in Verdicts, Answer(p, v),
         memory' \in [Sessions -> Memory], dirty' \in [Sessions -> SUBSET Writes]
  PROVE  SessionTyped'
BY DEF Typed, Answer, Goto, Steps, Failures, SessionTyped

(* A load that succeeds keeps the session well formed.                     *)
LEMMA LoadedTyped ==
  ASSUME Typed, NEW p \in Sessions, NEW m \in Memory, Loaded(p, m)
  PROVE  SessionTyped'
<1>1. memory' \in [Sessions -> Memory] /\ dirty' \in [Sessions -> SUBSET Writes]
  BY DEF Loaded, Typed
<1>2. CASE write[p] = NoWrite
  BY <1>1, <1>2 DEF Loaded, SessionTyped, Typed, Goto, Steps
<1>3. CASE Answer(p, FailureVerdict(p, TRUE, m.generation))
  BY <1>1, <1>3, AnswerTyped, FailureVerdictTyped DEF Verdicts
<1> QED
  BY <1>2, <1>3 DEF Loaded

(* A load that fails keeps the session well formed.                        *)
LEMMA NotLoadedTyped ==
  ASSUME Typed, NEW p \in Sessions, NotLoaded(p)
  PROVE  SessionTyped'
<1>1. memory' \in [Sessions -> Memory] /\ dirty' \in [Sessions -> SUBSET Writes]
  BY DEF NotLoaded, Typed
<1>2. CASE write[p] = NoWrite
  BY <1>1, <1>2 DEF NotLoaded, SessionTyped, Typed, Goto, Steps
<1>3. CASE Answer(p, FailureVerdict(p, FALSE, memory[p].generation))
  BY <1>1, <1>3, AnswerTyped, FailureVerdictTyped DEF Verdicts
<1> QED
  BY <1>2, <1>3 DEF NotLoaded

(* A session without a file, and one that was read from it.                *)
LEMMA MemoryTyped ==
  ASSUME Typed
  PROVE  /\ NewMemory \in Memory
         /\ \A f \in Files :
              [generation |-> disk[f].generation, commits |-> disk[f].commits] \in Memory
         /\ \A p \in Sessions :
              [generation |-> memory[p].generation + 1,
               commits    |-> Append(memory[p].commits, dirty[p])] \in Memory
<1>1. NewMemory \in Memory
  BY DEF NewMemory, Memory
<1>2. ASSUME NEW f \in Files
      PROVE  [generation |-> disk[f].generation, commits |-> disk[f].commits] \in Memory
  BY DEF Typed, File, Memory
<1>3. ASSUME NEW p \in Sessions
      PROVE  [generation |-> memory[p].generation + 1,
              commits    |-> Append(memory[p].commits, dirty[p])] \in Memory
  <2>1. memory[p] \in Memory /\ dirty[p] \in SUBSET Writes
    BY DEF Typed
  <2>2. Append(memory[p].commits, dirty[p]) \in Seq(SUBSET Writes) /\ memory[p].generation + 1 \in Nat
    BY <2>1 DEF Memory
  <2> QED
    BY <2>2 DEF Memory
<1> QED
  BY <1>1, <1>2, <1>3

(* A step of one session after another keeps every variable in its set.    *)
LEMMA StepsAreTyped == Typed /\ [Next]_vars => Typed'
<1> SUFFICES ASSUME Typed, [Next]_vars PROVE Typed'
  OBVIOUS
<1> USE StateFileAssumption
<1> DEFINE Kept == SessionTyped' /\ FileTyped'
<1>typed. Kept => Typed'
  BY DEF SessionTyped, FileTyped, Typed
<1>1. ASSUME NEW p \in Sessions, NEW w \in Writes, Change(p, w) PROVE Typed'
  <2>1. FileTyped'
    BY <1>1 DEF Change, fileVars, Typed, FileTyped
  <2>2. pc' \in [Sessions -> Steps] /\ failure' \in [Sessions -> Failures]
    BY <1>1 DEF Change, Goto, Steps, Failures, Typed
  <2>3. /\ memory' = memory /\ existed' = existed /\ attempted' = attempted /\ opened' = opened
        /\ dirty' = [dirty EXCEPT ![p] = @ \cup {w}]
        /\ write' = [write EXCEPT ![p] = w]
        /\ verdict' = [verdict EXCEPT ![w] = "running"]
    BY <1>1 DEF Change
  <2>4. SessionTyped'
    BY <2>2, <2>3 DEF Typed, SessionTyped, Verdicts
  <2> QED
    BY <1>typed, <2>1, <2>4
<1>2. ASSUME NEW p \in Sessions, Start(p) PROVE Typed'
  <2>1. Goto(p, "ready") \/ Goto(p, "identify")
    BY <1>2 DEF Start
  <2>2. NewMemory \in Memory
    BY MemoryTyped
  <2> QED
    BY <1>2, <2>1, <2>2 DEF Start, Goto, Steps, fileVars, Typed
<1>3. ASSUME NEW p \in Sessions, Recover(p) PROVE Typed'
  <2>1. FileTyped'
    BY <1>3 DEF Recover, fileVars, Typed, FileTyped
  <2>2. CASE Loaded(p, NewMemory)
    BY <1>typed, <2>1, <2>2, LoadedTyped, MemoryTyped
  <2>3. CASE Goto(p, "identify") /\ UNCHANGED <<memory, dirty, write, failure, existed, attempted, opened, verdict>>
    <3>1. SessionTyped'
      BY <2>3 DEF Goto, Steps, Typed, SessionTyped
    <3> QED
      BY <1>typed, <2>1, <3>1
  <2> QED
    BY <1>3, <1>typed, <2>1, <2>2, <2>3 DEF Recover
<1>4. ASSUME NEW p \in Sessions, Identify(p) PROVE Typed'
  BY <1>4 DEF Identify, Goto, Steps, fileVars, Typed
<1>5. ASSUME NEW p \in Sessions, IdentifyFails(p) PROVE Typed'
  <2>1. FileTyped'
    BY <1>5 DEF IdentifyFails, fileVars, Typed, FileTyped
  <2> QED
    BY <1>5, <1>typed, <2>1, NotLoadedTyped DEF IdentifyFails
<1>6. ASSUME NEW p \in Sessions, Snapshot(p) PROVE Typed'
  <2>1. FileTyped'
    BY <1>6 DEF Snapshot, fileVars, Typed, FileTyped
  <2>2. path \in Files
    BY <1>6 DEF Snapshot, Readable, Typed
  <2> QED
    BY <1>6, <1>typed, <2>1, <2>2, LoadedTyped, MemoryTyped DEF Snapshot
<1>7. ASSUME NEW p \in Sessions, SnapshotFails(p) PROVE Typed'
  <2>1. FileTyped'
    BY <1>7 DEF SnapshotFails, Unused, Typed, FileTyped
  <2> QED
    BY <1>7, <1>typed, <2>1, NotLoadedTyped DEF SnapshotFails
<1>8. ASSUME NEW p \in Sessions, Probe(p) PROVE Typed'
  BY <1>8 DEF Probe, Goto, Steps, fileVars, Typed
<1>9. ASSUME NEW p \in Sessions, ProbeFails(p) PROVE Typed'
  BY <1>9 DEF ProbeFails, Fail, Goto, Steps, Failures, Typed
<1>10. ASSUME NEW p \in Sessions, Open(p) PROVE Typed'
  <2>1. path' \in Files /\ opened' = [opened EXCEPT ![p] = path']
    BY <1>10, OpenOrCreateTyped DEF Open
  <2>2. SessionTyped'
    BY <1>10, <2>1 DEF Open, Goto, Steps, Typed, SessionTyped
  <2>3. FileTyped'
    BY <1>10, <2>1 DEF Open, Typed, FileTyped
  <2> QED
    BY <1>typed, <2>2, <2>3
<1>11. ASSUME NEW p \in Sessions, OpenFails(p) PROVE Typed'
  <2>1. path' \in {0} \cup Files /\ opened' \in [Sessions -> {0} \cup Files]
    <3>1. CASE OpenOrCreate(p)
      <4>1. path' \in Files /\ opened' = [opened EXCEPT ![p] = path']
        BY <3>1, OpenOrCreateTyped
      <4> QED
        BY <4>1 DEF Typed
    <3>2. CASE UNCHANGED <<path, opened>>
      BY <3>2 DEF Typed
    <3> QED
      BY <1>11, <3>1, <3>2 DEF OpenFails
  <2>2. SessionTyped'
    BY <1>11, <2>1 DEF OpenFails, Fail, Failures, Goto, Steps, Typed, SessionTyped
  <2>3. FileTyped'
    BY <1>11, <2>1 DEF OpenFails, Fail, Typed, FileTyped
  <2> QED
    BY <1>typed, <2>2, <2>3
<1>12. ASSUME NEW p \in Sessions, Begin(p) PROVE Typed'
  BY <1>12 DEF Begin, Goto, Steps, Typed
<1>13. ASSUME NEW p \in Sessions, WriteFails(p) PROVE Typed'
  BY <1>13 DEF WriteFails, Fail, Goto, Steps, Failures, Typed
<1>14. ASSUME NEW p \in Sessions, Commit(p) PROVE Typed'
  <2>1. disk' \in [Files -> File]
    BY <1>14, CommitTyped DEF Commit
  <2>2. SessionTyped'
    BY <1>14 DEF Commit, TakeEffect, Goto, Steps, Typed, SessionTyped
  <2>3. FileTyped'
    BY <1>14, <2>1 DEF Commit, TakeEffect, Typed, FileTyped
  <2> QED
    BY <1>typed, <2>2, <2>3
<1>15. ASSUME NEW p \in Sessions, CommitFails(p) PROVE Typed'
  <2>1. CASE TakeEffect(p) /\ failure' = [failure EXCEPT ![p] = "write"] /\ Goto(p, "cleanup")
    <3>1. disk' \in [Files -> File]
      BY <2>1, CommitTyped
    <3>2. SessionTyped'
      BY <2>1 DEF TakeEffect, Goto, Steps, Failures, Typed, SessionTyped
    <3>3. FileTyped'
      BY <2>1, <3>1 DEF TakeEffect, Typed, FileTyped
    <3> QED
      BY <1>typed, <3>2, <3>3
  <2>2. CASE Fail(p, "cleanup") /\ attempted' = [attempted EXCEPT ![p] = TRUE] /\ UNCHANGED <<path, opened>>
    BY <2>2, <1>typed DEF Fail, Goto, Steps, Failures, Typed, SessionTyped, FileTyped
  <2> QED
    BY <1>15, <2>1, <2>2 DEF CommitFails
<1>16. ASSUME NEW p \in Sessions, Harden(p) PROVE Typed'
  <2>1. memory' \in [Sessions -> Memory] /\ dirty' \in [Sessions -> SUBSET Writes]
    <3>1. [generation |-> memory[p].generation + 1,
           commits    |-> Append(memory[p].commits, dirty[p])] \in Memory
      BY MemoryTyped
    <3> QED
      BY <1>16, <3>1 DEF Harden, Typed
  <2>2. "ok" \in Verdicts
    BY DEF Verdicts
  <2>3. SessionTyped'
    BY <1>16, <2>1, <2>2, AnswerTyped DEF Harden
  <2>4. FileTyped'
    BY <1>16 DEF Harden, fileVars, Typed, FileTyped
  <2> QED
    BY <1>typed, <2>3, <2>4
<1>17. ASSUME NEW p \in Sessions, HardenFails(p) PROVE Typed'
  BY <1>17 DEF HardenFails, Fail, Goto, Steps, Failures, Typed
<1>18. ASSUME NEW p \in Sessions, Cleanup(p) PROVE Typed'
  BY <1>18 DEF Cleanup, Goto, Steps, Typed
<1>19. ASSUME NEW p \in Sessions, Kill(p) PROVE Typed'
  BY <1>19 DEF Kill, NewMemory, Memory, Goto, Steps, Failures, Verdicts, Typed
<1>20. CASE UNCHANGED vars
  BY <1>20 DEF vars, Typed
<1> QED
  BY <1>1, <1>2, <1>3, <1>4, <1>5, <1>6, <1>7, <1>8, <1>9, <1>10, <1>11, <1>12, <1>13, <1>14, <1>15, <1>16, <1>17, <1>18, <1>19, <1>20 DEF Next, Proceed

(* A load ends by answering the command it recovers from, or, where there  *)
(* is none, by opening the session or giving up.                           *)
LEMMA LoadEnds ==
  ASSUME NEW p, (\E m : Loaded(p, m)) \/ NotLoaded(p)
  PROVE  \/ /\ write[p] = NoWrite
            /\ Goto(p, "ready") \/ Goto(p, "down")
            /\ UNCHANGED <<write, failure, existed, attempted, opened, verdict>>
         \/ /\ write[p] # NoWrite
            /\ \E v \in {"error", "persistence_error", "persistence_uncertain"} : Answer(p, v)
<1>1. CASE write[p] = NoWrite
  BY <1>1 DEF Loaded, NotLoaded
<1>2. CASE write[p] # NoWrite
  <2>1. \E reloaded, generation : Answer(p, FailureVerdict(p, reloaded, generation))
    BY <1>2 DEF Loaded, NotLoaded
  <2> QED
    BY <1>2, <2>1, FailureVerdictTyped
<1> QED
  BY <1>1, <1>2

(* A session that waits for a load holds no lock before, nor after.        *)
LEMMA LoadKeepsLocks ==
  ASSUME TypeOK, NEW p \in Sessions, pc[p] \in {"recover", "identify", "snapshot"},
         (\E m : Loaded(p, m)) \/ NotLoaded(p), lock' = lock
  PROVE  Locks'
<1>1. CASE (Goto(p, "ready") \/ Goto(p, "down")) /\ opened' = opened
  BY <1>1 DEF TypeOK, Typed, Locks, Goto
<1>2. CASE \E v : Answer(p, v)
  BY <1>2 DEF TypeOK, Typed, Locks, Goto, Answer
<1> QED
  BY <1>1, <1>2, LoadEnds

(* An answered command has no session, and the others keep theirs.         *)
LEMMA LoadKeepsCommands ==
  ASSUME TypeOK, NEW p \in Sessions, pc[p] \in {"recover", "identify", "snapshot"},
         (\E m : Loaded(p, m)) \/ NotLoaded(p)
  PROVE  Commands'
<1>1. CASE /\ write[p] = NoWrite
           /\ Goto(p, "ready") \/ Goto(p, "down")
           /\ UNCHANGED <<write, failure, existed, attempted, opened, verdict>>
  BY <1>1 DEF TypeOK, Typed, Commands, Goto
<1>2. CASE write[p] # NoWrite /\ \E v : Answer(p, v)
  BY <1>2, StateFileAssumption DEF TypeOK, Typed, Commands, Goto, Answer
<1> QED
  BY <1>1, <1>2, LoadEnds

(* Whoever has a lock is in its transaction.                               *)
LEMMA StepsKeepLocks == TypeOK /\ [Next]_vars => Locks'
<1> SUFFICES ASSUME TypeOK, [Next]_vars PROVE Locks'
  OBVIOUS
<1> USE StateFileAssumption DEF TypeOK, Typed, Locks, Commands, Goto, fileVars
<1>1. ASSUME NEW p \in Sessions, NEW w \in Writes, Change(p, w) PROVE Locks'
  BY <1>1 DEF Change
<1>2. ASSUME NEW p \in Sessions, Start(p) PROVE Locks'
  BY <1>2 DEF Start
<1>3. ASSUME NEW p \in Sessions, Recover(p) PROVE Locks'
  <2>1. CASE Loaded(p, NewMemory)
    BY <1>3, <2>1, LoadKeepsLocks DEF Recover
  <2>2. CASE Goto(p, "identify") /\ UNCHANGED <<write, opened, verdict>>
    BY <1>3, <2>2 DEF Recover
  <2> QED
    BY <1>3, <2>1, <2>2 DEF Recover
<1>4. ASSUME NEW p \in Sessions, Identify(p) PROVE Locks'
  BY <1>4 DEF Identify
<1>5. ASSUME NEW p \in Sessions, IdentifyFails(p) PROVE Locks'
  BY <1>5, LoadKeepsLocks DEF IdentifyFails
<1>6. ASSUME NEW p \in Sessions, Snapshot(p) PROVE Locks'
  BY <1>6, LoadKeepsLocks DEF Snapshot
<1>7. ASSUME NEW p \in Sessions, SnapshotFails(p) PROVE Locks'
  BY <1>7, LoadKeepsLocks DEF SnapshotFails
<1>8. ASSUME NEW p \in Sessions, Probe(p) PROVE Locks'
  BY <1>8 DEF Probe
<1>9. ASSUME NEW p \in Sessions, ProbeFails(p) PROVE Locks'
  BY <1>9 DEF ProbeFails, Fail
<1>10. ASSUME NEW p \in Sessions, Open(p) PROVE Locks'
  <2>1. path' \in Files /\ opened' = [opened EXCEPT ![p] = path']
    BY <1>10, OpenOrCreateTyped DEF Open
  <2> QED
    BY <1>10, <2>1 DEF Open, Files
<1>11. ASSUME NEW p \in Sessions, OpenFails(p) PROVE Locks'
  BY <1>11 DEF OpenFails, OpenOrCreate, Fail
<1>12. ASSUME NEW p \in Sessions, Begin(p) PROVE Locks'
  BY <1>12 DEF Begin
<1>13. ASSUME NEW p \in Sessions, WriteFails(p) PROVE Locks'
  BY <1>13 DEF WriteFails, Fail
<1>14. ASSUME NEW p \in Sessions, Commit(p) PROVE Locks'
  BY <1>14 DEF Commit, TakeEffect
<1>15. ASSUME NEW p \in Sessions, CommitFails(p) PROVE Locks'
  BY <1>15 DEF CommitFails, TakeEffect, Fail
<1>16. ASSUME NEW p \in Sessions, Harden(p) PROVE Locks'
  BY <1>16 DEF Harden, Answer
<1>17. ASSUME NEW p \in Sessions, HardenFails(p) PROVE Locks'
  BY <1>17 DEF HardenFails, Fail
<1>18. ASSUME NEW p \in Sessions, Cleanup(p) PROVE Locks'
  BY <1>18 DEF Cleanup
<1>19. ASSUME NEW p \in Sessions, Kill(p) PROVE Locks'
  BY <1>19 DEF Kill
<1>20. CASE UNCHANGED vars
  BY <1>20 DEF vars
<1> QED
  BY <1>1, <1>2, <1>3, <1>4, <1>5, <1>6, <1>7, <1>8, <1>9, <1>10, <1>11, <1>12, <1>13, <1>14, <1>15, <1>16, <1>17, <1>18, <1>19, <1>20 DEF Next, Proceed

(* A command has one session, and is running until that session answers.   *)
LEMMA StepsKeepCommands == TypeOK /\ [Next]_vars => Commands'
<1> SUFFICES ASSUME TypeOK, [Next]_vars PROVE Commands'
  OBVIOUS
<1> USE StateFileAssumption DEF TypeOK, Typed, Commands, Goto
<1>1. ASSUME NEW p \in Sessions, NEW w \in Writes, Change(p, w) PROVE Commands'
  BY <1>1 DEF Change
<1>2. ASSUME NEW p \in Sessions, Start(p) PROVE Commands'
  BY <1>2 DEF Start
<1>3. ASSUME NEW p \in Sessions, Recover(p) PROVE Commands'
  <2>1. CASE Loaded(p, NewMemory)
    BY <1>3, <2>1, LoadKeepsCommands DEF Recover
  <2>2. CASE Goto(p, "identify") /\ UNCHANGED <<write, opened, verdict>>
    BY <1>3, <2>2 DEF Recover
  <2> QED
    BY <1>3, <2>1, <2>2 DEF Recover
<1>4. ASSUME NEW p \in Sessions, Identify(p) PROVE Commands'
  BY <1>4 DEF Identify
<1>5. ASSUME NEW p \in Sessions, IdentifyFails(p) PROVE Commands'
  BY <1>5, LoadKeepsCommands DEF IdentifyFails
<1>6. ASSUME NEW p \in Sessions, Snapshot(p) PROVE Commands'
  BY <1>6, LoadKeepsCommands DEF Snapshot
<1>7. ASSUME NEW p \in Sessions, SnapshotFails(p) PROVE Commands'
  BY <1>7, LoadKeepsCommands DEF SnapshotFails
<1>8. ASSUME NEW p \in Sessions, Probe(p) PROVE Commands'
  BY <1>8 DEF Probe
<1>9. ASSUME NEW p \in Sessions, ProbeFails(p) PROVE Commands'
  BY <1>9 DEF ProbeFails, Fail
<1>10. ASSUME NEW p \in Sessions, Open(p) PROVE Commands'
  BY <1>10 DEF Open
<1>11. ASSUME NEW p \in Sessions, OpenFails(p) PROVE Commands'
  BY <1>11 DEF OpenFails, OpenOrCreate, Fail
<1>12. ASSUME NEW p \in Sessions, Begin(p) PROVE Commands'
  BY <1>12 DEF Begin
<1>13. ASSUME NEW p \in Sessions, WriteFails(p) PROVE Commands'
  BY <1>13 DEF WriteFails, Fail
<1>14. ASSUME NEW p \in Sessions, Commit(p) PROVE Commands'
  BY <1>14 DEF Commit, TakeEffect
<1>15. ASSUME NEW p \in Sessions, CommitFails(p) PROVE Commands'
  BY <1>15 DEF CommitFails, TakeEffect, Fail
<1>16. ASSUME NEW p \in Sessions, Harden(p) PROVE Commands'
  BY <1>16 DEF Harden, Answer
<1>17. ASSUME NEW p \in Sessions, HardenFails(p) PROVE Commands'
  BY <1>17 DEF HardenFails, Fail
<1>18. ASSUME NEW p \in Sessions, Cleanup(p) PROVE Commands'
  BY <1>18 DEF Cleanup
<1>19. ASSUME NEW p \in Sessions, Kill(p) PROVE Commands'
  BY <1>19 DEF Kill
<1>20. CASE UNCHANGED vars
  BY <1>20 DEF vars
<1> QED
  BY <1>1, <1>2, <1>3, <1>4, <1>5, <1>6, <1>7, <1>8, <1>9, <1>10, <1>11, <1>12, <1>13, <1>14, <1>15, <1>16, <1>17, <1>18, <1>19, <1>20 DEF Next, Proceed

(* A refused, failed or lost command never leaves the control state, the   *)
(* locks or the verdicts out of step with each other.                      *)
THEOREM TypeInvariant == Spec => []TypeOK
<1>1. Init => TypeOK
  <2> SUFFICES ASSUME Init PROVE TypeOK
    OBVIOUS
  <2>1. path \in {0} \cup Files /\ disk \in [Files -> File]
    BY StateFileAssumption DEF Init, Files, File, NewFile, Schemas
  <2>2. Typed
    BY <2>1, StateFileAssumption DEF Init, Typed, Memory, NewMemory, Steps, Failures, Verdicts
  <2> QED
    BY <2>2, StateFileAssumption DEF Init, TypeOK, Locks, Commands
<1>2. TypeOK /\ [Next]_vars => TypeOK'
  BY StepsAreTyped, StepsKeepLocks, StepsKeepCommands DEF TypeOK
<1> QED
  BY <1>1, <1>2, PTL DEF Spec

-----------------------------------------------------------------------------
(* Sessions over a file that exists.  No cleanup removes it, so what each  *)
(* session knows of it can be stated.                                      *)

Found == "missing" \notin Starts

FileKept == path = 1 /\ disk[1].schema # "none" /\ disk[1].generation # 0

(* A session is never ahead of the file; while it is level, it holds what  *)
(* the file holds.  Its command is in the file only once COMMIT was        *)
(* attempted, and then the file is ahead of it.                            *)
Current(p) ==
  /\ memory[p].generation <= disk[1].generation
  /\ memory[p].generation = disk[1].generation => memory[p].commits = disk[1].commits
  /\ (write[p] # NoWrite /\ write[p] \in Stored)
       => attempted[p] /\ memory[p].generation < disk[1].generation

Writing(p) ==
  /\ pc[p] \in {"open", "begin", "commit", "harden", "cleanup"} => existed[p]
  /\ pc[p] \in {"begin", "commit", "harden"} => opened[p] = 1
  /\ pc[p] \in {"probe", "open", "begin", "commit"} => ~attempted[p]
  /\ pc[p] \in {"probe", "open", "begin", "commit", "harden"}
       => dirty[p] = {write[p]} /\ failure[p] = "none"
  /\ pc[p] = "commit" => lock[1] = p /\ memory[p].generation = disk[1].generation
  /\ pc[p] = "harden" =>
       /\ write[p] \in Stored
       /\ memory[p].generation + 1 = disk[1].generation
            => Append(memory[p].commits, dirty[p]) = disk[1].commits
  /\ failure[p] = "command" => ~attempted[p]
  /\ write[p] = NoWrite => ~attempted[p] /\ failure[p] = "none"

Told ==
  \A w \in Writes :
    /\ verdict[w] = "ok" => w \in Stored
    /\ verdict[w] \in {"unasked", "persistence_error", "error"} => w \notin Stored

Promises == FileKept /\ Told /\ \A p \in Sessions : Current(p) /\ Writing(p)

(* Nothing of the sessions other than p changes.                           *)
OthersStay(p) ==
  \A q \in Sessions \ {p} :
    /\ pc'[q] = pc[q] /\ memory'[q] = memory[q] /\ dirty'[q] = dirty[q]
    /\ write'[q] = write[q] /\ failure'[q] = failure[q] /\ existed'[q] = existed[q]
    /\ attempted'[q] = attempted[q] /\ opened'[q] = opened[q]
    /\ lock[1] = q => lock'[1] = q

(* The first file is one of the files.                                     *)
LEMMA FirstFile == 1 \in Files
BY StateFileAssumption DEF Files

(* A step of one session that leaves the file alone keeps what the other   *)
(* sessions know of it.                                                    *)
LEMMA QuietStepKeepsOthers ==
  ASSUME Promises, NEW p \in Sessions, NEW q \in Sessions \ {p},
         OthersStay(p), UNCHANGED <<path, disk>>
  PROVE  Current(q)' /\ Writing(q)'
<1>1. Stored' = Stored
  BY DEF Stored, Commits
<1>2. Current(q)'
  BY <1>1 DEF Promises, Current, OthersStay
<1>3. Writing(q)'
  BY <1>1 DEF Promises, Writing, OthersStay
<1> QED
  BY <1>2, <1>3

(* What was told stays true when the file is left alone and the one write  *)
(* that may be answered is answered truly.                                 *)
LEMMA QuietStepKeepsTold ==
  ASSUME TypeOK, Promises, NEW w, UNCHANGED <<path, disk>>,
         \A x \in Writes \ {w} : verdict'[x] = verdict[x],
         w \in Writes =>
           /\ verdict'[w] = "ok" => w \in Stored
           /\ verdict'[w] \in {"unasked", "persistence_error", "error"} => w \notin Stored
  PROVE  Told'
<1>1. Stored' = Stored
  BY DEF Stored, Commits
<1> QED
  BY <1>1 DEF Promises, Told

(* The file is left alone and so are the other sessions: what is left to   *)
(* show is about the session itself and what it tells.                     *)
LEMMA QuietStep ==
  ASSUME TypeOK, Promises, NEW p \in Sessions, OthersStay(p), UNCHANGED <<path, disk>>,
         Current(p)', Writing(p)', Told'
  PROVE  Promises'
<1>1. \A q \in Sessions : Current(q)' /\ Writing(q)'
  BY QuietStepKeepsOthers
<1> QED
  BY <1>1 DEF Promises, FileKept

(* A command refused or failed is not in the file: its COMMIT was not      *)
(* attempted, or the file read back is no later than the session's.        *)
LEMMA RefusalIsTrue ==
  ASSUME TypeOK, Promises, NEW p \in Sessions, write[p] # NoWrite,
         NEW reloaded \in BOOLEAN, NEW generation,
         reloaded => generation = disk[1].generation,
         FailureVerdict(p, reloaded, generation) \in {"persistence_error", "error"}
  PROVE  write[p] \notin Stored
<1> SUFFICES ASSUME write[p] \in Stored PROVE FALSE
  OBVIOUS
<1>1. attempted[p] /\ memory[p].generation < disk[1].generation
  BY DEF Promises, Current
<1>2. failure[p] # "command"
  BY <1>1 DEF Promises, Writing
<1>3. CASE reloaded
  <2>1. generation > memory[p].generation
    <3>1. memory[p].generation \in Nat /\ disk[1].generation \in Nat
      BY FirstFile DEF TypeOK, Typed, Memory, File
    <3> QED
      BY <1>1, <1>3, <3>1
  <2> QED
    BY <1>1, <1>2, <1>3, <2>1 DEF FailureVerdict
<1>4. CASE ~reloaded
  BY <1>1, <1>2, <1>4 DEF FailureVerdict
<1> QED
  BY <1>3, <1>4

(* The end of a load touches one session only.                             *)
LEMMA LoadOthersStay ==
  ASSUME TypeOK, NEW p \in Sessions, (\E m : Loaded(p, m)) \/ NotLoaded(p), lock' = lock
  PROVE  OthersStay(p)
<1>1. \A q \in Sessions \ {p} : memory'[q] = memory[q] /\ dirty'[q] = dirty[q]
  BY DEF Loaded, NotLoaded, TypeOK, Typed
<1>2. CASE (Goto(p, "ready") \/ Goto(p, "down")) /\ UNCHANGED <<write, failure, existed, attempted, opened, verdict>>
  BY <1>1, <1>2 DEF OthersStay, Goto, TypeOK, Typed
<1>3. CASE \E v : Answer(p, v)
  BY <1>1, <1>3 DEF OthersStay, Answer, Goto, TypeOK, Typed
<1> QED
  BY <1>2, <1>3, LoadEnds

(* The end of a load, whether it read the file or could not, keeps the     *)
(* promises: it reads what the file holds, and refuses only what it lacks. *)
LEMMA LoadKeepsPromises ==
  ASSUME TypeOK, Promises, NEW p \in Sessions, pc[p] \in {"recover", "identify", "snapshot"},
         \/ Loaded(p, [generation |-> disk[1].generation, commits |-> disk[1].commits])
         \/ NotLoaded(p),
         UNCHANGED <<path, disk, lock>>
  PROVE  Promises'
<1>1. OthersStay(p)
  BY LoadOthersStay
<1>2. Stored' = Stored
  BY DEF Stored, Commits
<1>3. /\ memory'[p].generation <= disk[1].generation
      /\ memory'[p].generation = disk[1].generation => memory'[p].commits = disk[1].commits
  <2>1. CASE Loaded(p, [generation |-> disk[1].generation, commits |-> disk[1].commits])
    <3>1. disk[1].generation \in Nat
      BY FirstFile DEF TypeOK, Typed, File
    <3> QED
      BY <2>1, <3>1 DEF Loaded, TypeOK, Typed
  <2>2. CASE NotLoaded(p)
    BY <2>2 DEF NotLoaded, Promises, Current
  <2> QED
    BY <2>1, <2>2
<1>4. CASE /\ write[p] = NoWrite
           /\ Goto(p, "ready") \/ Goto(p, "down")
           /\ UNCHANGED <<write, failure, existed, attempted, opened, verdict>>
  <2>1. Current(p)'
    BY <1>2, <1>3, <1>4 DEF Current
  <2>2. Writing(p)'
    BY <1>4 DEF Writing, Promises, Goto, TypeOK, Typed
  <2>3. Told'
    BY <1>2, <1>4 DEF Promises, Told
  <2> QED
    BY <1>1, <2>1, <2>2, <2>3, QuietStep
<1>5. CASE write[p] # NoWrite
  <2>1. PICK reloaded, generation :
          /\ reloaded \in BOOLEAN
          /\ reloaded => generation = disk[1].generation
          /\ Answer(p, FailureVerdict(p, reloaded, generation))
    <3>1. \E reloaded \in BOOLEAN : \E generation :
            /\ reloaded => generation = disk[1].generation
            /\ Answer(p, FailureVerdict(p, reloaded, generation))
      BY <1>5 DEF Loaded, NotLoaded
    <3> QED
      BY <3>1
  <2>2. Current(p)'
    BY <1>2, <1>3, <2>1 DEF Current, Answer, TypeOK, Typed
  <2>3. Writing(p)'
    BY <2>1 DEF Writing, Answer, Goto, TypeOK, Typed
  <2>4. Told'
    <3>1. verdict' = [verdict EXCEPT ![write[p]] = FailureVerdict(p, reloaded, generation)]
      BY <2>1 DEF Answer
    <3>2. FailureVerdict(p, reloaded, generation) \notin {"ok", "unasked"}
      BY FailureVerdictTyped
    <3>3. FailureVerdict(p, reloaded, generation) \in {"persistence_error", "error"} => write[p] \notin Stored
      BY <1>5, <2>1, RefusalIsTrue
    <3> DEFINE w == write[p]
    <3>4. \A x \in Writes \ {w} : verdict'[x] = verdict[x]
      BY <3>1 DEF TypeOK, Typed
    <3>5. w \in Writes => verdict'[w] = FailureVerdict(p, reloaded, generation)
      BY <3>1 DEF TypeOK, Typed
    <3>6. w \in Writes =>
            /\ verdict'[w] = "ok" => w \in Stored
            /\ verdict'[w] \in {"unasked", "persistence_error", "error"} => w \notin Stored
      BY <3>2, <3>3, <3>5
    <3> HIDE DEF w
    <3> QED
      BY <3>4, <3>6, QuietStepKeepsTold
  <2> QED
    BY <1>1, <2>2, <2>3, <2>4, QuietStep
<1> QED
  BY <1>4, <1>5, LoadEnds

(* A COMMIT that takes effect adds the session's write to the log.         *)
LEMMA CommitAppends ==
  ASSUME TypeOK, Promises, NEW p \in Sessions, pc[p] = "commit", TakeEffect(p)
  PROVE  /\ disk'[1] = [schema     |-> "v3",
                        generation |-> disk[1].generation + 1,
                        commits    |-> Append(disk[1].commits, {write[p]})]
         /\ Commits' = Append(Commits, {write[p]})
         /\ Stored' = Stored \cup {write[p]}
         /\ write[p] \in Writes
         /\ write[p] \notin Stored
<1>1. opened[p] = 1 /\ dirty[p] = {write[p]} /\ memory[p].generation = disk[1].generation
  BY DEF Promises, Writing
<1>2. disk'[1] = WithCommit(p)
  BY <1>1, FirstFile DEF TakeEffect, TypeOK, Typed
<1>3. Commits' = Append(Commits, {write[p]})
  BY <1>1, <1>2 DEF WithCommit, Commits, Promises, FileKept, TakeEffect
<1>4. write[p] \in Writes
  BY DEF TypeOK, Typed, Commands
<1>5. Commits \in Seq(SUBSET Writes)
  BY FirstFile DEF Commits, Promises, FileKept, TypeOK, Typed, File
<1>6. Stored' = Stored \cup {write[p]}
  <2> DEFINE log == Commits
             w == write[p]
  <2>1. log \in Seq(SUBSET Writes) /\ {w} \in SUBSET Writes
    BY <1>4, <1>5
  <2>2. Stored = UNION {log[i] : i \in DOMAIN log}
    BY DEF Stored
  <2>3. Stored' = UNION {Append(log, {w})[i] : i \in DOMAIN Append(log, {w})}
    BY <1>3 DEF Stored
  <2> HIDE DEF log, w
  <2>4. /\ DOMAIN log = 1..Len(log) /\ Len(log) \in Nat
        /\ DOMAIN Append(log, {w}) = 1..(Len(log) + 1)
        /\ \A i \in 1..Len(log) : Append(log, {w})[i] = log[i]
        /\ Append(log, {w})[Len(log) + 1] = {w}
    BY <2>1
  <2>5. \A x : x \in Stored' <=> x \in Stored \cup {w}
    BY <2>2, <2>3, <2>4
  <2> QED
    BY <2>5 DEF w
<1>7. write[p] \notin Stored
  BY <1>4, StateFileAssumption DEF Promises, Current, Writing
<1> QED
  BY <1>1, <1>2, <1>3, <1>4, <1>6, <1>7 DEF WithCommit

(* The commit of one session leaves what every other one knows true: it    *)
(* falls behind the file, and its own command is not the one stored.       *)
LEMMA CommitKeepsOthers ==
  ASSUME TypeOK, Promises, NEW p \in Sessions, pc[p] = "commit", TakeEffect(p),
         Goto(p, pc'[p]), failure' = [failure EXCEPT ![p] = failure'[p]],
         NEW q \in Sessions \ {p}
  PROVE  Current(q)' /\ Writing(q)'
<1>1. /\ pc'[q] = pc[q] /\ memory'[q] = memory[q] /\ dirty'[q] = dirty[q]
      /\ write'[q] = write[q] /\ failure'[q] = failure[q] /\ existed'[q] = existed[q]
      /\ attempted'[q] = attempted[q] /\ opened'[q] = opened[q]
  BY DEF Goto, TakeEffect, TypeOK, Typed
<1>2. /\ disk'[1].generation = disk[1].generation + 1
      /\ Stored' = Stored \cup {write[p]}
      /\ write[p] \in Writes
  <2>1. /\ disk'[1] = [schema     |-> "v3",
                       generation |-> disk[1].generation + 1,
                       commits    |-> Append(disk[1].commits, {write[p]})]
        /\ Stored' = Stored \cup {write[p]}
        /\ write[p] \in Writes
    BY CommitAppends
  <2> QED
    BY <2>1
<1>3. disk[1].generation \in Nat /\ memory[q].generation \in Nat
  BY FirstFile DEF TypeOK, Typed, File, Memory
<1>4. memory[q].generation <= disk[1].generation
  BY DEF Promises, Current
<1>5. write[q] # write[p]
  BY <1>2, StateFileAssumption DEF TypeOK, Commands
<1>6. pc[q] # "commit"
  BY DEF Promises, Writing
<1>7. Current(q)'
  BY <1>1, <1>2, <1>3, <1>4, <1>5 DEF Promises, Current
<1>8. ASSUME pc[q] = "harden"
      PROVE  memory[q].generation < disk[1].generation /\ write[q] \in Stored
  BY <1>8, StateFileAssumption DEF Promises, Current, Writing, TypeOK, Typed, Commands
<1>9. Writing(q)'
  BY <1>1, <1>2, <1>3, <1>6, <1>8 DEF Promises, Writing
<1> QED
  BY <1>7, <1>9

(* The commit keeps the promises, whether it reports success or an error.  *)
LEMMA CommitKeepsPromises ==
  ASSUME TypeOK, Promises, NEW p \in Sessions, pc[p] = "commit", TakeEffect(p),
         \/ Goto(p, "harden") /\ UNCHANGED failure
         \/ Goto(p, "cleanup") /\ failure' = [failure EXCEPT ![p] = "write"]
  PROVE  Promises'
<1>1. /\ disk'[1] = [schema     |-> "v3",
                     generation |-> disk[1].generation + 1,
                     commits    |-> Append(disk[1].commits, {write[p]})]
      /\ Stored' = Stored \cup {write[p]}
      /\ write[p] \in Writes
      /\ write[p] \notin Stored
  BY CommitAppends
<1>2. disk[1].generation \in Nat
  BY FirstFile DEF TypeOK, Typed, File
<1>3. /\ memory'[p] = memory[p] /\ dirty'[p] = dirty[p] /\ write'[p] = write[p]
      /\ existed'[p] = existed[p] /\ opened'[p] = opened[p] /\ attempted'[p] = TRUE
      /\ path' = path /\ verdict' = verdict
  BY DEF TakeEffect, TypeOK, Typed
<1>4. /\ existed[p] /\ opened[p] = 1 /\ dirty[p] = {write[p]} /\ failure[p] = "none"
      /\ memory[p].generation = disk[1].generation /\ memory[p].commits = disk[1].commits
  BY DEF Promises, Writing, Current
<1>5. pc'[p] = "harden" \/ pc'[p] = "cleanup"
  BY DEF Goto, TypeOK, Typed
<1>6. pc'[p] = "harden" => failure'[p] = "none"
  BY <1>4 DEF Goto, TypeOK, Typed
<1>7. failure'[p] # "command"
  BY <1>4 DEF TypeOK, Typed
<1>8. write[p] # NoWrite
  BY <1>1, StateFileAssumption
<1>9. Current(p)'
  BY <1>1, <1>2, <1>3, <1>4 DEF Current
<1>10. Writing(p)'
  BY <1>1, <1>2, <1>3, <1>4, <1>5, <1>6, <1>7, <1>8 DEF Writing
<1>11. ASSUME NEW q \in Sessions \ {p} PROVE Current(q)' /\ Writing(q)'
  <2>1. Goto(p, pc'[p]) /\ failure' = [failure EXCEPT ![p] = failure'[p]]
    BY DEF Goto, TypeOK, Typed
  <2> QED
    BY <2>1, CommitKeepsOthers
<1>12. Told'
  <2>1. verdict[write[p]] = "running"
    BY <1>8 DEF TypeOK, Commands
  <2> QED
    BY <1>1, <1>3, <2>1 DEF Promises, Told
<1>13. FileKept'
  BY <1>1, <1>2, <1>3 DEF Promises, FileKept
<1> QED
  BY <1>9, <1>10, <1>11, <1>12, <1>13 DEF Promises

(* Every step of every session keeps the promises.                         *)
LEMMA StepsKeepPromises == TypeOK /\ Promises /\ [Next]_vars => Promises'
<1> SUFFICES ASSUME TypeOK, Promises, [Next]_vars PROVE Promises'
  OBVIOUS
<1>file. path = 1 /\ disk[1].schema # "none" /\ disk[1].generation # 0
  BY DEF Promises, FileKept
<1>rows. UNCHANGED <<path, disk>> => Stored' = Stored
  BY DEF Stored, Commits
<1>held. ASSUME NEW p \in Sessions
         PROVE  /\ NewMemory.generation <= disk[1].generation
                /\ NewMemory.generation # disk[1].generation
  BY <1>file, FirstFile DEF NewMemory, TypeOK, Typed, File
<1>told. UNCHANGED <<path, disk, verdict>> => Told'
  BY <1>rows DEF Promises, Told
<1> DEFINE Same(p) ==
      /\ memory'[p] = memory[p] /\ write'[p] = write[p] /\ attempted'[p] = attempted[p]
      /\ UNCHANGED <<path, disk>>
<1>current. ASSUME NEW p \in Sessions, Same(p) PROVE Current(p)'
  BY <1>current, <1>rows DEF Promises, Current
<1>1. ASSUME NEW p \in Sessions, NEW w \in Writes, Change(p, w) PROVE Promises'
  <2>1. OthersStay(p) /\ UNCHANGED <<path, disk>>
    BY <1>1 DEF Change, fileVars, OthersStay, Goto, TypeOK, Typed
  <2>2. w \notin Stored /\ w # NoWrite /\ write'[p] = w /\ write[p] = NoWrite
    BY <1>1, StateFileAssumption DEF Change, Promises, Told, TypeOK, Typed, Commands
  <2>3. Current(p)'
    BY <1>1, <1>rows, <2>1, <2>2 DEF Change, Promises, Current
  <2>4. Writing(p)'
    BY <1>1, <2>2 DEF Change, Promises, Writing, Goto, TypeOK, Typed
  <2>5. Told'
    BY <1>1, <1>rows, <2>1 DEF Change, Promises, Told, TypeOK, Typed
  <2> QED
    BY <2>1, <2>3, <2>4, <2>5, QuietStep
<1>2. ASSUME NEW p \in Sessions, Start(p) PROVE Promises'
  <2>1. OthersStay(p) /\ UNCHANGED <<path, disk>>
    BY <1>2 DEF Start, fileVars, OthersStay, Goto, TypeOK, Typed
  <2>2. Current(p)'
    BY <1>2, <1>held DEF Start, fileVars, Current, TypeOK, Typed, Commands
  <2>3. Writing(p)'
    BY <1>2 DEF Start, Promises, Writing, Goto, TypeOK, Typed
  <2> QED
    BY <1>2, <1>told, <2>1, <2>2, <2>3, QuietStep DEF Start
<1>3. ASSUME NEW p \in Sessions, Recover(p) PROVE Promises'
  <2>1. Goto(p, "identify") /\ UNCHANGED <<memory, dirty, write, failure, existed, attempted, opened, verdict>>
    BY <1>3, <1>file DEF Recover
  <2>2. OthersStay(p) /\ UNCHANGED <<path, disk>>
    BY <1>3, <2>1 DEF Recover, fileVars, OthersStay, Goto, TypeOK, Typed
  <2>3. Writing(p)'
    BY <2>1 DEF Promises, Writing, Goto, TypeOK, Typed
  <2> QED
    BY <1>told, <1>current, <2>1, <2>2, <2>3, QuietStep
<1>4. ASSUME NEW p \in Sessions, Identify(p) PROVE Promises'
  <2>1. OthersStay(p) /\ UNCHANGED <<path, disk>>
    BY <1>4 DEF Identify, fileVars, OthersStay, Goto, TypeOK, Typed
  <2>2. Writing(p)'
    BY <1>4 DEF Identify, Promises, Writing, Goto, TypeOK, Typed
  <2> QED
    BY <1>4, <1>told, <1>current, <2>1, <2>2, QuietStep DEF Identify
<1>5. ASSUME NEW p \in Sessions, IdentifyFails(p) PROVE Promises'
  BY <1>5, LoadKeepsPromises DEF IdentifyFails, fileVars
<1>6. ASSUME NEW p \in Sessions, Snapshot(p) PROVE Promises'
  BY <1>6, <1>file, LoadKeepsPromises DEF Snapshot, fileVars
<1>7. ASSUME NEW p \in Sessions, SnapshotFails(p) PROVE Promises'
  BY <1>7, <1>file, LoadKeepsPromises DEF SnapshotFails
<1>8. ASSUME NEW p \in Sessions, Probe(p) PROVE Promises'
  <2>1. OthersStay(p) /\ UNCHANGED <<path, disk>>
    BY <1>8 DEF Probe, fileVars, OthersStay, Goto, TypeOK, Typed
  <2>2. existed'[p] = TRUE
    <3>1. (path # 0) = TRUE
      BY <1>file
    <3>2. existed' = [existed EXCEPT ![p] = TRUE]
      BY <1>8, <3>1, Zenon DEF Probe
    <3> QED
      BY <3>2 DEF TypeOK, Typed
  <2>3. Writing(p)'
    BY <1>8, <2>2 DEF Probe, Promises, Writing, Goto, TypeOK, Typed
  <2> QED
    BY <1>8, <1>told, <1>current, <2>1, <2>3, QuietStep DEF Probe
<1>fail. ASSUME NEW p \in Sessions, NEW step \in {"cleanup", "recover"}, Fail(p, step),
                path' = path, attempted'[p] = attempted[p] \/ attempted'[p],
                \A q \in Sessions \ {p} : opened'[q] = opened[q] /\ attempted'[q] = attempted[q],
                step = "cleanup" => existed[p], write[p] # NoWrite
         PROVE  Promises'
  <2>1. OthersStay(p) /\ UNCHANGED <<path, disk>>
    BY <1>fail, FirstFile DEF Fail, OthersStay, Goto, TypeOK, Typed
  <2>2. Current(p)'
    BY <1>fail, <1>rows DEF Fail, Promises, Current
  <2>3. Writing(p)'
    BY <1>fail DEF Fail, Promises, Writing, Goto, TypeOK, Typed
  <2>4. Told'
    BY <1>fail, <1>told DEF Fail
  <2> QED
    BY <2>1, <2>2, <2>3, <2>4, QuietStep
<1>writes. ASSUME NEW p \in Sessions, pc[p] \in {"probe", "open", "begin", "commit", "harden", "cleanup"}
           PROVE  write[p] # NoWrite /\ (pc[p] # "probe" => existed[p])
  BY <1>writes DEF Promises, Writing, TypeOK, Commands
<1>9. ASSUME NEW p \in Sessions, ProbeFails(p) PROVE Promises'
  BY <1>9, <1>fail, <1>writes DEF ProbeFails
<1>10. ASSUME NEW p \in Sessions, Open(p) PROVE Promises'
  <2>1. path' = 1 /\ opened' = [opened EXCEPT ![p] = 1]
    BY <1>10, <1>file DEF Open, OpenOrCreate
  <2>2. OthersStay(p) /\ UNCHANGED <<path, disk>>
    BY <1>10, <1>file, <2>1 DEF Open, OthersStay, Goto, TypeOK, Typed
  <2>3. Writing(p)'
    BY <1>10, <2>1 DEF Open, Promises, Writing, Goto, TypeOK, Typed
  <2> QED
    BY <1>10, <1>told, <1>current, <2>2, <2>3, QuietStep DEF Open
<1>11. ASSUME NEW p \in Sessions, OpenFails(p) PROVE Promises'
  <2>1. path' = path /\ \A q \in Sessions \ {p} : opened'[q] = opened[q]
    BY <1>11, <1>file DEF OpenFails, OpenOrCreate, TypeOK, Typed
  <2> QED
    BY <1>11, <1>fail, <1>writes, <2>1 DEF OpenFails
<1>12. ASSUME NEW p \in Sessions, Begin(p) PROVE Promises'
  <2>1. opened[p] = 1
    BY <1>12 DEF Begin, Promises, Writing
  <2>2. OthersStay(p) /\ UNCHANGED <<path, disk>>
    BY <1>12, <2>1, StateFileAssumption DEF Begin, OthersStay, Goto, TypeOK, Typed
  <2>3. lock'[1] = p
    BY <1>12, <2>1, FirstFile DEF Begin, TypeOK, Typed
  <2>4. Writing(p)'
    BY <1>12, <2>1, <2>3 DEF Begin, Promises, Writing, Goto, TypeOK, Typed
  <2> QED
    BY <1>12, <1>told, <1>current, <2>2, <2>4, QuietStep DEF Begin
<1>13. ASSUME NEW p \in Sessions, WriteFails(p) PROVE Promises'
  BY <1>13, <1>fail, <1>writes DEF WriteFails
<1>14. ASSUME NEW p \in Sessions, Commit(p) PROVE Promises'
  BY <1>14, CommitKeepsPromises DEF Commit
<1>15. ASSUME NEW p \in Sessions, CommitFails(p) PROVE Promises'
  <2>1. CASE TakeEffect(p) /\ failure' = [failure EXCEPT ![p] = "write"] /\ Goto(p, "cleanup")
    BY <1>15, <2>1, CommitKeepsPromises DEF CommitFails
  <2>2. CASE Fail(p, "cleanup") /\ attempted' = [attempted EXCEPT ![p] = TRUE] /\ UNCHANGED <<path, opened>>
    <3>1. attempted'[p] /\ \A q \in Sessions \ {p} : opened'[q] = opened[q] /\ attempted'[q] = attempted[q]
      BY <2>2 DEF TypeOK, Typed
    <3> QED
      BY <1>15, <1>fail, <1>writes, <2>2, <3>1 DEF CommitFails
  <2> QED
    BY <1>15, <2>1, <2>2 DEF CommitFails
<1>16. ASSUME NEW p \in Sessions, Harden(p) PROVE Promises'
  <2>1. OthersStay(p) /\ UNCHANGED <<path, disk>>
    BY <1>16 DEF Harden, Answer, fileVars, OthersStay, Goto, TypeOK, Typed
  <2>2. memory'[p] = [generation |-> memory[p].generation + 1,
                      commits    |-> Append(memory[p].commits, dirty[p])]
    BY <1>16 DEF Harden, TypeOK, Typed
  <2>3. /\ write[p] \in Stored /\ memory[p].generation < disk[1].generation
        /\ memory[p].generation + 1 = disk[1].generation
             => Append(memory[p].commits, dirty[p]) = disk[1].commits
    BY <1>16, <1>writes DEF Harden, Promises, Writing, Current
  <2>4. memory[p].generation \in Nat /\ disk[1].generation \in Nat
    BY FirstFile DEF TypeOK, Typed, Memory, File
  <2>5. write'[p] = NoWrite
    BY <1>16 DEF Harden, Answer, TypeOK, Typed
  <2>6. Current(p)'
    BY <2>1, <2>2, <2>3, <2>4, <2>5 DEF Current
  <2>7. Writing(p)'
    BY <1>16 DEF Harden, Answer, Writing, Goto, TypeOK, Typed
  <2>8. Told'
    BY <1>16, <1>rows, <2>1, <2>3 DEF Harden, Answer, Promises, Told, TypeOK, Typed
  <2> QED
    BY <2>1, <2>6, <2>7, <2>8, QuietStep
<1>17. ASSUME NEW p \in Sessions, HardenFails(p) PROVE Promises'
  BY <1>17, <1>fail, <1>writes DEF HardenFails
<1>18. ASSUME NEW p \in Sessions, Cleanup(p) PROVE Promises'
  <2>1. path' = path
    BY <1>18, <1>writes DEF Cleanup
  <2>2. OthersStay(p) /\ UNCHANGED <<path, disk>>
    BY <1>18, <2>1 DEF Cleanup, OthersStay, Goto, TypeOK, Typed
  <2>3. Writing(p)'
    BY <1>18 DEF Cleanup, Promises, Writing, Goto, TypeOK, Typed
  <2> QED
    BY <1>18, <1>told, <1>current, <2>2, <2>3, QuietStep DEF Cleanup
<1>19. ASSUME NEW p \in Sessions, Kill(p) PROVE Promises'
  <2>1. OthersStay(p) /\ UNCHANGED <<path, disk>>
    BY <1>19, FirstFile DEF Kill, OthersStay, Goto, TypeOK, Typed
  <2>2. Current(p)'
    BY <1>19, <1>held DEF Kill, Current, TypeOK, Typed
  <2>3. Writing(p)'
    BY <1>19 DEF Kill, Writing, Goto, TypeOK, Typed
  <2>4. Told'
    BY <1>19, <1>rows, <2>1 DEF Kill, Promises, Told
  <2> QED
    BY <2>1, <2>2, <2>3, <2>4, QuietStep
<1>20. CASE UNCHANGED vars
  BY <1>20, <1>rows DEF vars, Promises, FileKept, Told, Current, Writing
<1> QED
  BY <1>1, <1>2, <1>3, <1>4, <1>5, <1>6, <1>7, <1>8, <1>9, <1>10, <1>11, <1>12, <1>13, <1>14, <1>15, <1>16, <1>17, <1>18, <1>19, <1>20 DEF Next, Proceed

(* Found is kept: a file found at the start is never lost, and the         *)
(* promises hold from the beginning.                                       *)
LEMMA PromisesAtStart == Found /\ Init => Promises
<1> SUFFICES ASSUME Found, Init PROVE Promises
  OBVIOUS
<1>1. path = 1 /\ disk[1] \in {[schema |-> s, generation |-> 1, commits |-> <<>>] : s \in {"v2", "v3"}}
  BY StateFileAssumption, FirstFile DEF Found, Init
<1>2. FileKept
  BY <1>1 DEF FileKept
<1>3. Stored = {}
  BY <1>1 DEF Stored, Commits
<1>4. Told
  BY <1>3 DEF Init, Told
<1>5. \A p \in Sessions : Current(p) /\ Writing(p)
  BY <1>1 DEF Init, NewMemory, Current, Writing
<1> QED
  BY <1>2, <1>4, <1>5 DEF Promises

(* What a session is told about its writes to a file that was there stays  *)
(* true of the file: acknowledged writes are in it, refused ones never     *)
(* are, and a generation stands for the rows it was read with.             *)
THEOREM SharedFileKeepsPromises ==
  Found => (Spec => [](AcknowledgedStored /\ RefusedNeverStored /\ GenerationNamesRows))
<1>1. Promises => AcknowledgedStored /\ RefusedNeverStored /\ GenerationNamesRows
  BY DEF Promises, FileKept, Told, Current, AcknowledgedStored, RefusedNeverStored, GenerationNamesRows
<1>2. ASSUME Found PROVE Spec => [](AcknowledgedStored /\ RefusedNeverStored /\ GenerationNamesRows)
  <2>1. Init => Promises
    BY <1>2, PromisesAtStart
  <2> QED
    BY <2>1, <1>1, TypeInvariant, StepsKeepPromises, PTL DEF Spec
<1> QED
  BY <1>2

(* The end of a load tells at most one caller, and truthfully.             *)
LEMMA AnswerTells ==
  ASSUME TypeOK, Promises, NEW p \in Sessions, write[p] # NoWrite,
         NEW v \in Verdicts \ {"unasked", "running"}, Answer(p, v),
         v = "ok" => write[p] \in Stored,
         v \in {"persistence_error", "error"} => write[p] \notin Stored,
         UNCHANGED <<path, disk>>
  PROVE  Log!LNext
<1>1. write[p] \in Writes /\ verdict[write[p]] = "running"
  BY DEF TypeOK, Typed, Commands
<1>2. Commits' = Commits
  BY DEF Commits
<1>3. Log!Logged = Stored
  BY DEF Log!Logged, Stored
<1>4. Log!Tell(write[p], v)
  BY <1>1, <1>2, <1>3 DEF Log!Tell, Answer
<1>5. v \in Log!Verdicts \ {"unasked", "running"}
  BY DEF Log!Verdicts, Verdicts
<1> QED
  BY <1>1, <1>4, <1>5 DEF Log!LNext

(* A load ends by telling what the log is asked, or nothing.               *)
LEMMA LoadTells ==
  ASSUME TypeOK, Promises, NEW p \in Sessions,
         \/ Loaded(p, [generation |-> disk[1].generation, commits |-> disk[1].commits])
         \/ NotLoaded(p),
         UNCHANGED <<path, disk>>
  PROVE  Log!LNext \/ UNCHANGED Log!lvars
<1>1. Commits' = Commits
  BY DEF Commits
<1>2. CASE write[p] = NoWrite
  BY <1>1, <1>2 DEF Loaded, NotLoaded, Log!lvars
<1>3. CASE write[p] # NoWrite
  <2>1. PICK reloaded, generation :
          /\ reloaded \in BOOLEAN
          /\ reloaded => generation = disk[1].generation
          /\ Answer(p, FailureVerdict(p, reloaded, generation))
    <3>1. \E reloaded \in BOOLEAN : \E generation :
            /\ reloaded => generation = disk[1].generation
            /\ Answer(p, FailureVerdict(p, reloaded, generation))
      BY <1>3 DEF Loaded, NotLoaded
    <3> QED
      BY <3>1
  <2> DEFINE v == FailureVerdict(p, reloaded, generation)
  <2>2. v \in {"error", "persistence_error", "persistence_uncertain"}
    BY FailureVerdictTyped
  <2>3. v \in {"persistence_error", "error"} => write[p] \notin Stored
    BY <1>3, <2>1, RefusalIsTrue
  <2>4. Answer(p, v)
    BY <2>1
  <2> HIDE DEF v
  <2>5. v \in Verdicts \ {"unasked", "running"} /\ v # "ok"
    BY <2>2 DEF Verdicts
  <2> QED
    BY <1>3, <2>3, <2>4, <2>5, AnswerTells
<1> QED
  BY <1>2, <1>3

(* Every step of a session is a step of the log, or none.                  *)
LEMMA StepsAreLogSteps ==
  TypeOK /\ Promises /\ [Next]_vars => [Log!LNext]_(Log!lvars)
<1> SUFFICES ASSUME TypeOK, Promises, [Next]_vars PROVE Log!LNext \/ UNCHANGED Log!lvars
  OBVIOUS
<1>file. path = 1 /\ disk[1].schema # "none"
  BY DEF Promises, FileKept
<1>same. UNCHANGED <<path, disk, verdict>> => UNCHANGED Log!lvars
  BY DEF Commits, Log!lvars
<1>stored. Log!Logged = Stored
  BY DEF Log!Logged, Stored
<1>1. ASSUME NEW p \in Sessions, NEW w \in Writes, Change(p, w) PROVE Log!LNext
  <2>1. Log!Ask(w)
    BY <1>1 DEF Change, fileVars, Log!Ask, Commits
  <2> QED
    BY <2>1 DEF Log!LNext
<1>commit. ASSUME NEW p \in Sessions, pc[p] = "commit", TakeEffect(p) PROVE Log!LNext
  <2>1. /\ Commits' = Append(Commits, {write[p]})
        /\ write[p] \in Writes
        /\ write[p] \notin Stored
    BY <1>commit, CommitAppends
  <2>2. verdict[write[p]] = "running" /\ verdict' = verdict
    BY <1>commit, <2>1, StateFileAssumption DEF TypeOK, Commands, TakeEffect
  <2>3. Log!CommitWrite(write[p])
    BY <1>stored, <2>1, <2>2 DEF Log!CommitWrite
  <2> QED
    BY <2>1, <2>3 DEF Log!LNext
<1>2. ASSUME NEW p \in Sessions, Proceed(p) PROVE Log!LNext \/ UNCHANGED Log!lvars
  <2>1. CASE Recover(p)
    BY <1>file, <1>same, <2>1 DEF Recover, fileVars
  <2>2. CASE IdentifyFails(p)
    BY <2>2, LoadTells DEF IdentifyFails, fileVars
  <2>3. CASE Snapshot(p)
    BY <1>file, <2>3, LoadTells DEF Snapshot, fileVars
  <2>4. CASE SnapshotFails(p)
    BY <1>file, <2>4, LoadTells DEF SnapshotFails
  <2>5. CASE Identify(p) \/ Probe(p)
    BY <1>same, <2>5 DEF Identify, Probe, fileVars
  <2>6. CASE ProbeFails(p) \/ WriteFails(p) \/ HardenFails(p)
    BY <1>same, <2>6 DEF ProbeFails, WriteFails, HardenFails, Fail
  <2>7. CASE Open(p) \/ OpenFails(p)
    BY <1>file, <1>same, <2>7 DEF Open, OpenFails, OpenOrCreate, Fail
  <2>8. CASE Begin(p)
    BY <1>same, <2>8 DEF Begin
  <2>9. CASE Commit(p)
    BY <1>commit, <2>9 DEF Commit
  <2>10. CASE CommitFails(p)
    BY <1>commit, <1>same, <2>10 DEF CommitFails, Fail
  <2>11. CASE Harden(p)
    <3>1. write[p] # NoWrite /\ write[p] \in Stored
      BY <2>11 DEF Harden, Promises, Writing, TypeOK, Commands
    <3>2. "ok" \in Verdicts \ {"unasked", "running"}
      BY DEF Verdicts
    <3> QED
      BY <2>11, <3>1, <3>2, AnswerTells DEF Harden, fileVars
  <2>12. CASE Cleanup(p)
    <3>1. existed[p]
      BY <2>12 DEF Cleanup, Promises, Writing
    <3> QED
      BY <1>same, <2>12, <3>1 DEF Cleanup
  <2> QED
    BY <1>2, <2>1, <2>2, <2>3, <2>4, <2>5, <2>6, <2>7, <2>8, <2>9, <2>10, <2>11, <2>12 DEF Proceed
<1>3. ASSUME NEW p \in Sessions, Kill(p) PROVE Log!LNext \/ UNCHANGED Log!lvars
  <2>1. CASE write[p] = NoWrite
    <3>1. verdict' = verdict
      BY <1>3, <2>1, StateFileAssumption DEF Kill, TypeOK, Typed
    <3> QED
      BY <1>3, <1>same, <3>1 DEF Kill
  <2>2. CASE write[p] # NoWrite
    <3>1. write[p] \in Writes /\ verdict[write[p]] = "running"
      BY <2>2 DEF TypeOK, Typed, Commands
    <3>2. verdict' = [verdict EXCEPT ![write[p]] = "unknown"]
      BY <1>3, <3>1 DEF Kill, TypeOK, Typed
    <3>3. Log!Tell(write[p], "unknown")
      BY <1>3, <3>1, <3>2 DEF Kill, Log!Tell, Commits
    <3>4. "unknown" \in Log!Verdicts \ {"unasked", "running"}
      BY DEF Log!Verdicts
    <3> QED
      BY <3>1, <3>3, <3>4 DEF Log!LNext
  <2> QED
    BY <2>1, <2>2
<1>4. ASSUME NEW p \in Sessions, Start(p) PROVE UNCHANGED Log!lvars
  BY <1>4, <1>same DEF Start, fileVars
<1>5. CASE UNCHANGED vars
  BY <1>5, <1>same DEF vars
<1> QED
  BY <1>1, <1>2, <1>3, <1>4, <1>5 DEF Next

(* A state file that was there implements the log: one commit for each     *)
(* write, never taken back, and nothing told of it that could later prove  *)
(* false, however many sessions share it.                                  *)
THEOREM ImplementsLog == Found => (Spec => ImplementsDurableLog)
<1>1. ASSUME Found PROVE Spec => ImplementsDurableLog
  <2>1. Init => Promises
    BY <1>1, PromisesAtStart
  <2>2. Init => Log!LInit
    <3> SUFFICES ASSUME Init PROVE Log!LInit
      OBVIOUS
    <3>1. Commits = <<>>
      BY StateFileAssumption DEF Init, Commits, Files, NewFile
    <3> QED
      BY <3>1 DEF Init, Log!LInit
  <2> QED
    BY <2>1, <2>2, TypeInvariant, StepsKeepPromises, StepsAreLogSteps, PTL
       DEF Spec, ImplementsDurableLog, Log!LSpec
<1> QED
  BY <1>1

(***************************************************************************)
(* Refusals, wherever the file comes from: the state path may have none,   *)
(* get one, and lose it to a session that takes it for its own.            *)
(***************************************************************************)
Holding(f) == UNION {disk[f].commits[i] : i \in DOMAIN disk[f].commits}

Refused(w) == verdict[w] \in {"persistence_error", "error"}

(* A command is in a file only once its COMMIT was attempted, and the file *)
(* the path names is then ahead of the session; so whoever reads it back   *)
(* learns that it must not call the command refused.                       *)
Undecided(p) ==
  /\ \A f \in Files : write[p] \in Holding(f) =>
       /\ attempted[p] /\ failure[p] # "command"
       /\ f = path => disk[f].generation > memory[p].generation
  /\ pc[p] = "commit" => lock[opened[p]] = p /\ disk[opened[p]].generation = memory[p].generation
  /\ pc[p] \in {"probe", "open", "begin", "commit", "harden"}
       => dirty[p] = {write[p]} /\ failure[p] = "none"
  /\ write[p] = NoWrite => failure[p] = "none"

Honest == \A f \in Files : \A w \in Holding(f) : verdict[w] # "unasked" /\ (f = path => ~Refused(w))

Refusing == Honest /\ \A p \in Sessions : Undecided(p)

(* What a session sees of the others' steps.                               *)
Untouched(q) ==
  /\ pc'[q] = pc[q] /\ memory'[q] = memory[q] /\ dirty'[q] = dirty[q] /\ write'[q] = write[q]
  /\ failure'[q] = failure[q] /\ attempted'[q] = attempted[q] /\ opened'[q] = opened[q]
  /\ \A f \in Files : lock[f] = q => lock'[f] = q

(* A file holds writes; a new one holds none.                              *)
LEMMA HoldingTyped ==
  ASSUME Typed
  PROVE  /\ \A f \in Files : Holding(f) \subseteq Writes
         /\ \A f \in Files : disk[f] = NewFile => Holding(f) = {}
         /\ 0 \notin Files
<1>1. ASSUME NEW f \in Files PROVE Holding(f) \subseteq Writes
  <2>1. disk[f].commits \in Seq(SUBSET Writes)
    BY DEF Typed, File
  <2> QED
    BY <2>1 DEF Holding
<1>2. ASSUME NEW f \in Files, disk[f] = NewFile PROVE Holding(f) = {}
  BY <1>2 DEF Holding, NewFile
<1>3. 0 \notin Files
  BY DEF Files
<1> QED
  BY <1>1, <1>2, <1>3

(* A step of one session that writes no file: the path may only lose its   *)
(* file or get a new one, and whoever is answered must not be refused a    *)
(* write that the file holds.                                              *)
LEMMA QuietRefusing ==
  ASSUME TypeOK, Refusing, NEW p \in Sessions,
         disk' = disk, path' \in {path, 0} \cup Unused,
         \A q \in Sessions \ {p} : Untouched(q),
         \A w \in Writes : \/ verdict'[w] = verdict[w]
                           \/ /\ verdict'[w] # "unasked"
                              /\ w \in Holding(path) /\ path \in Files => ~Refused(w)',
         Undecided(p)'
  PROVE  Refusing'
<1>1. \A f : Holding(f)' = Holding(f)
  BY DEF Holding
<1>2. /\ \A f \in Files : Holding(f) \subseteq Writes
      /\ \A f \in Files : disk[f] = NewFile => Holding(f) = {}
      /\ 0 \notin Files
  BY HoldingTyped DEF TypeOK
<1>3. \A f \in Files : f = path' => f = path \/ Holding(f) = {}
  BY <1>2 DEF Unused
<1>4. Honest'
  <2>1. ASSUME NEW f \in Files, NEW w \in Holding(f) PROVE verdict'[w] # "unasked" /\ (f = path' => ~Refused(w)')
    <3>1. w \in Writes /\ verdict[w] # "unasked" /\ (f = path => ~Refused(w))
      BY <1>2 DEF Refusing, Honest
    <3> QED
      BY <1>3, <3>1 DEF Refused
  <2> QED
    BY <1>1, <2>1 DEF Honest
<1>5. ASSUME NEW q \in Sessions \ {p} PROVE Undecided(q)'
  <2>1. Undecided(q) /\ Untouched(q)
    BY DEF Refusing
  <2>2. ASSUME NEW f \in Files, write'[q] \in Holding(f)
        PROVE  attempted'[q] /\ failure'[q] # "command" /\ (f = path' => disk[f].generation > memory'[q].generation)
    BY <1>3, <2>1, <2>2 DEF Undecided, Untouched
  <2>3. pc[q] = "commit" => opened[q] \in Files
    BY DEF TypeOK, Locks, Typed
  <2> QED
    BY <1>1, <2>1, <2>2, <2>3 DEF Undecided, Untouched
<1> QED
  BY <1>4, <1>5 DEF Refusing

(* A COMMIT that takes effect brings its own write into the file, which    *)
(* nobody was told about, and leaves the session behind it.                *)
LEMMA CommitKeepsRefusing ==
  ASSUME TypeOK, Refusing, NEW p \in Sessions, pc[p] = "commit", TakeEffect(p),
         \/ Goto(p, "harden") /\ UNCHANGED failure
         \/ Goto(p, "cleanup") /\ failure' = [failure EXCEPT ![p] = "write"]
  PROVE  Refusing'
<1>0. PICK g \in Files, w \in Writes : g = opened[p] /\ w = write[p]
  BY DEF TypeOK, Typed, Locks, Commands
<1>1. /\ g \in Files /\ lock[g] = p /\ disk[g].generation = memory[p].generation
      /\ dirty[p] = {w} /\ failure[p] = "none"
  BY <1>0 DEF Refusing, Undecided, TypeOK, Locks, Typed
<1>2. w \in Writes /\ verdict[w] = "running" /\ w # NoWrite
  BY <1>0, StateFileAssumption DEF TypeOK, Typed, Commands
<1>3. /\ disk' = [disk EXCEPT ![g] = WithCommit(p)]
      /\ path' = path /\ verdict' = verdict /\ memory' = memory /\ dirty' = dirty /\ write' = write
      /\ opened' = opened /\ lock' = [lock EXCEPT ![g] = NoSession]
      /\ attempted' = [attempted EXCEPT ![p] = TRUE]
  BY <1>0 DEF TakeEffect
<1>4. /\ disk'[g] = WithCommit(p)
      /\ \A f \in Files \ {g} : disk'[f] = disk[f]
  BY <1>1, <1>3 DEF TypeOK, Typed
<1>5. Holding(g)' = Holding(g) \cup {w}
  <2> DEFINE log == disk[g].commits
  <2>1. log \in Seq(SUBSET Writes) /\ {w} \in SUBSET Writes
    BY <1>1, <1>2 DEF TypeOK, Typed, File
  <2>2. Holding(g) = UNION {log[i] : i \in DOMAIN log}
    BY DEF Holding
  <2>3. Holding(g)' = UNION {Append(log, {w})[i] : i \in DOMAIN Append(log, {w})}
    <3>1. Holding(g)' = UNION {disk'[g].commits[i] : i \in DOMAIN disk'[g].commits}
      BY <1>3 DEF Holding
    <3>2. disk'[g].commits = Append(log, {w})
      BY <1>0, <1>1, <1>4 DEF WithCommit
    <3> QED
      BY <3>1, <3>2
  <2> HIDE DEF log
  <2>4. /\ DOMAIN log = 1..Len(log) /\ Len(log) \in Nat
        /\ DOMAIN Append(log, {w}) = 1..(Len(log) + 1)
        /\ \A i \in 1..Len(log) : Append(log, {w})[i] = log[i]
        /\ Append(log, {w})[Len(log) + 1] = {w}
    BY <2>1
  <2>5. \A x : x \in Holding(g)' <=> x \in Holding(g) \cup {w}
    BY <2>2, <2>3, <2>4
  <2> QED
    BY <2>5
<1>6. \A f \in Files \ {g} : Holding(f)' = Holding(f)
  BY <1>4 DEF Holding
<1>7. disk[g].generation \in Nat /\ disk'[g].generation = disk[g].generation + 1
  <2>1. disk[g].generation \in Nat
    BY <1>1 DEF TypeOK, Typed, File
  <2> QED
    BY <1>1, <1>4, <2>1 DEF WithCommit
<1>8. Honest'
  BY <1>2, <1>3, <1>5, <1>6 DEF Refusing, Honest, Refused
<1>9. ASSUME NEW q \in Sessions \ {p} PROVE Undecided(q)'
  <2>1. pc'[q] = pc[q] /\ attempted'[q] = attempted[q] /\ failure'[q] = failure[q]
    BY <1>3 DEF Goto, TypeOK, Typed
  <2>2. write[q] # w
    BY <1>0, <1>2 DEF TypeOK, Commands
  <2>3. Undecided(q) /\ memory[q].generation \in Nat
    BY DEF Refusing, TypeOK, Typed, Memory
  <2>4. pc[q] = "commit" => opened[q] \in Files \ {g}
    BY <1>1, <2>3 DEF TypeOK, Locks, Typed, Undecided
  <2>5. pc[q] = "commit" => lock'[opened[q]] = q /\ disk'[opened[q]].generation = memory[q].generation
    BY <1>3, <1>4, <2>3, <2>4 DEF Undecided, TypeOK, Typed
  <2>6. ASSUME NEW f \in Files, write[q] \in Holding(f)'
        PROVE  attempted[q] /\ failure[q] # "command" /\ (f = path => disk'[f].generation > memory[q].generation)
    <3>1. write[q] \in Holding(f)
      BY <1>5, <1>6, <2>2, <2>6
    <3>2. attempted[q] /\ failure[q] # "command" /\ (f = path => disk[f].generation > memory[q].generation)
      BY <2>3, <3>1 DEF Undecided
    <3>3. CASE f = g
      BY <1>7, <2>3, <3>2, <3>3
    <3>4. CASE f # g
      BY <1>4, <3>2, <3>4
    <3> QED
      BY <3>3, <3>4
  <2> QED
    BY <1>3, <2>1, <2>3, <2>5, <2>6 DEF Undecided
<1>10. Undecided(p)'
  <2>1. attempted'[p] = TRUE /\ pc'[p] \in {"harden", "cleanup"} /\ failure'[p] # "command"
    BY <1>1, <1>3 DEF Goto, TypeOK, Typed
  <2>2. pc'[p] = "harden" => failure'[p] = "none"
    BY <1>1 DEF Goto, TypeOK, Typed
  <2>3. ASSUME NEW f \in Files, w \in Holding(f)', f = path PROVE disk'[f].generation > memory[p].generation
    <3>1. CASE f = g
      BY <1>1, <1>7, <3>1
    <3>2. CASE f # g
      <4>1. attempted[p] /\ disk[f].generation > memory[p].generation
        BY <1>0, <1>6, <2>3, <3>2 DEF Refusing, Undecided
      <4> QED
        BY <1>4, <3>2, <4>1
    <3> QED
      BY <3>1, <3>2
  <2> QED
    BY <1>0, <1>1, <1>2, <1>3, <2>1, <2>2, <2>3 DEF Undecided
<1> QED
  BY <1>8, <1>9, <1>10 DEF Refusing

(* A session that has been answered, or has nothing to answer, knows       *)
(* nothing of any file.                                                    *)
LEMMA IdleUndecided ==
  ASSUME TypeOK, NEW p \in Sessions, disk' = disk, write'[p] = NoWrite, failure'[p] = "none",
         pc'[p] \in {"down", "ready", "identify", "snapshot"}
  PROVE  Undecided(p)'
<1>1. \A f : Holding(f)' = Holding(f)
  BY DEF Holding
<1>2. \A f \in Files : NoWrite \notin Holding(f)
  BY HoldingTyped, StateFileAssumption DEF TypeOK
<1> QED
  BY <1>1, <1>2 DEF Undecided

(* A command whose COMMIT may have taken effect is refused only if the     *)
(* file that is read back does not hold it.                                *)
LEMMA RefusalIsHonest ==
  ASSUME TypeOK, Refusing, NEW p \in Sessions, NEW reloaded \in BOOLEAN, NEW generation,
         path \in Files /\ reloaded => generation = disk[path].generation,
         FailureVerdict(p, reloaded, generation) \in {"persistence_error", "error"},
         path \in Files
  PROVE  write[p] \notin Holding(path)
<1> SUFFICES ASSUME write[p] \in Holding(path) PROVE FALSE
  OBVIOUS
<1>1. attempted[p] /\ failure[p] # "command" /\ disk[path].generation > memory[p].generation
  BY DEF Refusing, Undecided
<1>2. FailureVerdict(p, reloaded, generation) = "persistence_uncertain"
  BY <1>1 DEF FailureVerdict
<1> QED
  BY <1>2

(* A load, whether it succeeds or not, answers honestly.                   *)
LEMMA LoadKeepsRefusing ==
  ASSUME TypeOK, Refusing, NEW p \in Sessions, pc[p] \in {"recover", "identify", "snapshot"},
         \/ \E m : Loaded(p, m) /\ (path \in Files => m.generation = disk[path].generation)
         \/ NotLoaded(p),
         disk' = disk, lock' = lock, path' \in {path, 0} \cup Unused
  PROVE  Refusing'
<1>1. CASE write[p] = NoWrite
  <2>1. /\ Goto(p, "ready") \/ Goto(p, "down")
        /\ UNCHANGED <<write, failure, existed, attempted, opened, verdict>>
    BY <1>1, LoadEnds
  <2>2. failure[p] = "none"
    BY <1>1 DEF Refusing, Undecided
  <2>3. Undecided(p)'
    BY <1>1, <2>1, <2>2, IdleUndecided DEF Goto, TypeOK, Typed
  <2>4. \A q \in Sessions \ {p} : Untouched(q)
    BY <2>1 DEF Untouched, Loaded, NotLoaded, Goto, TypeOK, Typed
  <2> QED
    BY <2>1, <2>3, <2>4, QuietRefusing
<1>2. CASE write[p] # NoWrite
  <2>1. \E reloaded \in BOOLEAN : \E generation :
          /\ path \in Files /\ reloaded => generation = disk[path].generation
          /\ Answer(p, FailureVerdict(p, reloaded, generation))
    BY <1>2 DEF Loaded, NotLoaded
  <2>2. PICK reloaded, generation :
          /\ reloaded \in BOOLEAN
          /\ path \in Files /\ reloaded => generation = disk[path].generation
          /\ Answer(p, FailureVerdict(p, reloaded, generation))
    BY <2>1
  <2>3. PICK v : v = FailureVerdict(p, reloaded, generation)
    OBVIOUS
  <2>4. v \in {"persistence_error", "error"} /\ path \in Files => write[p] \notin Holding(path)
    BY <2>2, <2>3, RefusalIsHonest
  <2>5. v # "unasked" /\ Answer(p, v)
    BY <2>2, <2>3, FailureVerdictTyped
  <2>6. Undecided(p)'
    BY <2>5, IdleUndecided DEF Answer, Goto, TypeOK, Typed
  <2>7. \A q \in Sessions \ {p} : Untouched(q)
    BY <2>5 DEF Untouched, Loaded, NotLoaded, Answer, Goto, TypeOK, Typed
  <2>8. \A w \in Writes : \/ verdict'[w] = verdict[w]
                          \/ /\ verdict'[w] # "unasked"
                             /\ w \in Holding(path) /\ path \in Files => ~Refused(w)'
    <3>1. verdict' = [verdict EXCEPT ![write[p]] = v]
      BY <2>5 DEF Answer
    <3>2. \A w \in Writes \ {write[p]} : verdict'[w] = verdict[w]
      BY <3>1 DEF TypeOK, Typed
    <3>3. \A w \in Writes : w = write[p] => verdict'[w] = v
      BY <3>1 DEF TypeOK, Typed
    <3> QED
      BY <2>4, <2>5, <3>2, <3>3 DEF Refused
  <2> QED
    BY <2>6, <2>7, <2>8, QuietRefusing
<1> QED
  BY <1>1, <1>2

(* A write that fails lets its lock go and keeps what it knew.             *)
LEMMA FailKeepsRefusing ==
  ASSUME TypeOK, Refusing, NEW p \in Sessions, NEW step \in {"cleanup", "recover"}, Fail(p, step),
         write[p] # NoWrite, failure[p] = "none",
         path' \in {path, 0} \cup Unused,
         attempted'[p] = attempted[p] \/ attempted'[p] = TRUE,
         \A q \in Sessions \ {p} : opened'[q] = opened[q] /\ attempted'[q] = attempted[q]
  PROVE  Refusing'
<1>1. /\ disk' = disk /\ memory' = memory /\ dirty' = dirty /\ write' = write /\ verdict' = verdict
      /\ failure' = [failure EXCEPT ![p] = "write"] /\ pc' = [pc EXCEPT ![p] = step]
      /\ lock' = [f \in Files |-> IF lock[f] = p THEN NoSession ELSE lock[f]]
  BY DEF Fail, Goto
<1>2. failure'[p] = "write" /\ pc'[p] = step
  BY <1>1 DEF TypeOK, Typed
<1>3. \A q \in Sessions \ {p} : Untouched(q)
  BY <1>1 DEF Untouched, TypeOK, Typed
<1>4. \A f : Holding(f)' = Holding(f)
  BY <1>1 DEF Holding
<1>5. \A f \in Files : f = path' => f = path \/ Holding(f) = {}
  BY HoldingTyped DEF Unused, TypeOK
<1>6. ASSUME NEW f \in Files, write[p] \in Holding(f)
      PROVE  attempted'[p] /\ (f = path' => disk[f].generation > memory[p].generation)
  BY <1>5, <1>6 DEF Refusing, Undecided
<1>7. Undecided(p)'
  BY <1>1, <1>2, <1>4, <1>6 DEF Undecided
<1> QED
  BY <1>1, <1>3, <1>7, QuietRefusing

(* Every step of every session keeps refusals true.                        *)
LEMMA StepsKeepRefusing == TypeOK /\ Refusing /\ [Next]_vars => Refusing'
<1> SUFFICES ASSUME TypeOK, Refusing, [Next]_vars PROVE Refusing'
  OBVIOUS
<1>holding. ASSUME disk' = disk PROVE \A f : Holding(f)' = Holding(f)
  BY <1>holding DEF Holding
<1>new. ASSUME NEW f \in Files, path' \in {path, 0} \cup Unused, f = path'
        PROVE  f = path \/ Holding(f) = {}
  BY <1>new, HoldingTyped DEF Unused, TypeOK
<1>asked. ASSUME NEW p \in Sessions,
                 pc[p] \in {"probe", "open", "begin", "commit", "harden"}
          PROVE  write[p] # NoWrite /\ failure[p] = "none" /\ dirty[p] = {write[p]}
  BY <1>asked DEF Refusing, Undecided, TypeOK, Commands
<1>quiet. ASSUME NEW p \in Sessions, disk' = disk, path' \in {path, 0} \cup Unused, verdict' = verdict,
                 \A q \in Sessions \ {p} : Untouched(q), Undecided(p)'
          PROVE  Refusing'
  BY <1>quiet, QuietRefusing
(* What p's command left in the files is as it was.                        *)
<1>same. ASSUME NEW p \in Sessions, disk' = disk, path' \in {path, 0} \cup Unused,
                write'[p] = write[p], failure'[p] = failure[p], memory'[p] = memory[p],
                dirty'[p] = dirty[p], attempted'[p] = attempted[p],
                pc'[p] \in {"open", "begin", "harden"} => pc[p] \in {"probe", "open", "begin", "commit"},
                pc'[p] # "probe",
                pc'[p] = "commit" => /\ pc[p] = "begin" /\ lock'[opened'[p]] = p
                                     /\ disk[opened'[p]].generation = memory[p].generation
         PROVE  Undecided(p)'
  <2>1. ASSUME NEW f \in Files, write[p] \in Holding(f)
        PROVE  attempted[p] /\ failure[p] # "command" /\ (f = path' => disk[f].generation > memory[p].generation)
    BY <1>same, <1>new, <2>1 DEF Refusing, Undecided
  <2>2. (write[p] = NoWrite => failure[p] = "none")
    BY DEF Refusing, Undecided
  <2>3. pc'[p] \in {"probe", "open", "begin", "commit", "harden"} => dirty[p] = {write[p]} /\ failure[p] = "none"
    BY <1>same, <1>asked
  <2> QED
    BY <1>same, <1>holding, <2>1, <2>2, <2>3 DEF Undecided
<1>1. ASSUME NEW p \in Sessions, NEW w \in Writes, Change(p, w) PROVE Refusing'
  <2>1. /\ disk' = disk /\ path' = path /\ write'[p] = w /\ dirty'[p] = {w}
        /\ \/ pc'[p] = "probe" /\ failure'[p] = failure[p]
           \/ pc'[p] = "recover"
    BY <1>1 DEF Change, fileVars, Goto, TypeOK, Typed
  <2>2. \A q \in Sessions \ {p} : Untouched(q)
    BY <1>1 DEF Change, fileVars, Goto, Untouched, TypeOK, Typed
  <2>3. failure[p] = "none" /\ w # NoWrite
    BY <1>1, StateFileAssumption DEF Change, Refusing, Undecided, TypeOK, Commands
  <2>4. \A f \in Files : w \notin Holding(f)
    BY <1>1 DEF Change, Refusing, Honest
  <2>5. Undecided(p)'
    BY <1>holding, <2>1, <2>3, <2>4 DEF Undecided
  <2>6. \A x \in Writes : verdict'[x] = verdict[x] \/ verdict'[x] = "running"
    BY <1>1 DEF Change, TypeOK, Typed
  <2> QED
    BY <2>1, <2>2, <2>5, <2>6, QuietRefusing DEF Refused
<1>2. ASSUME NEW p \in Sessions, Start(p) PROVE Refusing'
  <2>1. write'[p] = NoWrite /\ failure'[p] = "none" /\ pc'[p] \in {"ready", "identify"} /\ disk' = disk /\ path' = path
    BY <1>2 DEF Start, fileVars, Goto, Refusing, Undecided, TypeOK, Typed, Commands
  <2>2. Undecided(p)'
    BY <2>1, IdleUndecided
  <2>3. \A q \in Sessions \ {p} : Untouched(q)
    BY <1>2 DEF Start, fileVars, Goto, Untouched, TypeOK, Typed
  <2> QED
    BY <1>2, <1>quiet, <2>1, <2>2, <2>3 DEF Start
<1>3. ASSUME NEW p \in Sessions, Recover(p) PROVE Refusing'
  <2>1. CASE path = 0 /\ Loaded(p, NewMemory)
    BY <1>3, <2>1, LoadKeepsRefusing, HoldingTyped DEF Recover, fileVars, TypeOK
  <2>2. CASE Goto(p, "identify") /\ UNCHANGED <<memory, dirty, write, failure, existed, attempted, opened, verdict>>
    <3>1. \A q \in Sessions \ {p} : Untouched(q)
      BY <1>3, <2>2 DEF Recover, fileVars, Goto, Untouched, TypeOK, Typed
    <3>2. pc'[p] = "identify"
      BY <2>2 DEF Goto, TypeOK, Typed
    <3> QED
      BY <1>3, <1>same, <1>quiet, <2>2, <3>1, <3>2 DEF Recover, fileVars
  <2> QED
    BY <1>3, <2>1, <2>2 DEF Recover
<1>4. ASSUME NEW p \in Sessions, Identify(p) PROVE Refusing'
  <2>1. \A q \in Sessions \ {p} : Untouched(q)
    BY <1>4 DEF Identify, fileVars, Goto, Untouched, TypeOK, Typed
  <2>2. pc'[p] = "snapshot"
    BY <1>4 DEF Identify, Goto, TypeOK, Typed
  <2> QED
    BY <1>4, <1>same, <1>quiet, <2>1, <2>2 DEF Identify, fileVars
<1>5. ASSUME NEW p \in Sessions, IdentifyFails(p) PROVE Refusing'
  BY <1>5, LoadKeepsRefusing DEF IdentifyFails, fileVars
<1>6. ASSUME NEW p \in Sessions, Snapshot(p) PROVE Refusing'
  <2>1. [generation |-> disk[path].generation, commits |-> disk[path].commits].generation = disk[path].generation
    OBVIOUS
  <2> QED
    BY <1>6, <2>1, LoadKeepsRefusing DEF Snapshot, fileVars
<1>7. ASSUME NEW p \in Sessions, SnapshotFails(p) PROVE Refusing'
  <2>1. path' \in {path, 0} \cup Unused
    BY <1>7 DEF SnapshotFails
  <2> QED
    BY <1>7, <2>1, LoadKeepsRefusing DEF SnapshotFails
<1>8. ASSUME NEW p \in Sessions, Probe(p) PROVE Refusing'
  <2>1. \A q \in Sessions \ {p} : Untouched(q)
    BY <1>8 DEF Probe, fileVars, Goto, Untouched, TypeOK, Typed
  <2>2. pc'[p] = "open"
    BY <1>8 DEF Probe, Goto, TypeOK, Typed
  <2> QED
    BY <1>8, <1>same, <1>quiet, <2>1, <2>2 DEF Probe, fileVars
<1>9. ASSUME NEW p \in Sessions, ProbeFails(p) PROVE Refusing'
  BY <1>9, <1>asked, FailKeepsRefusing DEF ProbeFails
<1>opened. ASSUME NEW p \in Sessions, OpenOrCreate(p)
           PROVE  path' \in {path} \cup Unused /\ \A q \in Sessions \ {p} : opened'[q] = opened[q]
  BY <1>opened DEF OpenOrCreate, TypeOK, Typed
<1>10. ASSUME NEW p \in Sessions, Open(p) PROVE Refusing'
  <2>1. path' \in {path, 0} \cup Unused /\ \A q \in Sessions \ {p} : opened'[q] = opened[q]
    BY <1>10, <1>opened DEF Open
  <2>2. \A q \in Sessions \ {p} : Untouched(q)
    BY <1>10, <2>1 DEF Open, Goto, Untouched, TypeOK, Typed
  <2>3. pc'[p] = "begin"
    BY <1>10 DEF Open, Goto, TypeOK, Typed
  <2> QED
    BY <1>10, <1>same, <1>quiet, <2>1, <2>2, <2>3 DEF Open
<1>11. ASSUME NEW p \in Sessions, OpenFails(p) PROVE Refusing'
  <2>1. path' \in {path, 0} \cup Unused /\ \A q \in Sessions \ {p} : opened'[q] = opened[q]
    BY <1>11, <1>opened DEF OpenFails
  <2> QED
    BY <1>11, <1>asked, <2>1, FailKeepsRefusing DEF OpenFails
<1>12. ASSUME NEW p \in Sessions, Begin(p) PROVE Refusing'
  <2>1. opened[p] \in Files
    BY <1>12 DEF Begin, TypeOK, Typed, Locks
  <2>2. \A q \in Sessions \ {p} : Untouched(q)
    BY <1>12, <2>1, StateFileAssumption DEF Begin, Goto, Untouched, TypeOK, Typed
  <2>3. pc'[p] = "commit" /\ lock'[opened'[p]] = p
    BY <1>12, <2>1 DEF Begin, Goto, TypeOK, Typed
  <2> QED
    BY <1>12, <1>same, <1>quiet, <2>1, <2>2, <2>3 DEF Begin
<1>13. ASSUME NEW p \in Sessions, WriteFails(p) PROVE Refusing'
  BY <1>13, <1>asked, FailKeepsRefusing DEF WriteFails
<1>14. ASSUME NEW p \in Sessions, Commit(p) PROVE Refusing'
  BY <1>14, CommitKeepsRefusing DEF Commit
<1>15. ASSUME NEW p \in Sessions, CommitFails(p) PROVE Refusing'
  <2>1. CASE TakeEffect(p) /\ failure' = [failure EXCEPT ![p] = "write"] /\ Goto(p, "cleanup")
    BY <1>15, <2>1, CommitKeepsRefusing DEF CommitFails
  <2>2. CASE Fail(p, "cleanup") /\ attempted' = [attempted EXCEPT ![p] = TRUE] /\ UNCHANGED <<path, opened>>
    <3>1. attempted'[p] = TRUE /\ \A q \in Sessions \ {p} : attempted'[q] = attempted[q]
      BY <2>2 DEF TypeOK, Typed
    <3> QED
      BY <1>15, <1>asked, <2>2, <3>1, FailKeepsRefusing DEF CommitFails
  <2> QED
    BY <1>15, <2>1, <2>2 DEF CommitFails
<1>16. ASSUME NEW p \in Sessions, Harden(p) PROVE Refusing'
  <2>1. write'[p] = NoWrite /\ failure'[p] = "none" /\ pc'[p] = "ready" /\ disk' = disk /\ path' = path
    BY <1>16 DEF Harden, Answer, fileVars, Goto, TypeOK, Typed
  <2>2. Undecided(p)'
    BY <2>1, IdleUndecided
  <2>3. \A q \in Sessions \ {p} : Untouched(q)
    BY <1>16 DEF Harden, Answer, fileVars, Goto, Untouched, TypeOK, Typed
  <2>4. \A w \in Writes : verdict'[w] = verdict[w] \/ verdict'[w] = "ok"
    BY <1>16 DEF Harden, Answer, TypeOK, Typed
  <2> QED
    BY <2>1, <2>2, <2>3, <2>4, QuietRefusing DEF Refused
<1>17. ASSUME NEW p \in Sessions, HardenFails(p) PROVE Refusing'
  BY <1>17, <1>asked, FailKeepsRefusing DEF HardenFails
<1>18. ASSUME NEW p \in Sessions, Cleanup(p) PROVE Refusing'
  <2>1. path' \in {path, 0}
    BY <1>18 DEF Cleanup
  <2>2. \A q \in Sessions \ {p} : Untouched(q)
    BY <1>18 DEF Cleanup, Goto, Untouched, TypeOK, Typed
  <2>3. pc'[p] = "recover"
    BY <1>18 DEF Cleanup, Goto, TypeOK, Typed
  <2> QED
    BY <1>18, <1>same, <1>quiet, <2>1, <2>2, <2>3 DEF Cleanup
<1>19. ASSUME NEW p \in Sessions, Kill(p) PROVE Refusing'
  <2>1. write'[p] = NoWrite /\ failure'[p] = "none" /\ pc'[p] = "down" /\ disk' = disk /\ path' = path
    BY <1>19 DEF Kill, Goto, TypeOK, Typed
  <2>2. Undecided(p)'
    BY <2>1, IdleUndecided
  <2>3. \A q \in Sessions \ {p} : Untouched(q)
    BY <1>19 DEF Kill, Goto, Untouched, TypeOK, Typed
  <2>4. \A w \in Writes : verdict'[w] = verdict[w] \/ verdict'[w] = "unknown"
    BY <1>19 DEF Kill, TypeOK, Typed
  <2> QED
    BY <2>1, <2>2, <2>3, <2>4, QuietRefusing DEF Refused
<1>20. CASE UNCHANGED vars
  <2>1. \A f : Holding(f)' = Holding(f)
    BY <1>20, <1>holding DEF vars
  <2> QED
    BY <1>20, <2>1 DEF vars, Refusing, Honest, Refused, Undecided
<1> QED
  BY <1>1, <1>2, <1>3, <1>4, <1>5, <1>6, <1>7, <1>8, <1>9, <1>10, <1>11, <1>12, <1>13, <1>14, <1>15, <1>16, <1>17, <1>18, <1>19, <1>20 DEF Next, Proceed

(* What was answered as not written is not in the file, wherever it came   *)
(* from, whoever removed it and whatever was written after it.             *)
THEOREM RefusalsStand == Spec => []RefusedNeverStored
<1>1. TypeOK /\ Refusing => RefusedNeverStored
  <2> SUFFICES ASSUME TypeOK, Refusing PROVE RefusedNeverStored
    OBVIOUS
  <2>1. CASE path = 0
    BY <2>1 DEF RefusedNeverStored, Stored, Commits
  <2>2. CASE path # 0
    <3>1. path \in Files /\ Stored = Holding(path)
      BY <2>2 DEF Stored, Commits, Holding, TypeOK, Typed
    <3> QED
      BY <3>1 DEF RefusedNeverStored, Refusing, Honest, Refused
  <2> QED
    BY <2>1, <2>2
<1>2. Init => Refusing
  <2> SUFFICES ASSUME Init PROVE Refusing
    OBVIOUS
  <2>1. \A f \in Files : Holding(f) = {}
    BY DEF Init, Holding, NewFile
  <2> QED
    BY <2>1 DEF Init, Refusing, Honest, Undecided
<1> QED
  BY <1>1, <1>2, TypeInvariant, StepsKeepRefusing, PTL DEF Spec
===============================================================================
