------------------------------ MODULE StateFile -------------------------------
(***************************************************************************)
(* Durable sessions of several engine processes over one state file: each  *)
(* mutating command is applied in memory, written by one transaction that  *)
(* compares and swaps the file's generation, and answered; a failed write  *)
(* sends the session back to what the file holds.  Every step may fail and *)
(* every process may be killed between two steps.                          *)
(*                                                                         *)
(* SQLite is external: a transaction takes the file's write lock, is       *)
(* atomic, and a COMMIT that reports an error may or may not have taken    *)
(* effect.  What the rows say is the subject of Worlds; here a commit is   *)
(* the set of writes whose rows it stored.                                 *)
(***************************************************************************)
EXTENDS Naturals, Sequences, FiniteSets

CONSTANTS
  Sessions,       \* the engine processes
  Writes,         \* mutating commands, each asked for once
  NoWrite,
  NoSession,
  Starts,         \* how the file may be found: "missing", "v2", "v3"
  MaxFiles,       \* how many times the path may get a new file
  MaxKills

ASSUME StateFileAssumption ==
  /\ NoWrite \notin Writes /\ NoSession \notin Sessions
  /\ Starts \subseteq {"missing", "v2", "v3"}
  /\ MaxFiles \in Nat \ {0} /\ MaxKills \in Nat

Files == 1..MaxFiles

VARIABLES
  path,        \* the file the state path names, 0 for none
  disk,        \* file -> its schema, generation and commits
  lock,        \* file -> the session that holds its write lock
  pc,          \* session -> where it is
  memory,      \* session -> what it read or wrote: generation and commits
  dirty,       \* session -> writes applied in memory and not stored
  write,       \* session -> the command it runs
  failure,     \* session -> what failed of that command, if anything yet
  existed,     \* session -> existed_before of its write
  attempted,   \* session -> commit_attempted of its write
  opened,      \* session -> the file its connection has open
  verdict,     \* write -> what its caller was told
  kills

fileVars    == <<path, disk, lock>>
sessionVars == <<pc, memory, dirty, write, failure, existed, attempted, opened>>
vars        == <<path, disk, lock, pc, memory, dirty, write, failure, existed, attempted, opened,
                 verdict, kills>>

Schemas == {"none", "v2", "v3"}
File    == [schema : Schemas, generation : Nat, commits : Seq(SUBSET Writes)]
Memory  == [generation : Nat, commits : Seq(SUBSET Writes)]

Steps ==
  {"down", "ready",
   "probe", "open", "begin", "commit", "harden",    \* of a write
   "cleanup", "recover",                            \* after a failure
   "identify", "snapshot"}                          \* of a load

Failures == {"none", "command", "write"}

Verdicts == {"unasked", "running", "ok", "persistence_error",
             "persistence_uncertain", "error", "unknown"}

Typed ==
  /\ path \in {0} \cup Files
  /\ disk \in [Files -> File]
  /\ lock \in [Files -> Sessions \cup {NoSession}]
  /\ pc \in [Sessions -> Steps]
  /\ memory \in [Sessions -> Memory]
  /\ dirty \in [Sessions -> SUBSET Writes]
  /\ write \in [Sessions -> Writes \cup {NoWrite}]
  /\ failure \in [Sessions -> Failures]
  /\ existed \in [Sessions -> BOOLEAN]
  /\ attempted \in [Sessions -> BOOLEAN]
  /\ opened \in [Sessions -> {0} \cup Files]
  /\ verdict \in [Writes -> Verdicts]
  /\ kills \in 0..MaxKills

(* A transaction has the lock, of the file its connection has open, until  *)
(* its COMMIT.                                                             *)
Locks ==
  /\ \A f \in Files, p \in Sessions : lock[f] = p => pc[p] = "commit" /\ opened[p] = f
  /\ \A p \in Sessions : pc[p] \in {"begin", "commit", "harden"} => opened[p] # 0

(* A command runs in one session until it is answered.                     *)
Commands ==
  /\ \A p \in Sessions : write[p] = NoWrite => pc[p] \in {"down", "ready", "identify", "snapshot"}
  /\ \A p \in Sessions : pc[p] \in {"down", "ready"} => write[p] = NoWrite
  /\ \A p \in Sessions : write[p] # NoWrite => verdict[write[p]] = "running"
  /\ \A p, q \in Sessions : write[p] = write[q] /\ write[p] # NoWrite => p = q

TypeOK == Typed /\ Locks /\ Commands

NewFile   == [schema |-> "none", generation |-> 0, commits |-> <<>>]
NewMemory == [generation |-> 0, commits |-> <<>>]

Init ==
  /\ \E start \in Starts :
       /\ path = (IF start = "missing" THEN 0 ELSE 1)
       /\ disk = [f \in Files |->
                    IF f = path THEN [schema |-> start, generation |-> 1, commits |-> <<>>]
                    ELSE NewFile]
  /\ lock = [f \in Files |-> NoSession]
  /\ pc = [p \in Sessions |-> "down"]
  /\ memory = [p \in Sessions |-> NewMemory]
  /\ dirty = [p \in Sessions |-> {}]
  /\ write = [p \in Sessions |-> NoWrite]
  /\ failure = [p \in Sessions |-> "none"]
  /\ existed = [p \in Sessions |-> FALSE]
  /\ attempted = [p \in Sessions |-> FALSE]
  /\ opened = [p \in Sessions |-> 0]
  /\ verdict = [w \in Writes |-> "unasked"]
  /\ kills = 0

Goto(p, step) == pc' = [pc EXCEPT ![p] = step]

(* A file nobody has named yet, if the bound leaves one.                   *)
Unused == {f \in Files : f # path /\ disk[f] = NewFile /\ \A p \in Sessions : opened[p] # f}

(* Opening a connection that may create its file names the file that is    *)
(* there, or a new one.                                                    *)
OpenOrCreate(p) ==
  \E f \in IF path = 0 THEN Unused ELSE {path} :
     path' = f /\ opened' = [opened EXCEPT ![p] = f]

-----------------------------------------------------------------------------
(* Loading the file: when a process starts, and to drop the changes of a   *)
(* command or a write that failed.                                         *)

Readable == path # 0 /\ disk[path].schema # "none"

(* Mutant: a COMMIT that reports an error is taken at its word.            *)
TrustsCommitError(p, reloaded, generation) ==
  IF failure[p] = "command" THEN "error" ELSE "persistence_error"

(* What the caller is told of the command that failed: its own error; or   *)
(* that its write did not happen, unless its COMMIT was attempted and the  *)
(* file then could not be read back or holds a later generation.           *)
FailureVerdict(p, reloaded, generation) ==
  IF failure[p] = "command" THEN "error"
  ELSE IF attempted[p] /\ (~reloaded \/ generation > memory[p].generation)
  THEN "persistence_uncertain" ELSE "persistence_error"

(* The session is ready for its next command.                              *)
Answer(p, v) ==
  /\ verdict' = [verdict EXCEPT ![write[p]] = v]
  /\ write' = [write EXCEPT ![p] = NoWrite]
  /\ failure' = [failure EXCEPT ![p] = "none"]
  /\ existed' = [existed EXCEPT ![p] = FALSE]
  /\ attempted' = [attempted EXCEPT ![p] = FALSE]
  /\ opened' = [opened EXCEPT ![p] = 0]
  /\ Goto(p, "ready")

(* The session is what was read, and answers what it was recovering from.  *)
Loaded(p, m) ==
  /\ memory' = [memory EXCEPT ![p] = m]
  /\ dirty' = [dirty EXCEPT ![p] = {}]
  /\ \/ /\ write[p] = NoWrite
        /\ Goto(p, "ready")
        /\ UNCHANGED <<write, failure, existed, attempted, opened, verdict>>
     \/ /\ write[p] # NoWrite
        /\ Answer(p, FailureVerdict(p, TRUE, m.generation))

(* A process that cannot open its store exits; a session that cannot       *)
(* reload keeps what it has, unwritten changes included.                   *)
NotLoaded(p) ==
  /\ UNCHANGED <<memory, dirty>>
  /\ \/ /\ write[p] = NoWrite
        /\ Goto(p, "down")
        /\ UNCHANGED <<write, failure, existed, attempted, opened, verdict>>
     \/ /\ write[p] # NoWrite
        /\ Answer(p, FailureVerdict(p, FALSE, memory[p].generation))

(* No file is an empty session, which the first successful write stores.   *)
Start(p) ==
  /\ pc[p] = "down"
  /\ Goto(p, IF path = 0 THEN "ready" ELSE "identify")
  /\ memory' = [memory EXCEPT ![p] = NewMemory]
  /\ dirty' = [dirty EXCEPT ![p] = {}]
  /\ UNCHANGED <<fileVars, write, failure, existed, attempted, opened, verdict, kills>>

(* Mutant: a session whose file is gone has nothing to return to.          *)
RecoverFileOnly(p) ==
  /\ pc[p] = "recover"
  /\ path # 0
  /\ Goto(p, "identify")
  /\ UNCHANGED <<memory, dirty, write, failure, existed, attempted, opened, verdict>>
  /\ UNCHANGED <<fileVars, kills>>

(* Back to what the file holds, or to nothing where no file was written.   *)
Recover(p) ==
  /\ pc[p] = "recover"
  /\ \/ path = 0 /\ Loaded(p, NewMemory)
     \/ /\ path # 0
        /\ Goto(p, "identify")
        /\ UNCHANGED <<memory, dirty, write, failure, existed, attempted, opened, verdict>>
  /\ UNCHANGED <<fileVars, kills>>

(* The first of a load's two connections never creates a file.             *)
Identify(p) ==
  /\ pc[p] = "identify" /\ Readable
  /\ Goto(p, "snapshot")
  /\ UNCHANGED <<fileVars, memory, dirty, write, failure, existed, attempted, opened, verdict, kills>>

IdentifyFails(p) ==
  /\ pc[p] = "identify"
  /\ NotLoaded(p)
  /\ UNCHANGED <<fileVars, kills>>

(* The second reads one snapshot.  It would create a file that vanished    *)
(* since, and find no session in it.                                       *)
Snapshot(p) ==
  /\ pc[p] = "snapshot" /\ Readable
  /\ Loaded(p, [generation |-> disk[path].generation, commits |-> disk[path].commits])
  /\ UNCHANGED <<fileVars, kills>>

SnapshotFails(p) ==
  /\ pc[p] = "snapshot"
  /\ IF path = 0 THEN path' \in Unused \cup {0} ELSE path' = path
  /\ NotLoaded(p)
  /\ UNCHANGED <<disk, lock, kills>>

-----------------------------------------------------------------------------
(* Running a command and writing its changes.                              *)

(* Mutant: a command runs over changes that were never written.            *)
ChangeOverUnwritten(p, w) ==
  /\ pc[p] = "ready"
  /\ verdict[w] = "unasked"
  /\ verdict' = [verdict EXCEPT ![w] = "running"]
  /\ dirty' = [dirty EXCEPT ![p] = @ \cup {w}]
  /\ write' = [write EXCEPT ![p] = w]
  /\ \/ Goto(p, "probe") /\ UNCHANGED failure
     \/ Goto(p, "recover") /\ failure' = [failure EXCEPT ![p] = "command"]
  /\ UNCHANGED <<fileVars, memory, existed, attempted, opened, kills>>

(* A command changes the session, or fails after it did.  A session that   *)
(* holds unwritten changes refuses it; one that changes nothing or fails   *)
(* before it does leaves nothing to write.                                 *)
Change(p, w) ==
  /\ pc[p] = "ready" /\ dirty[p] = {}
  /\ verdict[w] = "unasked"
  /\ verdict' = [verdict EXCEPT ![w] = "running"]
  /\ dirty' = [dirty EXCEPT ![p] = @ \cup {w}]
  /\ write' = [write EXCEPT ![p] = w]
  /\ \/ Goto(p, "probe") /\ UNCHANGED failure
     \/ Goto(p, "recover") /\ failure' = [failure EXCEPT ![p] = "command"]
  /\ UNCHANGED <<fileVars, memory, existed, attempted, opened, kills>>

(* The write failed: its connection is closed and its transaction, if any, *)
(* rolled back.                                                            *)
Fail(p, step) ==
  /\ failure' = [failure EXCEPT ![p] = "write"]
  /\ lock' = [f \in Files |-> IF lock[f] = p THEN NoSession ELSE lock[f]]
  /\ Goto(p, step)
  /\ UNCHANGED <<disk, memory, dirty, write, existed, verdict, kills>>

(* Whether the file existed is read before it is opened.                   *)
Probe(p) ==
  /\ pc[p] = "probe"
  /\ existed' = [existed EXCEPT ![p] = path # 0]
  /\ Goto(p, "open")
  /\ UNCHANGED <<fileVars, memory, dirty, write, failure, attempted, opened, verdict, kills>>

(* The parent directory does not exist.                                    *)
ProbeFails(p) ==
  /\ pc[p] = "probe"
  /\ Fail(p, "recover")
  /\ UNCHANGED <<path, attempted, opened>>

Open(p) ==
  /\ pc[p] = "open"
  /\ OpenOrCreate(p)
  /\ Goto(p, "begin")
  /\ UNCHANGED <<disk, lock, memory, dirty, write, failure, existed, attempted, verdict, kills>>

(* Opening fails, or setting permissions or pragmas does once the file is  *)
(* there.                                                                  *)
OpenFails(p) ==
  /\ pc[p] = "open"
  /\ \/ UNCHANGED <<path, opened>>
     \/ OpenOrCreate(p)
  /\ Fail(p, "cleanup")
  /\ UNCHANGED attempted

(* The transaction has the write lock and the file is at the generation    *)
(* this session last read or wrote: the rows may be written.               *)
Begin(p) ==
  /\ pc[p] = "begin"
  /\ lock[opened[p]] = NoSession
  /\ disk[opened[p]].generation = memory[p].generation
  /\ lock' = [lock EXCEPT ![opened[p]] = p]
  /\ Goto(p, "commit")
  /\ UNCHANGED <<path, disk, memory, dirty, write, failure, existed, attempted, opened, verdict, kills>>

(* The lock is not had in time, the generation is another, or a statement  *)
(* fails.                                                                  *)
WriteFails(p) ==
  /\ pc[p] \in {"begin", "commit"}
  /\ Fail(p, "cleanup")
  /\ UNCHANGED <<path, attempted, opened>>

(* The file after p's COMMIT took effect: at the latest schema, the next   *)
(* generation, with exactly the dirty rows stored.                         *)
WithCommit(p) ==
  [schema     |-> "v3",
   generation |-> memory[p].generation + 1,
   commits    |-> Append(disk[opened[p]].commits, dirty[p])]

TakeEffect(p) ==
  /\ disk' = [disk EXCEPT ![opened[p]] = WithCommit(p)]
  /\ lock' = [lock EXCEPT ![opened[p]] = NoSession]
  /\ attempted' = [attempted EXCEPT ![p] = TRUE]
  /\ UNCHANGED <<path, memory, dirty, write, existed, opened, verdict, kills>>

Commit(p) ==
  /\ pc[p] = "commit"
  /\ TakeEffect(p)
  /\ Goto(p, "harden")
  /\ UNCHANGED failure

(* COMMIT reports an error, having taken effect or not.                    *)
CommitFails(p) ==
  /\ pc[p] = "commit"
  /\ \/ /\ TakeEffect(p)
        /\ failure' = [failure EXCEPT ![p] = "write"]
        /\ Goto(p, "cleanup")
     \/ /\ Fail(p, "cleanup")
        /\ attempted' = [attempted EXCEPT ![p] = TRUE]
        /\ UNCHANGED <<path, opened>>

(* Permissions are set again by name, which needs a file of that name and  *)
(* takes whichever has it by now, and the command is answered.             *)
Harden(p) ==
  /\ pc[p] = "harden" /\ path # 0
  /\ memory' = [memory EXCEPT ![p] =
                  [generation |-> memory[p].generation + 1,
                   commits    |-> Append(memory[p].commits, dirty[p])]]
  /\ dirty' = [dirty EXCEPT ![p] = {}]
  /\ Answer(p, "ok")
  /\ UNCHANGED <<fileVars, kills>>

HardenFails(p) ==
  /\ pc[p] = "harden"
  /\ Fail(p, "cleanup")
  /\ UNCHANGED <<path, attempted, opened>>

(* Mutant: whatever was there before is removed.                           *)
CleanupAlways(p) ==
  /\ pc[p] = "cleanup"
  /\ path' = IF ~attempted[p] THEN 0 ELSE path
  /\ Goto(p, "recover")
  /\ UNCHANGED <<disk, lock, memory, dirty, write, failure, existed, attempted, opened, verdict, kills>>

(* A write that failed before its COMMIT removes the file it believes it   *)
(* created: the one that has the name by now.                              *)
Cleanup(p) ==
  /\ pc[p] = "cleanup"
  /\ path' = IF ~existed[p] /\ ~attempted[p] THEN 0 ELSE path
  /\ Goto(p, "recover")
  /\ UNCHANGED <<disk, lock, memory, dirty, write, failure, existed, attempted, opened, verdict, kills>>

(* The process is killed.  What it had not committed is rolled back and    *)
(* whoever waits for its answer gets none.                                 *)
Kill(p) ==
  /\ pc[p] # "down" /\ kills < MaxKills
  /\ kills' = kills + 1
  /\ lock' = [f \in Files |-> IF lock[f] = p THEN NoSession ELSE lock[f]]
  /\ verdict' = [w \in Writes |-> IF w = write[p] THEN "unknown" ELSE verdict[w]]
  /\ Goto(p, "down")
  /\ memory' = [memory EXCEPT ![p] = NewMemory]
  /\ dirty' = [dirty EXCEPT ![p] = {}]
  /\ write' = [write EXCEPT ![p] = NoWrite]
  /\ failure' = [failure EXCEPT ![p] = "none"]
  /\ existed' = [existed EXCEPT ![p] = FALSE]
  /\ attempted' = [attempted EXCEPT ![p] = FALSE]
  /\ opened' = [opened EXCEPT ![p] = 0]
  /\ UNCHANGED <<path, disk>>

-----------------------------------------------------------------------------
(* What a session does by itself, once started.                            *)
Proceed(p) ==
  \/ Recover(p) \/ Identify(p) \/ IdentifyFails(p) \/ Snapshot(p) \/ SnapshotFails(p)
  \/ Probe(p) \/ ProbeFails(p) \/ Open(p) \/ OpenFails(p) \/ Begin(p) \/ WriteFails(p)
  \/ Commit(p) \/ CommitFails(p) \/ Harden(p) \/ HardenFails(p) \/ Cleanup(p)

Next == \E p \in Sessions :
  Start(p) \/ (\E w \in Writes : Change(p, w)) \/ Proceed(p) \/ Kill(p)

Spec == Init /\ [][Next]_vars

(* A session runs one command at a time and never waits without a timeout. *)
FairSpec == Spec /\ \A p \in Sessions : WF_vars(Proceed(p))

-----------------------------------------------------------------------------
(* Properties.                                                             *)

Commits == IF path = 0 THEN <<>> ELSE disk[path].commits
Stored  == UNION {Commits[i] : i \in DOMAIN Commits}

(* What was answered with success is in the file, whoever writes after it, *)
(* fails, is killed or cleans up.                                          *)
AcknowledgedStored ==
  \A w \in Writes : verdict[w] = "ok" => w \in Stored

(* What was answered as not written is not in the file and no later write  *)
(* of any session brings it there: its rows are gone from memory, or the   *)
(* session that still has them writes no more.                             *)
RefusedNeverStored ==
  \A w \in Writes : verdict[w] \in {"persistence_error", "error"} => w \notin Stored

(* The generation a session holds stands for the rows it holds: while it   *)
(* is the file's, so are they, and a compare-and-swap that passes          *)
(* overwrites nothing unseen.                                              *)
GenerationNamesRows ==
  path # 0 => \A p \in Sessions :
    (pc[p] = "ready" /\ memory[p].generation = disk[path].generation)
      => memory[p].commits = disk[path].commits

(* Every command is answered, or its process killed.                       *)
CommandsAnswered ==
  \A w \in Writes : verdict[w] = "running" ~> verdict[w] # "running"

(* The file implements the log its callers were promised.                  *)
Log == INSTANCE DurableLog WITH log <- Commits
ImplementsDurableLog == Log!LSpec
===============================================================================
