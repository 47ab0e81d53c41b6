----------------------------- MODULE EngineProcess ----------------------------
(***************************************************************************)
(* The process through which the server calls the engine: calls are queued *)
(* and written one after another to the engine's stdin, executed by it in  *)
(* turn, and settled by the answers it writes back, by a timeout, by its   *)
(* silence or its end, or by closing it.  After the first failure nothing  *)
(* more is asked of it.                                                    *)
(*                                                                         *)
(* One action is what one event runs up to its next await.  The engine is  *)
(* the loop of main.rs; what a call does to the session is the subject of  *)
(* StateFile and Worlds.  The pipes are external: they keep their order,   *)
(* and what the engine wrote can be read after its end.                    *)
(***************************************************************************)
EXTENDS Naturals, Sequences, SequencesExt, FiniteSets

CONSTANTS
  Calls,              \* each made once
  Mutating,           \* MUTATING_OPERATIONS
  Describe,           \* the request that opens the conversation
  None,
  MaxPendingCalls,
  TimeoutModes        \* "one" limit for every call, or one "each" kind

ASSUME EngineProcessAssumption ==
  /\ Mutating \subseteq Calls
  /\ Describe \notin Calls /\ None \notin Calls \cup {Describe}
  /\ MaxPendingCalls \in Nat \ {0}
  /\ TimeoutModes \subseteq {"one", "each"}

Requests == Calls \cup {Describe}

VARIABLES
  mode,          \* whether timeoutMs is given
  child,         \* whether the engine was spawned
  description,   \* whether it has described itself
  failure, closed,
  outcome,       \* call -> where it is, or what its caller was told
  pending,       \* the requests not answered, oldest first
  timers,        \* the pending requests whose timer runs
  writeQueue,    \* the requests not handed to stdin
  writing,       \* the request whose write has not completed
  heartbeat,     \* whether the engine has beaten
  killed,        \* whether it was sent SIGKILL
  alive, stdin, running, executed, stdout        \* the engine and its pipes

callVars   == <<outcome, pending, timers>>
writeVars  == <<writeQueue, writing>>
lifeVars   == <<mode, child, description, failure, closed, heartbeat, killed>>
engineVars == <<alive, running, executed, stdout>>
vars == <<callVars, writeVars, lifeVars, engineVars, stdin>>

Outcomes == {"idle", "waiting", "pending", "answered", "refused", "indeterminate"}

TypeOK ==
  /\ mode \in TimeoutModes
  /\ {child, description, failure, closed, heartbeat, killed, alive} \subseteq BOOLEAN
  /\ outcome \in [Calls -> Outcomes]
  /\ pending \in Seq(Requests) /\ Len(pending) <= MaxPendingCalls
  /\ timers \subseteq Requests
  /\ writeQueue \in Seq(Requests) /\ stdin \in Seq(Requests) /\ stdout \in Seq(Requests)
  /\ writing \in Requests \cup {None} /\ running \in Requests \cup {None}
  /\ executed \subseteq Requests
  /\ {c \in Calls : outcome[c] = "pending"} = ToSet(pending) \ {Describe}

Init ==
  /\ mode \in TimeoutModes
  /\ child = FALSE /\ description = FALSE /\ failure = FALSE /\ closed = FALSE
  /\ outcome = [c \in Calls |-> "idle"]
  /\ pending = <<>> /\ timers = {}
  /\ writeQueue = <<>> /\ writing = None
  /\ heartbeat = FALSE /\ killed = FALSE
  /\ alive = FALSE /\ stdin = <<>> /\ running = None /\ executed = {} /\ stdout = <<>>

Usable == ~failure /\ ~closed

FirstOf(s) == IF s = <<>> THEN {} ELSE {Head(s)}

(* Mutant: only a request that finds nothing pending has its time start.   *)
TimersOfNew(s) == (timers \cap ToSet(s)) \cup (IF pending = <<>> THEN ToSet(s) ELSE {})

(* Of the requests now pending, the oldest is given a timer; with one      *)
(* limit for all, each is.                                                 *)
StartTimers(s) == (timers \cap ToSet(s)) \cup (IF mode = "one" THEN ToSet(s) ELSE FirstOf(s))

(* A request is written when the one before it is.                         *)
ScheduleWrite(r) ==
  \/ /\ writing = None
     /\ writing' = r /\ stdin' = Append(stdin, r)
     /\ UNCHANGED writeQueue
  \/ /\ writing # None
     /\ writeQueue' = Append(writeQueue, r)
     /\ UNCHANGED <<writing, stdin>>

Enqueue(r) ==
  /\ pending' = Append(pending, r)
  /\ timers' = StartTimers(pending')
  /\ ScheduleWrite(r)

(* Mutant: only a completed write counts as sent.                          *)
LostUnlessWritten(c) ==
  IF c \in Mutating /\ c # writing /\ c \notin ToSet(writeQueue) THEN "indeterminate" ELSE "refused"

(* A mutation that was handed to stdin may have been executed.             *)
Lost(c) ==
  IF c \in Mutating /\ c \notin ToSet(writeQueue) THEN "indeterminate" ELSE "refused"

RejectPending ==
  /\ outcome' = [c \in Calls |-> IF outcome[c] = "pending" THEN Lost(c) ELSE outcome[c]]
  /\ pending' = <<>> /\ timers' = {} /\ writeQueue' = <<>>

Fail ==
  /\ failure' = TRUE
  /\ RejectPending
  /\ killed' = TRUE
  /\ UNCHANGED <<mode, child, description, closed, heartbeat, writing, stdin>>

-----------------------------------------------------------------------------
(* Calling.                                                                *)

(* The call waits for the engine to have described itself; the first one   *)
(* spawns it.                                                              *)
Call(c) ==
  /\ outcome[c] = "idle"
  /\ \/ /\ description \/ (Usable /\ child)
        /\ outcome' = [outcome EXCEPT ![c] = "waiting"]
        /\ UNCHANGED <<pending, timers, writeVars, lifeVars, engineVars, stdin>>
     \/ /\ ~description /\ Usable /\ ~child
        /\ outcome' = [outcome EXCEPT ![c] = "waiting"]
        /\ child' = TRUE /\ alive' = TRUE
        /\ Enqueue(Describe)
        /\ UNCHANGED <<mode, description, failure, closed, heartbeat, killed,
                       running, executed, stdout>>
     \/ /\ ~description       \* failed, closed, or the binary is not there
        /\ ~Usable \/ ~child
        /\ outcome' = [outcome EXCEPT ![c] = "refused"]
        /\ UNCHANGED <<pending, timers, writeVars, lifeVars, engineVars, stdin>>

(* The engine is described: the call is queued, unless the queue is full,  *)
(* its command is too large or the engine is gone.                         *)
Dispatch(c) ==
  /\ outcome[c] = "waiting" /\ description
  /\ \/ /\ Usable /\ Len(pending) < MaxPendingCalls
        /\ outcome' = [outcome EXCEPT ![c] = "pending"]
        /\ Enqueue(c)
     \/ /\ outcome' = [outcome EXCEPT ![c] = "refused"]
        /\ UNCHANGED <<pending, timers, writeVars, stdin>>
  /\ UNCHANGED <<lifeVars, engineVars>>

(* The engine failed or was closed before it described itself.             *)
InitializeRejected(c) ==
  /\ outcome[c] = "waiting" /\ ~description /\ ~Usable
  /\ outcome' = [outcome EXCEPT ![c] = "refused"]
  /\ UNCHANGED <<pending, timers, writeVars, lifeVars, engineVars, stdin>>

-----------------------------------------------------------------------------
(* Events of the process.                                                  *)

(* The write callback and the drain came: the next command is written.     *)
WriteDone ==
  /\ Usable /\ writing # None
  /\ \/ /\ writeQueue = <<>>
        /\ writing' = None
        /\ UNCHANGED <<writeQueue, stdin>>
     \/ /\ writeQueue # <<>>
        /\ writing' = Head(writeQueue) /\ stdin' = Append(stdin, Head(writeQueue))
        /\ writeQueue' = Tail(writeQueue)
  /\ UNCHANGED <<callVars, lifeVars, engineVars>>

(* An answer settles its call, whatever it says.  The first one must       *)
(* describe an engine with the operations the server needs.                *)
ConsumeResponse ==
  /\ Usable /\ stdout # <<>>
  /\ stdout' = Tail(stdout)
  /\ LET r == Head(stdout)
         answered == {i \in DOMAIN pending : pending[i] = r}
     IN  IF answered = {} THEN Fail
         ELSE \/ /\ \E i \in answered : pending' = RemoveAt(pending, i)
                 /\ timers' = StartTimers(pending')
                 /\ outcome' = [c \in Calls |-> IF c = r THEN "answered" ELSE outcome[c]]
                 /\ description' = (description \/ r = Describe)
                 /\ UNCHANGED <<mode, child, failure, closed, heartbeat, killed, writeVars, stdin>>
              \/ r = Describe /\ Fail
  /\ UNCHANGED <<alive, running, executed>>

Beat ==
  /\ alive /\ ~heartbeat
  /\ heartbeat' = TRUE
  /\ UNCHANGED <<callVars, writeVars, mode, child, description, failure, closed, killed,
                 engineVars, stdin>>

(* What makes the process give the engine up.                              *)
TimedOut(r) == Usable /\ r \in timers /\ Fail /\ UNCHANGED engineVars

FallsSilent == Usable /\ heartbeat /\ pending # <<>> /\ Fail /\ UNCHANGED engineVars

ExitSeen == Usable /\ child /\ ~alive /\ Fail /\ UNCHANGED engineVars

WriteFails == Usable /\ writing # None /\ ~alive /\ Fail /\ UNCHANGED engineVars

ResponseTooLarge == Usable /\ stdout # <<>> /\ Fail /\ UNCHANGED engineVars

Close ==
  /\ ~closed
  /\ closed' = TRUE
  /\ IF failure THEN UNCHANGED <<callVars, writeQueue>> ELSE RejectPending
  /\ UNCHANGED <<mode, child, description, failure, heartbeat, killed, writing, engineVars, stdin>>

(* A closed engine that does not end in time is killed.                    *)
ForceKill ==
  /\ closed /\ alive /\ ~killed
  /\ killed' = TRUE
  /\ UNCHANGED <<callVars, writeVars, mode, child, description, failure, closed, heartbeat,
                 engineVars, stdin>>

-----------------------------------------------------------------------------
(* The engine: main.rs.                                                    *)

(* One command is read and executed; its changes are stored, if it has     *)
(* any, before it is answered.                                             *)
Execute ==
  /\ alive /\ running = None /\ stdin # <<>>
  /\ running' = Head(stdin) /\ stdin' = Tail(stdin)
  /\ executed' = executed \cup {Head(stdin)}
  /\ UNCHANGED <<callVars, writeVars, lifeVars, alive, stdout>>

Respond ==
  /\ alive /\ running # None
  /\ stdout' = Append(stdout, running)
  /\ running' = None
  /\ UNCHANGED <<callVars, writeVars, lifeVars, alive, executed, stdin>>

(* It cannot open its store, crashes or is killed by another.              *)
Dies ==
  /\ alive
  /\ alive' = FALSE
  /\ UNCHANGED <<callVars, writeVars, lifeVars, running, executed, stdout, stdin>>

(* The SIGKILL lands.                                                      *)
Killed == killed /\ Dies

(* The end of its input ends it.                                           *)
EndOfInput == closed /\ stdin = <<>> /\ running = None /\ Dies

-----------------------------------------------------------------------------
Next ==
  \/ \E c \in Calls : Call(c) \/ Dispatch(c) \/ InitializeRejected(c)
  \/ WriteDone \/ ConsumeResponse \/ Beat
  \/ \E r \in Requests : TimedOut(r)
  \/ FallsSilent \/ ExitSeen \/ WriteFails \/ ResponseTooLarge
  \/ Close \/ ForceKill
  \/ Execute \/ Respond \/ Dies \/ Killed \/ EndOfInput

Spec == Init /\ [][Next]_vars

(* The server runs its continuations and its timers, and a SIGKILL lands.  *)
(* Nothing is asked of the engine: it may never answer.                    *)
FairSpec ==
  /\ Spec
  /\ \A c \in Calls : WF_vars(Dispatch(c) \/ InitializeRejected(c))
  /\ \A r \in Requests : WF_vars(TimedOut(r))
  /\ WF_vars(ForceKill) /\ WF_vars(Killed)

-----------------------------------------------------------------------------
(* Properties.                                                             *)

(* Every call is settled, whatever becomes of the engine; and an engine    *)
(* that was given up or closed ends, and lets go of its store.             *)
CallsSettle ==
  /\ \A c \in Calls : outcome[c] \in {"waiting", "pending"} ~> outcome[c] \notin {"waiting", "pending"}
  /\ (child /\ (failure \/ closed)) ~> ~alive

(* The process keeps the promise made to its callers.                      *)
Told == [c \in Calls |-> IF outcome[c] \in {"waiting", "pending"} THEN "asked" ELSE outcome[c]]
Remote == INSTANCE RemoteCalls WITH executed <- executed \ {Describe}, told <- Told
ImplementsRemoteCalls == Remote!RSpec
===============================================================================
