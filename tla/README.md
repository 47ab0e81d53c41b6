# Verification of the meaning model

TLA+ modules for the program in `src/`: a deterministic engine in Rust that keeps
models, worlds and candidate futures in one durable session, and an MCP server in
JavaScript that serves tool calls over it. TLC checks the modules on small
instances; TLAPS proves the theorems of the `*_proofs` modules for every value of
the constants. `PROJECT.json` maps every definition to the source lines it models.

Contents: [1 the system](#1-the-system), [2 the modules](#2-the-modules),
[3 the runs](#3-the-runs), [4 fairness](#4-fairness),
[5 disagreements](#5-where-code-and-documents-disagree), [6 the proofs](#6-the-proofs),
[7 only model-checked](#7-what-is-only-model-checked),
[8 not modelled](#8-what-is-not-modelled), [9 plan](#9-plan),
[10 running](#10-running-the-checks).

## 1 The system

A **model** is a document of processes (typed, bounded values) and laws. A
**world** is an accepted head under a model: a state, claims, a time and a
version. A **roll** computes a **candidate** from a frozen head, a query and a
roll index; candidates are proposals, and only committing one moves the head.
A **world revision** moves a head to the next revision of its model. A **narrative
graph** is a line of revisions, each bound to a model, that records what was
understood about it. A **stage** of futures forks a model into branches.

```
 recording tools, futures,
 estimator jobs, live view
        │ compound calls
        ▼                     one JSON line per command         one transaction
     service ──────────────────────────────▶ engine ──────────────────▶ state file
   receipts, handles,  engine process:       (Rust)  generation CAS,   (SQLite, WAL)
   quotas, memory of   queue, timers,         │      rows and seals          ▲
   ancestry (JS)       SIGKILL                │                         other engine
                                              ▼ roll                     processes
                                          transition
```

| Component | State | Operations | What is hard | What makes it correct |
|---|---|---|---|---|
| worlds and candidates (`session/worlds.rs`, `candidates.rs`, `models.rs`, `capacity.rs`) | models, worlds with heads, revisions, candidates with status and path | register/revise model, create/refine/revise world, roll, reroll, reject, commit | long legal sequences; stale parents; rerolls and upgrades of what is stored; limits checked one change at a time, restored all at once | history only extends; one future per head; what is written restores |
| narrative graphs and project checkpoints (`session/narrative.rs`, `session/checkpoints.rs`, `model/project.rs`) | graph revisions, the snapshot of the source each was bound to | register, revise, keep the source, export | the head or candidate a graph froze is refined, revised, decided or superseded afterwards | what was admitted is admitted again on reopening; what may be exported holds by itself |
| state file (`session.rs`, `session/persistence.rs`) | the file, its generation and rows; each session's memory and unwritten changes | load, run a command, write it, answer, recover | several processes on one file, a failure after any step, COMMIT in doubt, kills, creation and removal of the file | acknowledged is stored, refused is not, a passed compare-and-swap overwrites nothing unseen |
| revision store (`session/model_store.rs`, `store_rows.rs`, `model_delta.rs`, `restore.rs`) | rows of revisions, whole or as changes, their seals; each session's headers, held rows and caches | open, validate, seal, read, revise, write, migrate, audit | trust in what an earlier process validated, files that something else changed, a cache that forgets, rows released once sealed | every known revision can be read again; what is served is what was accepted; what was sealed is not validated twice |
| transition (`model/transition.rs`, `model/query.rs`) | state and claims of a roll, thresholds held, marks, samples | initial boundary, steps, end | order of laws, simultaneous effects, values carried, evidence from the future, rounding of boundaries | exact laws hold, observations stay, interventions land once, claims are causal |
| engine process (`rust-engine-process.mjs`, `main.rs`) | pending queue, timers, write queue, heartbeat, the child and its pipes | call, write, answer, time out, fail, close | a timeout racing an answer, calls queued behind another, a lost child, backpressure | no call both answered and lost; a refused mutation never runs; every call is settled and the child ends |
| service (`service.mjs`) | handles of worlds, receipts by request id, reservations, the estimation ledger | create, refine, revise, roll, reroll, reject, accept, reopening; request, propose and review estimates | reads before an `await` used after it, retries in flight, quotas held across awaits | a request executes once, retries share its receipt, quotas hold, a commit is on the head that was expected, what is estimated is frozen as one |
| graph recording (`memory-workflow.mjs`, `graph-head.mjs`, `construction-record.mjs`, `carve-record.mjs`, `breadth-record.mjs`, `narrative-rebind.mjs`) | graph revisions, receipts of each step | record, review, remember, capture, carve, breadth check, rebind | find the head, then write: another call may write in between; a compound call fails between its steps and is sent again | a graph forks only where calls raced, links resolve, a compound record is whole |
| futures (`futures.mjs`, `model-lineage.mjs`) | the ancestry cache, the record of written models | fork a stage, revise a model, move a graph | a bounded cache that is rebuilt in parts, a fork refused half way and repeated, restarts, imported histories | only an import takes a graph into another branch; one fork per branch; joint probabilities multiply along the line |
| live view (`viewer-live.mjs`, `viewer-server.mjs`, `viewer/public/live-viewer.js`) | what was opened, the snapshot shown, a refresh under way, the page | open, refresh, fail, reload, close | a snapshot assembled from answers of different moments | it shows one line, and catches up |
| estimator jobs (`estimator-receipts.mjs`, `general-modeling.mjs`, `situation-ingest.mjs`, `cut-shares.mjs`) | requests with checkpoints, proposals, bytes | preview, adopt, ask, write in steps, fail, repeat | a provider that answers differently each time, several calls of it and several writes per request, one request id used by several tools | all is written from one estimate, no complete estimate is rolled anew, every byte belongs to someone |

The other components (the compiler and meanings, views, the legacy registry,
profiles, add-ons, tool schemas)
are listed in `PROJECT.json` with the reason they are not modelled; section 8
summarises them.

**Interactions.** The service calls the engine process and goes on with the answer
in the order asked. The engine process writes commands to the engine's stdin, which
runs one at a time, stores its changes in one transaction *before* it answers, and
reads the next. A session that cannot write goes back to what the file holds.
Compound tools are sequences of service calls, each with a request id of its own.
`WorldRead`/`Mutated` in `Service`, `Execute`/`Respond` in `EngineProcess`,
`Change`…`Harden` in `StateFile` and the actions of `Worlds` are the same events
seen by each component, and so are `Persist` of `RevisionStore` and a commit of
`StateFile`, a `Write` of `GraphRecords` or `EstimatorJobs` and a receipt of
`Service`; each module keeps of the others only what decides its own behaviour and
relies on what the other was shown to promise. Two modules are composed with the one
they extend: `LiveView` with `Futures`, whose variables it reads, and `Narratives`
with `Worlds`, whose heads and candidates its graphs are bound to.

## 2 The modules

| Module | Models | State and actions |
|---|---|---|
| `Retention` | `PathSpec`, `retain`, `path_capacity`, `expected_retained_sample_count`, `path_is_richer` | operators |
| `WorldData` | heads, steps, candidates, revisions | a record stands for its content hash: a head is its genesis model and its accepted steps, a candidate is its parent, query and roll index |
| `AcceptedHistory` | *abstract*: heads, open/closed/accepted proposals | `Found`, `Amend`, `Propose`, `Close`, `Accept` |
| `Worlds` | the session in memory | one action per mutating command; a refused command stutters |
| `Narratives` | narrative graphs over `Worlds`, and what an export freezes | `RegisterGraph`, `ReviseGraph`, `ExtendGraph`; `Admissible` on reopening, `Portable` and `Standalone` for checkpoints |
| `DurableLog` | *abstract*: a log of writes and what callers were told | `Ask`, `CommitWrite`, `Tell` |
| `StateFile` | sessions over one file; SQLite external | `Change`, `Probe`, `Open`, `Begin`, `Commit`, `Harden`, their failures, `Cleanup`, `Recover`, `Identify`, `Snapshot`, `Kill` |
| `RevisionStore` | revisions in the file and in sessions over it | `Start`, `WriteSeals`, `Read`, `Revise`, `Persist`, `PersistFails`, `Audit`, `Kill`, and `Damage` by something else |
| `Transition` | `roll_model_transition` with the parts of `validate_query` and the compiler it depends on | `Begin` (parent sample, jump), `Step`, `Finish`, `Fails` |
| `RemoteCalls` | *abstract*: calls executed at most once, told the truth | `Ask`, `Execute`, `Settle` |
| `EngineProcess` | the child process seen from both ends | one action per callback up to its next await, and the loop of `main.rs` |
| `Service` | receipts, handles, quotas, the estimation ledger | one action per answer of the engine: the continuation runs to the next call; what a tool does there is in `Admit`, `Allowed`, `Applies`, `HeadAfter`, `StatusAfter` |
| `GraphRecords` | the tools that record in a graph | `Start`, `Revise`, `Begin`, `Look`, `Settled`, `Repeat`, `Write`, `Restart`: the moments at which a call reads what may change, or writes |
| `Futures` | stages, branches, the ancestry cache, the record of written models | `StartFork`, `ForkModel`, `ForkGraph`, `ForkFails`, `Revise`, `ReviseGraph`, `ReplayGraph`, `Restart` |
| `LiveView` | a live snapshot and its page, over `Futures` | `Open`, `List`, `Choose`, `Settle`, `RefreshFails`, `Reload`, `Close` |
| `EstimatorJobs` | requests that adopt an estimate | `Submit`, `Adopt`, `Ask`, `Answered`, `Estimated`, `AskFails`, `AnswerRefused`, `Preview`, `Propose`, `Write`, `Complete`, `ReadFails`, `Restart` |
| `Worlds_proofs`, `StateFile_proofs`, `Transition_proofs`, `Engine_proofs`, `Service_proofs`, `Futures_proofs`, `GraphRecords_proofs`, `EstimatorJobs_proofs` | theorems | |
| `MC…` | instances for TLC | |

Operators whose comment begins with "Mutant:" are faulty variants of the
definition after them. No specification uses them; each run's properties were seen
to fail when the definition is replaced by its mutant.

**Worlds.** Hashes are taken to be collision-free. What a roll computes is a
function of parent, query and roll index (the engine is deterministic), so
successor states need not be written down; `Transition` is about those. Storage
limits use sizes that depend on what the code's sizes depend on: the model of a
head, the status word and the retained path of a candidate. Revisions' lawfulness is
a constant per model pair (`ChangeOf`): the comparison of documents is not modelled.

**Narratives.** A graph revision is its graph and the sources of its line: what it says
of them is content that no rule of binding reads. A snapshot is the model of its
source and its anchors, the committed candidates that led there; the state, claims
and marks it copies are those of its source, which is named by its content. A
command that keeps the source, and a batch, keep the snapshot. Checkpoints are the two
rules that decide an export and an import; the registry of checkpoints is left out.
`PathsBesideGraphs` bounds what candidates keep of their paths once there is a graph:
no rule of graphs reads it.

**StateFile.** A row set is a sequence of commits, each a set of writes. SQLite is
external: a transaction holds the write lock, is atomic, and a COMMIT that reports
an error may have taken effect. Opening names the file that is there or creates
one, so files have identities and an unlinked file can still be open. Commands that
change nothing are left out: they never write. `MaxFiles` and `MaxKills` bound how
often the path gets a new file and how often processes are killed.

**RevisionStore.** A seal hashes the bytes of a row and the parent's seal, so it
stands for the rows of a whole ancestry: it is the function that gives them. A row
is whole or the changes from its predecessor, and its text is right, respelled
(another spelling of the same content) or wrong at the same length; other damage is
found by its length alone. An engine that keeps rows whole and unsealed left the
version 2 files, one that keeps changes without seals the version 3 files with no
seal. Of the bounded caches one set, `ready`, is kept: cached rows save a read and
were checked before. What the worlds need of their models when a session opens is left
out: it asks for more revisions, each read as modelled.

**EngineProcess.** The byte budgets, message framing and encoding errors are one
choice to refuse in `Dispatch` or to fail (`ResponseTooLarge`). One instance is one
`RustEngineProcess`; after its first failure it is never used again, and the service
that replaces it shares the state file as one more session of `StateFile`. An engine
that answers the description with `ok:false` is not reachable (`describe` has no
error) and is not modelled. `Mutating` is the constant the server's
`MUTATING_OPERATIONS` and the engine's `mutates()` agree on.

**Service.** The engine answers in the order asked and what it does touches nothing
the service holds, so executing a call and continuing with its answer is one action;
`EngineFails` splits the queue at an arbitrary point into calls that were written
and calls that were not. A default roll is refused when no preset describes the
world's model. A receipt that outgrew its reservation is kept and reported in doubt
(`Succeed`). Quotas on bytes are counted in units: `Reserved` for a receipt being
made, `Retained` for one that is kept. Of the engine the heads of the worlds and the
status of what was rolled are kept, as far as they decide an answer. Calls are
numbered in the order they are made, and a caller names only what a call it was told
of made. The records of the estimation ledger are immutable: a request freezes the
head and the model it names, and its proposals and reviews carry both.

**GraphRecords.** Revisions are immutable and named by their content: a graph
revision is the sequence of records added since the graph was found, a model revision
the sequence of its changes. A tool may read a revision at any time with one answer,
so a call is cut only where it looks for the newest revision of its graph and where
it writes. A note is the call that wrote it, which of its batches it is, the time it
carries and the record of the model it links to.

**Futures and LiveView.** A model revision is the sequence of its edits and forks, a
graph revision the sequence of models it and its predecessors were bound to. The maps
of the service are sequences in insertion order, which decides what a full map drops.
A probability is the set of forks whose probabilities it multiplies. The import of a
construction history stores graph revisions past the check of the line
(`ReplayGraph`); those it stores in other branches than the revision before are
recorded (`crossed`), so that `StaysOnLine` can say that there are no others.

**EstimatorJobs.** An estimate is a number, so two are never the same. It is made of
several questions, each a call of the provider: one for a world, and for Cuts as many
as `Targets` says (`situation-ingest.mjs:165-191`, `cut-shares.mjs:257-269` ask one per
question and target). No receipt keeps an answer before the last of them. Retaining
the proposal of a preview (`general-modeling.mjs:478`) and the check that its result fits
(`:482`) are one step, `Preview`. A write is refused, done, or done with its outcome
unknown; the service's receipts below are those `Service` is about.

**Transition.** Values are `0..Top` and are clamped like scalars. An expression is a
function of the state (the time it may also read, floating point addition order and
a law's `enabled` flag are abstracted; a disabled law is one that is absent). Random
draws and innovations are free choices. Time is in ticks, `Ticks` to a step; the
boundary of step *k* is computed in floating point as *k* times the rounded step, so
for three steps or more it may lie beside the exact product by one of `Roundings`
(one step or two divide exactly).

## 3 The runs

| Run | Instance | Distinct states | What it shows |
|---|---|---|---|
| `worlds` | one line of models with a compatible and a breaking successor and a rival for its id, one world, rolls 0–1, three paths, up to 2 revisions, 3 candidates and 2 graph revisions, byte and work limits that bind | 829 686 | `HistoryOnlyExtends`; `LineageRestores` and `RowsRestore`: what is stored reopens; `GraphsRestore`: graphs are admitted again, and exports hold by themselves; `NoRivalPending`; `ImplementsAcceptedHistory` |
| `state_file_shared` | two sessions, three writes, one kill, an existing file of either schema | 31 311 | `AcknowledgedStored`; `ImplementsDurableLog` |
| `state_file_removed` | two sessions, two writes, one kill, file missing or there, removable, `FairSpec` | 49 074 | `RefusedNeverStored` even when files come and go; `CommandsAnswered` |
| `state_file_race` | as above | – | disagreement, section 5 |
| `engine_process` | two mutations and a read, a queue of two, both timeout modes, `FairSpec` | 33 768 | `ImplementsRemoteCalls`; `CallsSettle`: every call settles and a given-up engine ends |
| `service` | three concurrent tool calls, one stored world and those the calls create, room for one world, two candidates and two and a half receipts; two request ids for worlds and rolls, with and without a query, one for the rest; calls name the first head and the one a refinement leaves, `FairSpec` | 572 348 | `ExecutedOnce` per handle; `HandleFollowsHead`; `EstimatesFrozen`; `QuotasHold`; `AcceptedAsExpected`; `CallsAnswered` |
| `revision_store` | three models in two lines of one root, a graph of two revisions, two sessions, caches of two, two writes, one change by something else, no file or one of either version with two revisions | 454 051 | `EveryRevisionReads`; `ServesAccepted`; `SealedOnce` |
| `transition` | three models (noise and entering threshold; gated laws, hazard and while-true threshold; a relation writing an observed process), two heads, 1–3 steps, both directions, three precedences and paths, jumps, scheduled interventions at the start, inside a step and at the very end, up to two observations | 104 847 | `ExactLawsHold`, `ObservedCarries`, `EnteringFires`, `CausalClaims`, `InterventionsTimely`, `RetainedAsExpected`, `ObservedClaimsStay` |
| `graph_records` | three calls, at most two of them compound, of six mixes of tools, exact retries, one refusal, uncertain outcome or restart | 2 561 964 | `ForksAreRaces`; `AnchorsResolve`; `RecordedWhole` |
| `futures` | two stages of two branches, two of them used, one edit, memories of two entries, one move or import of a graph, one refusal or restart | 3 218 041 | `AncestryIsTrue`; `StaysOnLine`; `JointAlongBranches`; `StageForkedOnce` |
| `live_view` | one stage of one branch, two edits, a cache of one, one move or import of a graph, one failure or restart, `FairSpec` | 810 060 | `ShowsOneLine`; `PageCatchesUp` |
| `estimator_jobs` | one request id, two inputs, all four operations, room for three entries of which two run, two estimates, of two questions each (one for a world), two failures, one restart | 777 669 | `BytesAccount`; `OneEstimate`; `NeverRerolled` |

**Why the bounds are enough to be interesting.** `worlds` needs two rolls of one
head for rivals, a reroll of a superseded and of a stale candidate, a richer path
for a stored one, and a limit that each of them can meet; three candidates, two
revisions and three paths give all of these. Two revisions of one graph are a first
and one bound elsewhere or kept while the session went on. The races of the state file are
between two writers and one kill; a third write tells an overwritten row from one
not yet written. Three calls are more than a queue of two, so a call is written,
one waits and one is refused. Retries, two handles of one world, a call that waits
for another's receipt, a quota already reserved and an estimate asked for while a
refinement is answered need three tool calls. In
`revision_store` a model kept whole between others (`m3`), a chain of changes and a
graph grounded in a model are the three ways rows depend on each other; caches of two
forget; two writes let one session overtake the other. In `graph_records` three calls
are two that race and one that is a retry or comes after, and two compound calls leave a
graph bound to one model and a note to the other. A memory of two entries in `futures`
drops one while a line of three is walked. One graph moves, so a graph that has two
heads in `live_view`, and one that is moved after an import took it off its line, are
left to the theorems (`SnapshotsAgree`, `GraphsStayOnLine`). Two estimates suffice
to tell one from another, and two questions let one be answered and the next fail.
Three steps are the fewest whose boundary may be rounded, and let an observed value be
carried past a step without observation.

Deadlock is not checked: every instance asks for finitely many calls, writes or
steps, and a session on which limits are reached has nothing left to do.

## 4 Fairness

- `StateFile!FairSpec`: weak fairness of what a started session does by itself. The
  engine runs one command at a time on one thread, and every wait (the busy timeout
  on the lock) is bounded, so some step is always taken; nothing makes a command
  succeed.
- `EngineProcess!FairSpec`: continuations of the server run (`Dispatch`,
  `InitializeRejected`), timers fire, `close()` escalates to SIGKILL, and a SIGKILL
  lands. Nothing is asked of the engine, which may never answer, never beat and
  ignore the end of its input.
- `Service!FairSpec`: the head of the engine's queue is answered or the engine
  process fails, which is what `CallsSettle` shows of `EngineProcess`; the
  continuation after presets runs.
- `LiveView!FairSpec`: an open page asks every two seconds and the engine answers
  (`Refresh`), and the reader lets the page reload at some time (`Reload`). It is only
  asked to catch up once nothing more is written, which the bounds make happen.

## 5 Where code and documents disagree

One disagreement is a run:

- `state_file_race` – *an acknowledged write can be removed.* A write reads whether
  the file exists before it opens it; if another process creates the file, commits to
  it and answers its caller in between, and this write fails before its COMMIT, its
  cleanup removes the path (`session/persistence.rs:906`), against the comment at
  `persistence.rs:4-6`. The trace ends in that cleanup, after the other session's
  answer. (Were the path gone before, setting its permissions at line 903 would fail
  and the write would not be answered with success: `Harden` asks for a path.) With
  the file there from the start the promise holds (`state_file_shared`, and for
  every instance `SharedFileKeepsPromises`).

Others were met while modelling and shaped what the properties claim; they have no
run of their own:

- *A kill between creating the file and its first commit leaves a file no session can
  open* (`persistence.rs:679`), where `session.rs:363` says the first successful
  mutation creates it. `CommandsAnswered` is about the sessions that run.
- *Two identical requests in flight may both execute.* While a stored world is
  reopened, `getWorld` checks the map, awaits the presets and then writes the map
  (`service.mjs:2168`), so two calls get two handles with receipts of their own
  (compare `mcp-server/README.md:743-746`). `ExecutedOnce` is therefore per handle, and
  the world quota of `QuotasHold` counts the worlds this server created.
- *A request for estimates may be checked against an older model than it names.* It
  asks for the model of the handle (`service.mjs:1521`) and checks the coordinates with
  it, but compares the head with the model the handle has once that is answered (1526)
  and names this one (1562), although a request is frozen "against one model hash"
  (`mcp-server/README.md:541-542`). A refinement answered in between makes the two
  differ. `EstimatesFrozen` is about what the request names.
- *An intervention at the end of a query can be dropped.* The last boundary is
  `n * (delta / n)`, which may be less than `delta` (0.82 in 20 steps of 1/24, 1 in
  49), so an intervention at offset `delta` is accepted and never consumed
  (`transition.rs:643`); the assertion after the loop (`:782`) is compiled out of
  release builds. `InterventionsTimely` covers those a step reaches.
- *A retry of a carve may send other notes.* The notes carry the number of the revision
  the carve was begun at, and are added to the head looked up after that; a retry reads
  the revision they were added to (`carve-record.mjs:594`), "so the retry sends the same
  notes" (590-593). If another call wrote in between, it does not, and is told of a
  conflict. `RecordedWhole` is about calls that were told they succeeded.
- *A message may be captured after capture was disabled.* The setting is read at the
  head that a call found (`memory-workflow.mjs:166`), "so a disabled setting prevents new
  messages" (164-165); a setting written before the message is leaves it on the other
  side of a fork, one of those `ForksAreRaces` allows.
- *An import can take a graph into a branch or out of one.* The revisions
  `life_construction_import` stores are a history of its own
  (`construction-record.mjs:1314-1350`), and the service does not ask of them which
  branches their models lie in (`service.mjs:2388-2393`), as a test has it
  (`test/future-branch-guards.test.mjs:94-97`), where every other route that changes
  the model of a graph does. `StaysOnLine` is about those, before and after an import.
  That an import may bring forks made by another server is left out.
- *A retry may ask again what was answered.* An ingest and the placing of shares ask
  their questions one after the other, and checkpoint only when the last is answered
  (`situation-ingest.mjs:165-191`, `cut-shares.mjs:257-269`). If a later call fails, the
  answers before it are discarded, and a retry asks those questions again.
  `NeverRerolled` is about estimates that are complete or are still being answered.
- *A live view can go back*: beyond 4096 model writes the service drops the oldest
  (`service.mjs:938`) and can no longer reach a model written after it. The view still
  shows one line (`ShowsOneLine`) and `PageCatchesUp` is about what the service reaches.

## 6 The proofs

Each proof module extends its component. Proofs follow one scheme: an inductive
invariant, one lemma per action that disturbs it, and a last step by temporal logic.

**`Worlds_proofs`** – for `Worlds` and, over it, `Narratives`. Assumptions:
`ModelsAssumption`, `RollAssumption`, `CadencesAssumption`, `CapacityAssumption` and
`GraphsAssumption` of the modules.
- `TypeInvariant` (`TypeOK`, which no run repeats).
- `LineageInvariant`: `IInv` is `TypeOK /\ LineageRestores /\ NoRivalPending`, proved
  in one induction. `LineageRestores` is inductive only together with the type
  invariant (a head names its own world; a stored row's candidate is a candidate):
  a commit appends the step of a candidate that becomes committed in the same
  action, and `Ancestor` of the old steps is unchanged. The action that could break
  it, refining, applies to an empty history.
- `OneFuturePerHead`: that a committed candidate has no pending rival needs that its
  parent is no longer the head, which lineage gives: the head has grown past it, and
  a new candidate is only inserted on the head.
- `HistoryIsAppendOnly`, `CandidatesSettle`: action properties from the types. The
  second, `CandidatesOnlySettle`, is only proved: of it `ImplementsAcceptedHistory`
  checks that what is decided stays decided.
- `ImplementsHistory`: refinement of `AcceptedHistory` with `head <- worlds`,
  `open <- Pending`, `closed <- Closed`, `accepted <- Committed`.
- `RowsAreRestored`: `RowsRestore`. It is inductive because every command checks the
  limits on the very rows it leaves behind, and a record refers only to models that
  are registered for good. A roll leaves a head under its model, and a revision puts it
  under the one it names (`ModelOfExtended`).
- `GraphsLeaveSession`: `NarrativesSpec => Spec`, which gives `Narratives` every
  result about `Worlds`.
- `GraphsAreRestored`: `GraphsRestore`. Its invariant `GraphsGrounded` says that the
  parents of candidates and the sources of graphs are heads on an accepted path. A
  commit extends the head a world has now, so it puts no candidate below a head that is
  on a path already: the anchors of a source, a walk back along its history
  (`AnchorsAre` gives its closed form), stay as they were when the graph was admitted.
  Whether a head has a revision in its history, which forbids an export, is a second
  walk (`RevisionSeen`); without one the anchors are its whole line from the genesis
  (`ChainOf`), so the export holds by itself (`ExportedStandsAlone`).

**`StateFile_proofs`** – `StateFileAssumption`; `SharedFileKeepsPromises` and
`ImplementsLog` also assume that the file is there at first (`Found`:
`"missing" \notin Starts`): without it they are false (section 5).
- `TypeInvariant`: types, locks (a lock is held exactly by a transaction on the file
  its session has open) and commands (a command runs in one session).
- `SharedFileKeepsPromises`: `AcknowledgedStored`. Its invariant `Promises` says the
  path stays, that a session past `probe` knows the file existed, and that a memory
  whose generation is the file's holds the file's rows, so a commit extends the log.
- `ImplementsLog`: refinement of `DurableLog` with `log <- Commits`; it adds that a
  write is in the file at most once and only while it runs or after an answer that
  allows it.
- `RefusalsStand`: `RefusedNeverStored` for every start, files that are created and
  removed included. Its invariant `Refusing` is about every file that ever had the
  path: a command is in one only once its COMMIT was attempted, and the file that has
  the path is then ahead of the session's generation, so a reload that would call the
  command refused sees that it must not.

**`Transition_proofs`** – `HeadsAssumption` (a value for every process, and no
evidence from after the head's time: `validate_world`, `world.rs:298`),
`QueriesAssumption` (at least one step: `query.rs:131`; no cadence of zero:
`query.rs:282`; values and expressions are typed), `ModelsAssumption` (law ids are
unique: `compile.rs:1048`; no two exact laws derive one process: `compile.rs:1087`;
exact laws are acyclic: `compile.rs:1254`; an exact law reads what its expression
names) and `ValuesAssumption`. Nothing is assumed of what expressions give, of draws or
of how boundaries are rounded.
- `InterventionsLand`: `InterventionsTimely`. Inductive together with "an
  intervention that some step reaches has landed"; ids in a query are unique.
- `ThresholdsFireOnEntering`: `EnteringFires`. The invariant `Watched` says what is
  held for a law is its condition in the state before the last one, the parent
  before the jump included.
- `SuccessorIsCausal`: `CausalClaims`, from "during a roll every claim is dated no
  later than the step reached".
- `ObservationsStay`: `ObservedClaimsStay`, from the same.
- `LawsHold`: `ExactLawsHold`. Closing a state runs through one state per exact law in
  the derived order (`CloseRuns`). A law holds after its own turn, and nothing undoes
  it: no later law derives its process, and none derives what it reads, since those
  that do come before it (`RunKeeps`, `ClosedHolds`).
- `ObservationsCarry`: `ObservedCarries`. No law, intervention or occurrence that a
  query with the observation admits may write its process, so landing, evolution and
  closing leave it (`CarriedIsUntouched`), and the latest observation moves on exactly
  where one is due (`LatestMoves`). Its invariant `Valued` is that all values stay
  within their bounds; sums of rates, draws and additions are folds over finite sets,
  shown to exist and to be numbers by induction on subsets (`FoldDefined`,
  `FoldTyped`).
- `PathsAsExpected`: `RetainedAsExpected`. `Retaining` counts the samples kept up to a
  step in closed form; at the last step that is what validation counts, for a cadence
  that divides the number of steps and for one that does not (`KeptAtEnd`).

**`Engine_proofs`**, for `EngineProcess` – `EngineProcessAssumption`, for any set of
calls and any length of the queue.
- `TypeInvariant`: `TypeOK`.
- `ImplementsCalls`: refinement of `RemoteCalls`. `IInv` adds to the types that no
  request is queued or handed over twice (`OnceQueued`), that only what ran is answered
  (`AnswersAreTrue`), and that a mutation that was refused is nowhere on its way to the
  engine (`RefusedIsUnsent`): a queue it had been left in would be written later, and
  what was being written when the child was lost is told as uncertain (`Lost`).

**`Engine_proofs`**, for `RevisionStore` – `StoreAssumption`, `AncestryAssumption` (a
hash covers that of the revision before, so every line of revisions has a first) and
`NothingAssumption` (what stands for no seal is none), for any set of revisions,
sessions and bounds. `Ancestry` and the rounds of sealing recurse along `Previous`;
that such functions exist is shown by well-founded recursion (`FollowedOnce`,
`FollowedThrough`).
- The invariant `StoreFits`, which TLC was also seen to accept on the instance: every
  seal, in the file or in a session, `Fits` the file: it stands for rows of a whole
  ancestry in their kept form, none wrong, and a row is respelled in it only if the
  file's no longer is right; without damage the row is right, so all seals of one
  revision are the same. A session that has the file's generation knows exactly the
  file's rows and its own unwritten ones, so a write never replaces a row that is
  sealed (`WrittenFits`). What a session knows it holds, or reads under a seal. A write
  by one session is one `Extends` step to all others, and so is damage (`FitsStill`,
  `SessionStill`).
- `RevisionsRead`: `EveryRevisionReads`. `Released` drops from memory only what has a
  seal after the write (`AfterWriteFits`), and a session opened on sealed rows holds
  what it did not find trusted (`OpenedFits`).
- `AcceptedServed`: `ServesAccepted`. A row is rebuilt from rows that match a seal,
  which is never wrong, and from what is ready (`RebuiltIsRight`); openings and
  audits seal only rows they have validated (`SealsOfFit`).
- `SealsTrusted`: `SealedOnce`. Seals that all stand for the same rows name each other,
  whichever sessions wrote them.

**`Service_proofs`** – `ServiceAssumption`, for every number of calls, all stored
worlds and all quotas. `IInv` joins fifteen parts, because a success of one call is
given to those that joined its receipt, a handle is found by one call and used by
another after an `await`, and a quota is counted while it is reserved.
- `TypeInvariant`: the types; the engine's queue holds exactly the calls that wait.
- `RequestsExecuteOnce`: what is executed keeps its receipt (`ReceiptsKept`), no two
  receipts of a store are for one request (`ReceiptsDiffer`), and a world this server
  made has one handle (`HandlesFit`): a reopening of it is impossible, because its map
  entry is never taken out.
- `HandlesFollow`: the handle's model is set after the answer (`ModelAfter`). Refining
  needs an untouched genesis, so between a refinement and its answer nothing else can
  change the model; a handle that is not open yet holds the first model (`ModelsFit`).
- `EstimatesAreFrozen`: while the head has the model that was read first, so has the
  handle (`StepsFit`): model revisions only go up. A proposal or review is about the
  world of the request it names (`RequestsFit`).
- `QuotasAreKept`: the counts are cardinalities of the calls in flight, one per
  receipt; a reservation becomes what it reserved in the same step, or is released.
- `AcceptsAsExpected`: heads only go up (`Below`), an accept was checked against a
  head between that of its candidate and the present one, and a commit needs the
  candidate's parent to be the head, so all three are the same. A candidate whose
  reroll or rejection succeeded is no longer pending (`OutcomesFit`).

The proof found one definition that TLC's evaluation had hidden: the outcome of a failed
engine had two `CASE` guards that held at once, of which TLC takes the first and the
language either; they are disjoint now.

**`Futures_proofs`** – `FuturesAssumption`, for all edits, stages and branches, all
sizes of the caches, and any number of refusals and restarts.
- `BranchesTrue`: the walk along an ancestry (`Folded`, a recursive function) answers
  with the forks of that ancestry, whatever part of it was remembered. It is an
  induction along a revision, from the least-number principle (`Least`): the first
  prefix of which the statement fails has a predecessor of which it holds.
- `AncestryTrue`: what is remembered is true (`Honest`), preserved by every way of
  remembering.
- `GraphsStayOnLine`: two models that a graph may move between lie in the same
  branches (`TransitionTrue`), so all those of its history do up to, and from, a
  revision with which an import took it to others (`GraphGrows`).
- `JointsMultiply`: the innermost branch of a revision lies in all the others
  (`InnermostHolds`), so the one joint probability that is read accounts for them.
- `StagesForkedOnce`: `BranchesFit` says every fork in the store is `Branch(f, k)`,
  which is a function of what the stage was asked for, and `ForksFit` that what a
  stage under way looked up of its trunk is what holds of it: a call that was carried
  out unanswered before a restart stored the same revision the retry stores.
- `SnapshotsAgree`: for `LiveView`. `RefreshFits`: what a refresh has taken descends
  from what was opened, whatever is written before it settles, and what is followed
  from a revision is on its line (`FollowedOnLine`).

**`GraphRecords_proofs`** – `RecordsAssumption`, for every number of calls, all mixes of
tools, and any number of refusals, uncertain outcomes and restarts. `IInv` says of a
stored graph that the model it is bound to only grew along it and that it has each part
of a call's notes once (`GraphSound`), and of a call in flight what the revision it read
before an `await` still says when it writes:
- `TypeInvariant`: types; a retry is the request of the call it repeats
  (`RequestsAgree`), and what a receipt that is sure names was stored.
- `ForksOnlyRace`: no call that had ended when this one was made wrote beside what this
  one is to write against (`FoundLate`), unless its receipt says it is a retry. Others
  that write there meanwhile had not ended, so they overlap.
- `AnchorsHold`: a binding holds all links of the revision it is added to, and a note's
  links are held by the model bound there; both are checked of the revision that is
  written against, so no rebinding can come between.
- `WholeRecords`: once its binding is written a compound tool only moves to lines that
  descend from it, or to what a receipt of the same request names, which was bound when
  it was found (`BoundRight`, `ReceiptsBound`); and a carve's second notes follow its
  first with the same time (`BegunRight`).

Two definitions meant to the prover what they do not mean to TLC, and are unambiguous
now: `Addition` had `CASE` guards that held at once, and `UNION A \cup B` is a union of
two sets to one parser and of one to the other (also in `Transition` and `Narratives`).

**`EstimatorJobs_proofs`** – `SizesAssumption` (the numbers are natural, and a result is
no larger than its reservation), `OpsAssumption` (the operations are the four that are
modelled), `TargetsAssumption` (an estimate of Cuts asks at least one question) and
`NoneAssumption` (no estimate, outcome or request is `None`), for all
requests and inputs, all quotas, and any number of calls, failures and restarts. `IInv`
says what an entry of the receipt store may rely on (`Fits`): the bytes its result leaves
it, the estimate it waits for, of which a question is open, that an estimate it uses is
complete (`Given`), and that every step before its place, and every step it
checkpointed, is written in this session from the one estimate it is to use.
- `TypeInvariant`: types; a proposal is an estimate that was given.
- `BytesHold`: what a request holds is decided by its result alone, so the account is
  three counts. An execution that throws releases its reservation exactly when its entry
  goes, and a preview that retains its estimate did not retain it before (`Retained`).
- `EstimatesHold`: all that was written under a key names what the service's receipt of
  its first step names (`StoredFits`). A step that finds a receipt was written from the
  payload it holds (`ReceiptsTrue`), and the payload has the operation: an ingest never
  takes over what shares with its request id wrote.
- `RerollsNever`: an estimate that did not fail, or is a preview's, leaves its request
  ended, marked as started, with its estimate, or still waiting for it (`AsksSpent`), and
  no entry is dropped while it is any of these. One that failed has a question without
  an answer (`Counts`): an answer is counted only for the request that waits for it
  (`Others`), and a request waits for one that has not failed.

## 7 What is only model-checked

Liveness (`CommandsAnswered`, `CallsSettle`, `CallsAnswered`, `PageCatchesUp`) is out of
the prover's reach. Every safety property of the passing runs is stated by a theorem.
`:>` and `@@` of the module `TLC` are unknown to the prover; `RevisionStore` has
`Only` and `Over` of its own.
The induction theorems of the library take an operator no installed prover can
instantiate, so a recursive definition or a fold is within reach only when its
induction is written out, from the least number or the smallest set of which a
statement fails (`Least`, `FoldDefined`), or when a sum is restated as counts, as
`BytesAccount` is.

## 8 What is not modelled

- *Of the modelled components*: the text of rows and the difference of two documents;
  the limits in bytes of models and of revisions (`capacity.rs:128-137`, `188-193`;
  `ModelsFit` and `RevisionsFit` count rows); the number of receipts of a scope
  (`service.mjs:1007`), which `Room` does not ask for; the 60 models a live view follows
  (`viewer-server.mjs:203`);
  which revisions the worlds ask for when a session opens; the numeric values of laws,
  the trajectory summary, hashes and budgets of a roll; of the service, the tools that
  annotate and register (they use the same receipts), writer contracts, worlds whose
  caller chose the name, and the forcing of a default roll, which is computed from the
  head it read and belongs to an older time when the roll runs on a newer one
  (`service.mjs:2606`); the questions asked over branches; the layout
  of snapshots; the messages to a provider.
- *Planned*: what a batch may change of the content of a narrative graph, the registry
  of checkpoints, the additions a refinement may make.
- *Left out*: read-only views, reports and questions (no state), the operation table
  and limits (constants, used as such), the legacy registry and profiles (pure
  expansion and floating point), the tools' schemas and texts, the storytelling and
  alien add-ons (workflows over the calls that are modelled), the installer, documents
  and data. These are most of the code by length: pages of one document turned into
  another, with nothing that two actors or a failure could put out of order.

## 9 Plan

Most important first, written so far: worlds and candidates with the narrative graphs
bound to them, the durable write, the engine process, the service, the transition, the
recording tools, the futures and the live view over them, the estimator's jobs, the
revision store. Next:

1. The content of narrative graphs: a batch as changes to the revision before, and the
   rebuilding of a revision from them.
2. More of `Service`: annotations, writer contracts, worlds named by their caller.
3. The additions a refinement may make, as operators over small documents.

Runs are kept few: one per question, so that runs over the same component and the
same instance are merged rather than added.

## 10 Running the checks

In this directory: `tlc -workers 2 -config MCWorlds.cfg MCWorlds` (each run names
its module and configuration in `PROJECT.json`), and `tlapm Worlds_proofs.tla`.
The longest runs and the longest proof, `Service_proofs`, take a few minutes.
