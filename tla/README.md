# SelfHarness: a verification project

SelfHarness runs a coding agent, looks at the tasks it fails, lets a proposer
suggest edits of the agent's *harness* (prompts, tools, memory, policy), keeps
an edit only when it passes an acceptance gate, and does so again, run after
run, with a ledger (the lineage) that says what changed and how to undo it.
Around that engine stand a continuous loop, a coding agent that feeds the loop
with its failures, and a chain of evidence (audit, capture, reproduction
bundle, operator promotion, readiness, scans) that a release rests on. This
directory holds TLA+ modules of that machinery, the TLC instances that check
them, and theorems proved with TLAPS.

Paths below are relative to the repository; `self_harness/` stands for
`src/self_harness/`.

## 1. The system

| part | state it keeps | operations | interacts with |
|---|---|---|---|
| harness operations (`harness.py`) | none; harness, operations and patches are values | validate, apply with inverse, merge | engine, layers |
| harness layers (`harness_state.py`) | base, overlay per provider and model, certified profiles; one JSON file | effective harness, register a profile, apply a patch to base or overlay, certify, load, write | engine, loop |
| evaluation (`evaluation.py`) | attempt records of one evaluation | evaluate ("sum" or "majority"), acceptance rule | engine, runners |
| proposers (`proposer.py`, `llm_proposer.py`, `research.py`) | metadata of the last round | propose; fetch findings | engine, a model |
| engine (`engine.py`, `proposal_selection.py`, `mining.py`) | harness, layers, lineage, attempted edits; `rounds/<n>/*.json`, `lineage.json` | one round: baseline, findings, propose, consider each proposal, select, write, advance | everything above |
| audit (`audit*.py`) | none; reads and rewrites run directories | load, verify, migrate, report the trajectory | files of the engine |
| continuous loop (`ui.py`, `task_sources.py`) | jobs, loop status, stop event; inbox, `learned_tasks.json`, `harness_state.json`, `harness.py` itself | start, stop, drain, generate, run with watchdog, persist, promote, reset, submit | engine, HTTP threads, CLI, harvesters |
| loop daemon (`loop_daemon.py`, `cli.py`) | pid file, log | start, status, stop | the loop, through signals |
| coding agent (`cli_agent/`) | session, transcript files, effort, model cache, harvest candidates | turns, tools, threads, harvesting failures into the inbox | transports, judges, inbox |
| agentic runner (`adapters/agentic/`), transports (`adapters/llm/`) | conversation | tool loop with limits, calls with retries | a model service |
| verifiers (`adapters/`) | temporary workspaces, containers | verify an attempt | engine's runners |
| capture and reproduction (`capture_*.py`, `reproduction_*.py`, `_artifact_shapes.py`) | plan, artefacts, bundle, sidecars, reports | plan, sign, rehearse, extract, admit, build, verify, diff, release evidence | audit, signing, readiness |
| operator promotion (`operator_promotion/`, `operator_policy_binding.py`) | promotion manifest, its sidecar | init, add, change a status, sign, bind a bundle | policies, bundles |
| readiness (`readiness*.py`, `attestations.py`, `model_backend_preflight.py`) | catalog, reports of the preflight surfaces | preflight, admit a candidate catalog, drift check | promotion, release |
| scans and policies (`scanner_*.py`, `vulnerability_policy.py`, `image_policy.py`, `freshness_policy.py`) | database, reports, policy files | update the database, scan live, replay, judge | Trivy, operators |
| signing and keyring (`signing/`, `corpus_keyring.py`) | keyring files | sign, verify, rotate, revoke | bundles, corpora |
| corpora and configuration | files | load, check | all |

What is hard here, and where:

* **Concurrency.** One process holds the HTTP threads, the loop's controller,
  one worker thread per run and threads of runs that were started by hand. The
  jobs and the loop's status have a lock; the inbox, the learned tasks, the
  harness state and `harness.py` have none and are rewritten in place. Several
  terminals give commands about one pid file, several operators edit one
  promotion manifest.
* **Failure.** A run may raise, or be given up by the watchdog while its thread
  goes on; the process may die anywhere; every file may be left truncated, and
  the readers turn a truncated file into "nothing there". A scan leaves half a
  report, an admission half a directory.
* **Ordering.** Edits are accepted one by one but committed as one merged
  patch, which is measured again; when it fails, the evidence of one earlier
  measurement is used. Inverses are taken on intermediate states.
* **Agreement of artefacts.** Rows, lineage, harness snapshots, layers and
  certificates are written from different variables of one round, and read
  back by a verifier that compares them. Thirteen classes of evidence are
  produced one by one and bound to each other by fields they share.
* **Staleness.** A report, a signature, a database, a plan or a pid file is
  looked at long after it was written.
* **Boundaries.** Majority with an even number of repeats, an early stop, a
  budget, equal scores on a split, a limit of days.

What makes each part correct: an inverse undoes its operation exactly and is
itself valid; a merge loses no edit; early stopping never changes a decision;
what is committed is what was measured and passed; the lineage replays both
ways and the verifier accepts it; there is one controller and one daemon; a
stop is not lost and is honoured; a bundle becomes a task exactly when it was
processed; a persisted edit stays; a conversation is neither lost nor mixed
with another; evidence that verifies is of one capture, and gained; a policy
that is bound was reviewed, a row that is provisioned had evidence, a verdict
is about its own scan. `PROJECT.json` lists 40 places where this could go
wrong, with the properties that would show it.

## 2. Modules

HarnessPatch and HarnessLayers extend HarnessOps; Engine extends HarnessLayers
and instantiates Ledger; AuditVerify extends Engine and MCEngine checks both
together; LoopDaemon extends SourcePromotion; CodeSession extends AgentLoop;
CapturePlan extends CaptureAdmission, which extends CaptureArtifacts;
ReleaseGate composes PolicyPromotion, ReadinessCatalog and ScanGate. The MC
modules extend the module they name; the proof modules extend their component
and TLAPS (Engine_proofs both AuditVerify and HarnessPatch). Operators marked "a
slip" or "Mutant" are wrong variants of the definition they stand before: they
are used nowhere in the model, and say what kind of mistake a property is there
to find.

### HarnessOps (`harness.py`)

Values and operators only. A text is a sequence of fragments, `Blank` the white
space that `strip` and `rstrip` remove at its ends; a list is a sequence of
items; the policy a function from keys to values. A payload carries its Python
type (`kind`), which is what `validate_op` looks at. `ApplyOp` and `ReverseOp`
are the two results of `apply_op`; the inverse is always a `ReplaceSurface`
(or a `SetPolicy`) with what the surface held.

### HarnessPatch (`harness.py`, `engine.py:743-756`)

A state machine that merges a group of patches, applies the result operation by
operation while the list of inverses grows at its front, refuses a patch whose
operation is invalid without any effect on the harness, and undoes what was
applied. `Merge`, `Apply`, `Reject` are steps of `merge_patches` and
`apply_patch`; `StartUndo`, `Undo` are the use a reader of the lineage makes of
`reverse_ops`, which the repository promises but leaves to the reader.

### HarnessLayers (`harness_state.py:107-176`)

Base, provider overlays, model overlays and certified profiles as a record, and
the four functions on it. An edit with a target is *applied to* the effective
harness and *stored in* the model's overlay; one without is applied to the bare
base.

### Engine and Ledger (`engine.py`, `proposal_selection.py`)

One action per phase of `run`'s loop body, so that a failure may fall between
any two of them (`Abort`):

| action | code |
|---|---|
| BeginRound, RunBaseline | 206-227 |
| NoFindings, IntegrateFindings | 229-253 |
| Propose | 255-269 |
| ConsiderInvalid, ConsiderUnmeasured, ConsiderMeasured | 292-376 |
| NothingAccepted, SelectCommit | 378-456 |
| WriteArtifacts, WriteLineage | 458-513 |
| Finish | 515-516 |

An evaluation is any function from tasks to passing attempts; the smoke
certificate is any verdict `_certify_smoke` may return. `considered` holds the
rows and results of the round, `commit` the variables `chosen_*`, `after_*`,
`lineage_*`. Baselines, layers and certificates are kept by proposal id, so
what the code reads back is the last one stored under it (`LastById`). Ledger
is the abstract specification: the harness and a list of records that grows by
one per step, each leading from the harness before to the one after, and
leaving it alone when nothing was accepted. `CrossTargets`, `Pool`, `Findings`
and `Setups` are parameters: what the proposer, the radar and the caller may
hand over.

### AuditVerify (`audit.py`, `audit_verify.py`, `audit_migration.py`, `reporting/`)

The files of a run as the engine's state determines them, row by row, in the
schema the run was configured with, and the readers of those files: the loader,
the trajectory, and the verifier with its checks of snapshots, lineage, schema
versions, proposals (with the refusal of rows that name a held-out pattern),
evaluations, provenance and patterns. A migration copies the source, rewrites
the copy transform by transform and file by file (`MigrateFiles`), and writes
its provenance last (`MigrateAuditTree`); a copy that did not get to every file
(`Copied`) and a migration that died in any transform (`DeadMigration`) are
directories of their own. Nobody else writes to a destination, and a second
command refuses one that exists, so the steps of a migration are values and add
no variable to a run: `AuditVerifies` asks the verifier about every directory a
round can have left, whole, migrated or half migrated.

### Evaluation (`evaluation.py`, `engine.py:331-359`)

`answer` fixes beforehand what the runner would say to every attempt of every
task in both arms; the module then runs the attempts in the code's order, under
"sum" attempt by attempt over all tasks, under "majority" task by task with the
early stop. The properties compare the outcome with the full vote.

### AutoLoop (`ui.py`, `harness_state.py`, `task_sources.py`)

Controllers (`pc`, `local`), jobs with the step their thread is at, the three
kinds of files, the loop's status record and its stop event. Every write of a
file is two steps, truncating and writing, and a `Crash` may fall between them
and between any two other steps. `StartLoop` is one step because the code holds
the lock throughout; `stop_autoloop` is two (`LookAtActive`, `SignalStop`)
because it lets go in between. A bundle `holds` what its file contains: torn
(being written), a command, a UX complaint (which the guard may verify or
refuse), a malformed object, no object at all, or the watchdog's own record,
which has no `id` and so is always rejected. `promoted`, `asked`, `harm` and
`crashes` are history. A harness state is the set of jobs whose edits it holds;
what an edit consists of is Engine's business. A raised exception and a timeout
are one action, because the code treats them alike.

### SourcePromotion and LoopDaemon (`ui.py:1238`, `ui.py:1563`, `loop_daemon.py`, `cli.py`)

SourcePromotion rewrites `harness.py`, the file the program is imported from:
read, back up, write, gate, restore, unlink, each write in two steps.
LoopDaemon puts processes around it: a terminal's command looks at the pid
file, spawns, records, signals and polls in separate steps, and may be killed
at each (`LauncherDies`), which between `Popen` and the pid file leaves a loop
that nobody knows of (`orphans`). A loop process boots (which fails on a torn
file), runs, promotes, loses its controller to an exception (`ControllerDies`),
and is cut off by the three seconds of its main thread wherever its worker is;
a pid of a dead process may be given to somebody else. `applied`, `used` and
`orphans` are history.

### AgentLoop and CodeSession (`adapters/agentic/`, `adapters/llm/messages.py`, `cli_agent/`)

AgentLoop is one turn: requests with a retry budget, answers, cut answers, tools
one by one, the step budget, an exception that leaves the loop with the history
as it is. CodeSession is the prompt around it: headless agents, harvesting and
judging, recording and saving (a save is two steps), automatic continuation,
threads, resets, switches of thread and provider, delegation, reports, Ctrl-C at
each place, a crash anywhere, and resumption from disk. `sent` is history: for
every message its thread and what came of it.

### ProposalEvidence (`reproduction_bundle.py`, `_artifact_shapes.py`, `capture_extract.py`)

A round of evidence at a time: its context (`ContextVerifies`), then its
validation (`ValidationVerifies`), each a conjunction of the shape checks and
bindings the verifier makes, named as in the code. Evidence is supplied as
finished artefacts, or derived from an audit as the extraction does it.

### CaptureArtifacts, CaptureAdmission, CapturePlan

CaptureArtifacts has the thirteen classes of artefacts, what a capture observed,
extraction (`Extract`), the shape of each class, the bundle manifest and its
verifier. CaptureAdmission is `capture-admit`, class by class over a directory
that may hold the files of earlier ones, with the bundle build, the verification
and the readiness behind it, an `Abort` at every stage, and the single commands
(extract in place, rebuild, sign, release evidence). CapturePlan adds the plan,
its signature, the rehearsal and the diff of plan and bundle. Hashes are
modelled by what they hash.

### PolicyPromotion, ReadinessCatalog, ScanGate, ReleaseGate

PolicyPromotion: policy files that operators edit, the manifest (loaded and
saved by commands of several operators), the signature and the binding of a
bundle, which goes in steps because the code reads the manifest three times:
for the files of its entries (`BeginPolicyBinding`, `CheckManifestFiles`), for
the signature (`CheckBindingSignature`), and for the entries it binds
(`LoadBoundManifest`), before it hashes the bundle's files
(`VerifyPolicyBinding`). Whatever an operator does may fall in between.
`reviewed` and `approved` are history. ReadinessCatalog: the reports of three
preflight surfaces, the admission of a candidate catalog and the drift check.
ScanGate: the database, the name of an image and what it denotes, the policies,
a scan live, replayed or dry (preflight, Trivy, judgement as separate steps,
with a Trivy that was told to write its report elsewhere), the archived report,
the checks of a report or a wheel on their own, and midnight. ReleaseGate lets
a behaviour sit at one of two desks: promotion and readiness, which share the
operator preflight, or the scans, which share no file with them here.

## 3. Runs

| run | instance | checks |
|---|---|---|
| `harness_patch` | groups of one or two patches of one or two operations, four surfaces (one of each kind and a second list surface), three initial texts | `UndoStepExact`, `MergedEditsSurvive`, `UndoNeverRefused` |
| `evaluation` | one held-in and one held-out task, three repeats, every answer of the runner | `EarlyStopKeepsVerdict`, `DecisionMatchesFullVote`, `Decides` |
| `engine_ledger` | two rounds, two proposals a round out of five (text, list, overwriting, invalid, one that names a held-out pattern), two held-in tasks and a held-out one, with and without a profile, fresh and edited layers, configured for schema 1.1 and migrated from there | `LineageReplays`, `BestCommittedGroupMaximal`, `AuditVerifies`, `TrajectoryImproves`, refinement of Ledger (`ImplementsLedger`) |
| `engine_open` | two rounds, two proposals, other profiles and findings allowed, one task per split | `GatedCommit`, `CertifiedOnlyAfterPass` |
| `autoloop_inbox` | two bundles, two loop runs, two starts, one crash, one generated task | `OneLoop`, `LearnedOnlyIfProcessed`, `ProcessedAreLearned`, `LineageKept` |
| `autoloop_stops` | two loop runs, a run by hand that does not evolve, two starts | `StopNotLost`, `StopHonoured` |
| `autoloop_poison` | two bundles, one start | `NoBundleStopsTheLoop` is violated: the finding below |
| `code_session` | two threads, the model API and one headless agent (also the judge), two steps, two attempts, one automatic continuation, two messages, one command or crash besides | `ThreadsDoNotMix`, `ConversationKept`, `InterruptedNotRecorded`, `RequestTellsHowTurnsEnded`, `TurnEnds` |
| `loop_daemon` | one terminal, two process ids, three harnesses of which the gate refuses one, two runs per loop | `TornSourceHasBackup`, `OneLoopAtATime`, `StoppedMeansStopped`, `SignalledLoopEnds` |
| `evidence` | three held-in tasks and one held-out, two rounds of two proposals, two attempts, four outcomes that artefacts may state | `VerifiedGains` |
| `capture` | two captures (one lists attempts in completion order), six admission command lines, five plans, two keys of which one is trusted, two admissions and one other command | `CleanDiffIsThePlannedRun`, `RehearsedPlanIsCoherent`, `AsPlannedDiffsClean`, `VerifiedIsOneCapture`, `HonestCaptureVerdict` |
| `promotion` | two operators, two entry names, two policy files of two versions, two keys, one dependency, five commands; two image digests, two advisories (one with an alias), seven command lines (one of which sends the report elsewhere), three days, two scans, one change around them | `BoundPoliciesWereReviewed`, `SignedBindingWasApproved`, `AdmittedRowsHoldEvidence`, `AdmissionKeepsDriftOk`, `LiveVerdictIsOfThisScan`, `OldAdvisoriesAllowed` |

Why the bounds are enough. A merge needs two patches, a conflict two operations
on one surface, and an inverse that is not the last needs two operations. Three
repeats are the first number at which an early stop saves an attempt; that the
number does not matter is proved. Two rounds are needed for continuity and for
edits on edited layers, two proposals for a group, a superseded edit and a
fallback. Two starts are needed for one controller to meet another, two bundles
for a drain that loses the first when it fails at the second, one crash because
what a crash leaves are files only: a second one starts from a state of the
same shape. Two threads and two messages are what a mixture needs, two steps
and two attempts what a budget needs to run out. Two process ids let a loop
meet its successor, or a stranger that got its pid; that their number does not
matter is proved. Three held-in tasks let two patterns and a passing summary
exist at once; that the number of rounds, tasks and attempts does not matter is
proved. Two admissions are what a stale directory needs, and the plans leave
out, mix or supply each kind of class. Five commands reach a review, an
activation, a signature, a later edit and a binding. Three days and two scans
reach a replay of an archived report after a midnight. Every counter has its
bound in a guard: `MaxGroup`, `Rounds`, `MaxProposals`, `Repeats`, `MaxStarts`,
`MaxCrashes`, `MaxThreads`, `MaxSends`, `MaxEvents`, `MaxRuns`,
`MaxAdmissions`, `MaxCommands`, `MaxMixed`, `MaxPlanning`, `LastDay`,
`MaxScans`, `MaxChanges`, and the sets of jobs, bundles and process ids.

Deadlock is checked in `loop_daemon` only: the other machines may really stop
(the patch is undone, the evaluation decided, the run at its end, the bounded
set of jobs, messages or commands used up).

### What the checks show

* An operation's inverse restores the surface exactly, white space included,
  is accepted by `apply_op` whatever it restores, and the inverses of a merged
  patch undo it from the last to the first. No two operations the merge rule
  lets together erase one another.
* Stopping a task early never changes its verdict nor the decision.
* What the engine commits, when no two proposals of a round share an id, passed
  the gate and the certificate in the form in which it is committed, whether
  merged or fallen back, and the layers it goes on with yield the harness it
  recorded. When a run keeps to its own profile the lineage is a ledger and
  replays, and the trajectory rises with every commit.
* The audit verifier accepts the directory of such a run, after every round and
  after every migration, exactly if no model named a held-out pattern in its
  proposal. Of a migration that died it refuses what was left within a
  transform.
* There is never more than one controller, and stops are neither lost nor
  ignored. The loop's own runs never lose an edit of one another.
* Whatever kills a promotion, the text of `harness.py` is in the file or in its
  backup. From one terminal there is one loop, and "stopped" is true, but for a
  loop whose start was killed before it had written the pid file.
* Threads keep their own conversation through every switch, interruption and
  crash; the prompt comes back. A request tells how the turns before it ended:
  the calls in it that lack a result, which a provider refuses, are those of
  turns that were interrupted or cut, and of no others.
* A chain of evidence the verifier accepts really gained, for every number of
  rounds, as long as no round committed several proposals: a merged outcome need
  not be stated, and nothing binds what is not stated.
* A reproduction bundle that verifies is of one capture as far as its raw output
  says which it is. The verdict on an honest capture depends on nothing that was
  left in the directory, only on its rows: it is admitted if its attempts are
  listed by index or no task is flaky, and refused otherwise. A clean diff means
  the planned split, protocol and run.
* A binding holds only bytes that were reviewed; a trusted one only what the
  trusted key signed as active, and what was activated after the command had
  checked the signature. The two checks of the readiness catalog agree.
* A live scan is judged by its own report, unless an argument for Trivy sent
  that elsewhere, and the database policy and the freshness policy together
  bound the age of an advisory it may have missed.

### Finding

**A bundle that stops the loop** (`autoloop_poison`). A JSON list in the inbox
raises outside the exceptions `_drain_inbox` catches, ends every loop that meets
it, and takes the tasks ingested before it in the same drain along, although
`ui.py:523` says a malformed bundle never blocks the queue. A file that is not
UTF-8 does the same.

### Behaviour outside the properties

Seen while modelling. Where a property excludes one of these, its text says so.

* *Base edits over overlays.* An edit without a target is applied to and
  measured on the bare base, although the round started from the base with the
  profile's overlays: with a heuristic proposer and a profile that has an
  overlay the record neither replays nor reverses
  (`docs/architecture/glm_self_harness_convergence.md:68` promises a chain of
  reverse patches). `engine_ledger` has such a proposer with fresh layers only.
* *Continuity.* Findings change the base at the start of a round, and an edit
  for another profile leaves its harness as `harness_after`;
  `audit_verify.py:325` rejects the directory of such a run. It also rejects an
  aborted run's, by the round that the lineage does not have.
* *Ids.* Layers, baselines and certificates of a round are kept by proposal id
  (`engine.py:371`), and the ids of model proposals are slugs the model chooses
  (`llm_proposer.py:204`). With two proposals of one id the fallback takes the
  later one's layers and certificate (`engine.py:455`), also when that one was
  rejected and its certificate a failure: over a pool with such a pair TLC
  finds `GatedCommit` and `CertifiedOnlyAfterPass` violated. The pools of the
  runs have distinct ids, and the theorems say so (`UniqueIds`).
* *Held-out names.* A proposal whose `pattern_id` begins with `held_out` is
  recorded as invalid, and its row makes the verifier refuse the whole run
  (`audit_verify.py:523`), although the engine rejected it. The rows an engine
  writes carry no task ids, so this is the only way.
* *Died migrations.* A complete copy, a copy without `patterns.json`, and a
  tree between two transforms verify, as runs of the schema they are at,
  without the provenance that is written last. A JSONL file that was torn
  exactly after one of its lines is not told either, unless another file counts
  on the lost row; the model has files that are written or not. A rerun refuses
  the destination that exists. Transforms given by `--transforms-json` are not
  modelled.
* *A user's evolving run beside the loop*, or a reset during a run: the later
  one to persist erases the other's edit. `autoloop_inbox` has the loop's runs
  only.
* The watchdog's bundle is always rejected (`ui.py:940` says it is ingested),
  and every exception of an engine is reported as a timeout.
* A learned task with the id of a held-out base task replaces it as a held-in
  one (`task_sources.py:237`). A proposal budget of zero lets one proposal
  through (`llm_proposer.py:76`).
* Two terminals that start the loop at once leave two loops and one pid.
* A start that is killed between `Popen` and the write of the pid file leaves a
  loop that no command finds, and the next start a second one.
* Calls of a turn that was interrupted while a tool ran, or cut at
  `max_tokens`, stay in the history without results (`agent_loop.py` keeps it
  in place) and go to the provider with the next request and with every later
  one over that history; a cut turn is saved with its thread as well, so a
  resumed thread sends them too. Providers refuse such requests. In the module
  a reply that is cut holds a call; one of text only is an answer, as the code
  treats it.
* A resumed thread begins with an empty record, and a report saves it as it is:
  until the next completed turn the file has lost its conversation.
* A round after rounds with merged or superseded edits only has nothing to name
  as a previous edit, so honest evidence of it is refused. Evidence derived from
  an audit counts attempts where the split manifest counts tasks
  (`reproduction_bundle.py:1854`), so it verifies only with one attempt.
* The release path is circular: release candidate evidence must have passed its
  reproduction readiness gate (`_artifact_shapes.py:956`), which needs a bundle
  that verifies, which needs the evidence, against
  `docs/operations/capture_admit.md:84`. The constant `Fixture` says that such a
  file is there from elsewhere.
* The evaluation report keeps the rows of a capture in the order in which they
  are listed (`capture_extract.py:785`), the audit sorts them by attempt, and
  the verifier compares the two by position (`reproduction_bundle.py:2653`): an
  honest capture that lists attempts in completion order is refused as soon as
  the attempts of one task differ. `Observed` has one order for all tasks of a
  capture.
* A diff against an unsigned bundle always fails; outcomes that only one side of
  a diff lists are not compared. In `_artifact_shapes.py`, the check of
  `fixed_protocol_sha256` in the proposal validation manifest stands after a
  `return` (line 552) and is never reached.
* Two proposals that append the same text leave it twice: the merge rule looks
  for overwriting only.
* The policy binding checks the signature over one reading of the manifest and
  binds the entries of a later one (`operator_policy_binding.py:90` and `:108`):
  what another operator activates in between is bound although nobody signed it.
  In the model a reading of the manifest is one step, and so is the hashing of
  the files of all entries, or of all targets.
* `--trivy-arg` may override `--output` (`scanner_execution.py:90`): the scan
  then judges what was at `--out` before. Otherwise the model assumes that a
  Trivy which exits with 0 wrote its whole report.
* Two operators lose each other's manifest entries, and a copy that is saved
  late brings retired ones back (`manifest.py:93`); files of retired entries
  are still hashed, so editing one blocks the bundle
  (`docs/operations/operator_policy_binding.md:47` says they are ignored). A
  chain of legal changes of the readiness catalog (irrelevant, another surface,
  relevant again) gets around the guards of one change.
* One active RepoDigest is enough for an image, as
  `docs/operations/vulnerability_policy.md:29` says, even beside a revoked one.
  `vuln_check.py` reads the report three times, so two scans to one `--out`
  could be mixed; the model runs one scanner command at a time.

### Fairness

HarnessPatch and Evaluation are sequential programs: weak fairness of `Next`
says the thread goes on. Engine, the capture and the release modules have
safety properties only and state none. In AutoLoop every controller and every
job's thread has weak fairness of its own step, and so has a stop request that
has looked at the status and not yet signalled; nobody has to submit, start, ask
for a stop, or crash. That a run comes back is what the watchdog guarantees
(`ui.py:866`); the guard on UX bundles and the generator have no such limit and
are assumed to return, which `StopHonoured` relies on. In CodeSession the work
of a turn and of a command goes on (`WF_vars(Work)`): requests, tools, headless
agents and judges all have timeouts; the user need not type anything. In
LoopDaemon a command that was given goes on and the main thread of a process
wakes up (`Exit`), since its waits have limits; of its worker nothing is
assumed, for a run may hang in a model call.

## 4. Proofs

Every safety property and every action property that a passing run checks is
also a theorem, for all values of the constants the ASSUMEs of its module allow
(TLC evaluates those in every run); so is the refinement of Ledger. Where a
theorem has a hypothesis of its own it is named below; it holds in the instance
of the run that checks the property. A proof module has one lemma per action (or
per group of actions that disturb the same conjuncts), one for the initial
states, one that puts them together, and theorems that read a property off the
invariant.

The library's induction theorems cannot be instantiated here, so inductions over
the naturals are arguments by the least counterexample: `LeastNatural`
(Engine_proofs) says that a set of naturals has a least element, from the
well-foundedness of `<`. The folds of the community modules are handled in the
same way: `Folding` is the function such a fold chooses, `FoldingExists` that
there is one, and from then on a fold is the function of turns of a loop
(`Turns`). That a finite set has a sequence of its elements in a given order
(`OrderExists`: the place of an element is the number of those below it) gives
the ranking of the proposals its meaning.

**Engine_proofs, merging and undoing** (HarnessPatch), for every set of patches,
every harness and every size of a merge group. `UndoStepExact` says that each
inverse on the stack, applied to the harness after its operation, gives the
harness in `past`. It is not inductive alone: that the next inverse can be
applied at all needs the stack to hold valid replacements of surfaces the
harness has, and that the next operation is one of the group's (`Queues`).
`PatchInv` is the conjunction with TypeOK. From it follow `PatchTypeOK`,
`PatchUndoStepExact`, `PatchUndoRestores` and `PatchUndoValid`.
`MergingLosesNoEdit` has `MergeInv` besides: what is merged and applied so far,
and what is left, leads to the harness that the patches of the group give one
after the other (`Leading`). The lemma `EditsSurvive` then says, for a group of
any size, that a surface one proposal touches is where that proposal alone would
bring it, and one that several touch holds every part any of them appends,
because the merge rule lets nothing replace it. `SpecsTyped` and `PatchesTyped`
say that texts and lists are sequences.

**Engine_proofs, a run** (Engine). `EngineInv` says of every row what its edit
makes of the layers and which measurement it was accepted on (`Weighed`), and
the same of the commit but for its certificate (`Grounded`), for any proposals,
also of other profiles, and any findings; that is `EngineInvariant`. `CertInv`
adds, under `UniqueIds`, that the rows considered and those to come have
different ids and that the commit holds the certificate that is due for its
target: what is looked up by the id of the best row is then that row's own.
`CommitsAreGated` and `CertificatesAreEarned` follow, with that hypothesis.
`GateIsNeverWasted` rests on `Group`, what the loop of `_build_merge_group` has
after each row, and on the ranking: the first row of a sequence in order is the
best. The rest has the hypotheses `OwnTargetsOnly` (proposals keep to the
engine's target, there are no findings, and a heuristic proposer's profile has
no overlay) and `UniqueIds`; section 3 says what happens without either.
`LedgerInv` adds that the running harness is the effective one of the layers
and that every record leads forth and back (`Explains`); the key is that an
edit of the engine's own target changes the effective harness by exactly that
edit (`Landed`). `LineageIsReplayable` and the refinement `EngineIsALedger`
follow, the latter step by step: `WriteLineage` is a step of Ledger, every
other action a stutter.

**Engine_proofs, the audit** (AuditVerify). The verifier compares files, so the
invariant says what is on disk: `FilesInv` that snapshots, lineage and harness
hang together round by round, also in a directory of a run that failed
half-way, and `RowsInv` that ids, statuses and evaluations of the rows agree
with the commit, before the decision (`Chosen`) and after (`Reported`).
`AuditIsVerified` goes through the verifier's checks one by one, the held-out
names and the patterns included, and has both directions: what names a held-out
pattern is refused. A migration changes metadata only, which is an induction
over the schemas on the way; one that died after one, two or three of a
transform's four files leaves two schemas in one directory, and there is a
check that sees each. `TrajectoryIsTold` needs sums of outcomes over tasks
(`Summing`) and the acceptance rule.

**Evaluation_proofs**, for every corpus, every number of repeats and every
answer of the runner. Two facts about votes carry it: one more attempt adds its
own vote (`OneMoreVote`), and the votes to come are at most the attempts to
come (`VotesToCome`), so that two strict majorities of one budget exclude each
other (`LockedVerdict`). `EvalInv` says besides that the votes counted are
those of the attempts run (`Counted`) and how far the loops have come with
every task (`Position`), which is what makes `EarlyStopKeepsVerdict` true of
an arm at the moment its loops are over. `EarlyStopSound`, `DecisionSound`
and `EarlyStopTight` follow. TLC checks three repeats; the theorem covers the
even numbers, where a tie is a loss.

**AutoLoop_proofs**, for every number of loops, bundles, jobs and crashes.
`ControlInv` is `OneLoop` and `StopNotLost` with the types of the control
variables and the fact that a loop that was asked to stop has been born: a
start clears the signal and brings a loop to life, which must not be one that
was asked. `InboxInv` says that what a drain has still to do is in the inbox
and listed once, and that up to the save its buffer holds what it processed,
which the file does not yet; that nobody else drains is `ControlInv`. From it
follow `OnlyProcessedAreLearned` and `NoTaskIsLost`. `LineageInv` says that a
loop's run goes on only while its loop waits for it, so that it persists onto
the state it read; `LineageGrows` follows, under `OwnRunsOnly`: no run that
users start evolves, for such a run and the loop's do overwrite each other
(section 3).

**LoopDaemon_proofs**, for any number of processes, pids and harnesses, under
`OneTerminal` (two terminals do start two loops). `DaemonInv` says that a loop
process that is no orphan is the one the pid file names or the one just spawned
(`Recorded`), and what a command knows at each of its steps (`CommandKnows`):
before it spawns there is no loop, while it signals its pid is the recorded
one. `NeverTwoLoops` and `StoppedIsStopped` follow. Orphans are excepted, as in
the properties. `PromotionInv` adds, as long as there are none, that only a
loop in its promotion writes, that the backup is whole whenever `harness.py` is
about to be emptied and `harness.py` whenever the backup is about to be written
or removed; `TornSourceIsBackedUp` follows, whatever cuts the promotion off.

**CodeSession_proofs**, for any number of threads, turns, tools, steps and
retries. `SessionInv` is far stronger than the four properties, which speak of
files or of one moment: every conversation that is kept anywhere (a file, the
record, the history between turns) is `Sound`, that is, of its own thread, well
formed, with no open turn and with a last message that its outcome accounts
for, so that it may be saved, resumed or continued at any time; a file holds
what is due; and the conversation of a running turn is sound as far as it got
(`InTurn`, `LastWord`). The list of recent threads is of readable files, each
once (`Files`), so a switch never leads to nothing.

**ProposalEvidence_proofs**, for every number of tasks, rounds and attempts.
`VerifiedGains` speaks of the state a round leaves; to carry it over a round,
`Gains` says besides that the baseline under validation is at least the first
one plus a pass for every commit so far, which the continuity of baselines hands
on. The lemma `RoundGains` is the acceptance rule's share: one commit raises the
sum of the splits and lowers neither.

**CapturePlan_proofs**, for all captures, plans and keys. `AllStamped` says
that every artefact whose raw output states its run is stamped with it:
extraction refuses anything else, and torn files have no stamp. With the
bundle's run binding, `VerifiedIsOneCapture` follows.
`PlanningLeavesAdmissionAlone` is a refinement: the commands on plans are
stutters of admission, so all that is proved of CaptureAdmission holds of the
composition. `ReportsStand` says that a rehearsal and a diff stay true of the
files they were made from, from which the three properties of reports follow.
`HonestCapturesAreDecided` is about what the verifier must accept and what it
must not: `AdmissionInv` says that an admission of all of one capture has, for
every class behind it, exactly the artefact that capture makes (`OnTheWay`),
whatever the directory held before. Its hypotheses: a release evidence file
exists (`Fixture`, see section 3); the markers for missing and torn files are
no artefacts (`Markers`); a capture with two attempts per task is consistent in
itself (`CapturesAreConsistent`), that is, its split partitions its tasks, its
image digests match what was trusted, its proposer stayed within its budget,
nothing leaked. The order of its rows is no hypothesis but half of the
statement: the bundle verifies exactly if `RowsAgree`. The proof goes through
every shape check and binding of the verifier; all but one hold of such a
capture, and that one, on the outcomes of the evaluation and of the audit, is
`RowsAgree`.

**ReleaseGate_proofs.** *Promotion*, for any number of operators, policies and
keys: `ReviewInv` says that every entry of the manifest *and of the copies the
operators and the binding have loaded* holds bytes that were reviewed; without
the copies a save would break it. A signature's bytes say which entries were
active when it was made, so those that the binding finds active when it checks
the signature were signed (`CheckedApproved`); what it binds besides became
active between that check and its last reading, which the report's history
(`activated`) names and `SignedBindingApproved` allows. *Readiness*:
`AdmissionPreservesDrift` shows that what one check admits the other accepts;
`AdmittedEvidence` that a provisioned row still has the report it was admitted
on. *Scans*, for any images, policies, limits and command lines: `ScanInv` says
that every report that can be read, at `--out`, in the archive or in the
verdict, is complete up to what the database policy of its own command allows,
and that a live command in its last stage judges its own report. The arithmetic
of the two limits and the midnight is in `DbPolicyBoundsLag` and
`PassingReportAllowsOld`. `ReleaseGateComposes` says that a behaviour of the
two desks is one of each component, so `ReleaseGateVouches`: all of it holds
where they are used together.

**Only model-checked** are the liveness properties `Decides`, `UndoNeverRefused`
(its safety half is `PatchUndoRestores` with `PatchUndoValid`), `StopHonoured`,
`SignalledLoopEnds` and `TurnEnds`: fairness and ENABLED are out of the prover's
reach. `NoBundleStopsTheLoop` is the property that is violated.

What would come next: the lineage for runs that receive findings, with the base
as a second column of the ledger; proposals that share an id; the keyring of
corpora; the reset beside source promotion.

## 5. Not modelled, and why

Prompts, parsing of model answers, rendering and hashing are data; what of them
decides control is a parameter. Runners, verifiers, containers, transports,
Trivy, pip-audit, registries and cryptography are external and answer anything
they may. `harness_state.json`'s legacy shapes, chat, development tasks and
HTTP routing change no state the properties speak of. The reset of the harness
and the assembly of corpora are left out, with the behaviours noted above. The
live variant of the audit verifier repeats the checks while files grow and
writes nothing. The keyring of corpora is a file edited by one command at a
time. Configuration, corpus loading, the demonstration and the project manager
parse files without a protocol of their own. In ReadinessCatalog a report is ok
or not: which of its checks failed, and whether it claims a reproduction (which
`readiness_promotion.py:72` refuses as well), are left open, so the model
admits at most more. In AutoLoop a harness state that the loader refuses gives
no layers, as in the code; one that cannot be read now and can later is not
among the states of that file. In ScanGate a cache without `--db-dir` is a
database of any age, and `--today` (for tests) is left out. In the capture
modules a shape check is one per class, reduced to the fields some binding or
property can tell apart. `PROJECT.json` names every component with its status,
and says of each hazard which property covers it or why none does.
