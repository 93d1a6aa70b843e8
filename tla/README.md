# A formal model of lakda-runner

`lakda` drives an application - a web site, a mobile app, a game - from a
charter, chooses actions by itself, watches what they do, and keeps evidence.
An *exploration session* outlives the process that works on it: it is paused,
resumed, killed and bookmarked from other processes, its state is a directory
of files, and what it says is later used as evidence. Devices are reached
through a threaded bridge, captured media go through an external attestor, and
model servers and targets do what they like. This directory holds TLA+
specifications of that machinery, TLC configurations that check small instances
of it, and TLAPS proofs of what matters most for instances of any size.

Paths below are relative to the repository. Line numbers refer to the same
commit as the specifications.

## 1. The system

| Component | State | Operations | What is hard | What makes it correct |
| --- | --- | --- | --- | --- |
| Session store (`src/exploration/session.ts`) | `session.json`, `events.jsonl` (a hash chain), `checkpoint.json`, the capability snapshot, `findings.jsonl`, `run-manifests/`, the lock directory | create, load and repair, append an event, write a checkpoint, a capability snapshot or a finding, register a run manifest | several processes; two files changed one after the other; crashes in between; a lock without owner | no event lost, the projection is a replay of the log, no reader rejects what a writer left, references point to what is there |
| Explore commands (`src/commands/exploration.ts`) | the session, the control queue, the variables of `executeSession` | run, resume, pause, kill, bookmark, fork, report | decisions on a session read earlier; requests that arrive late; a failure after the run; a target that changes before or after it is probed | one run at a time, a paused session can be resumed, an accepted stop takes effect, no session left running with nobody at work |
| Adaptive run loop (`src/adaptive/coordinator/*`, `src/core/action-budget.ts`) | trace, graph, rate budget, quarantine, recovery count, verdict | observe, select, execute, judge, recover, take a request | timeouts, replay, recovery, rate limit across resumes, three places that write the verdict | rate kept, nothing unsafe repeated, goes on only from a known state, ends, truthful verdict |
| State graph, generators, oracles (`src/adaptive/graph.ts`, `generators.ts`, `oracles.ts`) | nodes, edges, pairs, counters | record, coverage, stop, score, judge | one counter set by four operations, edges recorded by two | the graph is the history, a plateau is a plateau, every action gets its turn |
| Shrinking, replay, scouting, investigation (`coordinator/shrinking.ts`, `replay.ts`, `scouting.ts`, `investigation.ts`) | a recorded trace, a lead, a verdict | reduce, draw leads, replay, promote | verdicts on replays that were cut short or met another target | what is reported was seen |
| Run catalog (`src/runs/*`) | none | read, list, compare | an independent reader of what a run wrote | accepts every run that ended |
| Combinations (`src/adaptive/combinations/*`) | none | generate, estimate, verify | constraints in three values, growth factor by factor | the suite is complete, whatever the seed |
| Security execution (`src/adaptive/security-execution.ts`, `security-policy.ts`, `safety.ts`) | switch, budgets, pending cleanups | screen, authorize, single, race, clean up | workers that check before an await and act after it | within the authorization, nothing sent after the switch, cleaned up before the next |
| Run finalization (`src/core/runner.ts`, `outcome.ts`, `artifacts.ts`, `hate.ts`) | the run directory, verdict, metadata, manifest | execute a plan, stop the browser, hand off media, enforce the policy, export | failure of any step, a page that goes on reporting | manifest and directory agree, a failure stays in the verdict |
| Model client (`src/core/llm.ts`) | the digest cached for a model file, the request under way | preflight, choose | a server that may do anything, a file that is replaced | a choice is among those offered, the model was verified |
| Playwright adapter (`src/adapters/playwright/*`) | targets, the active one, request counter, dialogs, topology log | observe, candidates, execute, settle, screenshot, recover | pages that open, close, navigate and raise dialogs at every await | blame where it belongs, settled means quiet, nothing unmasked is stored |
| Device bridge (`tools/airtest-poco-bridge/*`) | sessions, leases, registry, recorder | open, observe, operate, capture, close | threads, a device that is exchanged between check and call | operations once and in order on the observed device, a recorder that can be stopped |
| Native identity (`src/exploration/native-identity-*.ts`) | journals of observations, actions and captures | connect, act, capture, resume, read | a late or lost answer, a crash between file and event, expiry | journalled before asked, no action after doubt |
| Binary attestation (`src/exploration/attestation-*.ts`) | requests, claims, receipts, media | stage, publish, receive, retain, export | expiry against a late answer, cancellation | one receipt for each request, nothing adopted late |
| Report output (`src/reporting/output-transaction.ts`) | reservation, stage, output | reserve, publish, dispose | two reporters, crashes | never replaces, never half published |
| Report generation (`src/reporting/generation.ts`, `source-*.ts`, `bundle-writer.ts`, `receipt-writer.ts`) | what has been read, the outcome, the receipt | collect, write, verify, publish, receipt | inputs that change while they are read file by file; a deadline; a clean-up that fails | a report shows one moment, the receipt is true |
| Exploration acceptance (`src/exploration/target-manifest.ts`, `acceptance.ts`, the report and HATE manifest in `session.ts`) | none; files that are read | preflight, bind, report, verify an entry, aggregate the lanes | the same facts are checked three times by code written three times, at three moments | what was permitted and passed is accepted, nothing mixed or replaced is |
| Case acceptance (`src/acceptance/common.ts`, `src/adaptive/target-candidate-audit.ts`, `scripts/*-adaptive-real-acceptance.mjs`) | none; files that are read | apply a manifest, audit candidates and safety, judge a case, verify a suite | the checks of a report are not the code that made it | an audit names what is wrong and only that, a suite is sixteen whole cases of one revision |
| Report content and history, CLI shell | none | project, render, dispatch | | pure computation or pure I/O |

The components meet in few places. A command process calls the store through
locked operations. `executeSession` calls the run loop and hands it the control
directory, the restored rate budget, the replay and the expected fingerprint.
The operator's processes read the session and drop a file into the control
directory; the loop, and later the attestation handoff, read that directory.
The loop calls an adapter, the security controller and the oracles; the native
executor calls the device bridge over HTTP. After the run `executeSession` reads
the run directory and turns it into events; scouting, investigation, the catalog
and the reports read it again.

`PROJECT.json` lists the components with their status and, under `hazards`,
every place in this code where a test would hardly reach what can go wrong.

## 2. The modules

| Module | Models |
| --- | --- |
| `SessionLifecycle` | statuses, event types and the transition table of a session |
| `SessionEvents` | the event log and its projection, as operators: what a log projects to, what decoding accepts, what an event does to a projection |
| `SessionLedger` | the abstract store: an append-only ledger and a published prefix |
| `SessionStore` | the session directory, one action per file operation, any number of processes, crashes |
| `SessionStoreProofs` | lemmas and theorems about the two |
| `ExplorationCommands` | `explore run`, `resume`, `pause`, `kill`, `bookmark` on one session, one action per locked operation, with the probe and the launch of the target |
| `AdaptiveRun` | the loop of one run, with clock, budget, quarantine, recovery and verdict |
| `StateGraph`, `Oracles`, `Scouting`, `RunCatalog` | operators: the state graph with its metrics, stop conditions and generators; the built-in oracles; the signals and leads of a trace; the readers of a stored graph |
| `GuidedRun` | a run on a deterministic target that uses these four, then the reduction of its failure, the scouting of its trace and an investigation |
| `Combinations` | the generators and the verifier of combination suites, as operators |
| `SecurityExecution` | the security controller with policy, switch, race workers and cleanup |
| `ExplorationAcceptance`, `CaseAcceptance` | operators: the checks before a real run, the report after it and the acceptance of five lanes; the audits, verdict and suite of the sixteen cases |
| `ModelClient`, `RunFinalization` | the client of the model server; a batch of workers from the launch of the browser to the manifest, which uses it |
| `AttestationExchange` | the handoff of captured media to an attestor |
| `PlaywrightAdapter` | the adapter against a browser that moves on its own |
| `NativeBridge`, `NativeCapture` | the device bridge: sessions, leases and operations; the recorder |
| `NativeIdentity` | the journal of actions on a device, and the executor in front of it |
| `ReportLedger` | the abstract report generator: it takes its inputs at one moment and puts the report where none was |
| `ReportGeneration` | the readers, writers and the output transaction of report generation, one action per file operation, next to a run that finishes and a session that is updated and exported |
| `ExplorationCommandsProofs`, `AdaptiveRunProofs`, `ReportGenerationProofs` | lemmas and theorems about the module each is named after |
| `RunFinalizationProofs` | about the end of a run and what is made of it: `RunFinalization` with `ModelClient`, and `GuidedRun` |
| `SecurityExecutionProofs` | about the two ways to act on a target: `SecurityExecution` and `PlaywrightAdapter` |
| `AttestationExchangeProofs` | about the two chains of evidence: `AttestationExchange` and `NativeIdentity` |
| `NativeBridgeProofs` | about both halves of the device bridge: `NativeBridge` and `NativeCapture` |
| `MC*` | instances for TLC; `MCAcceptance` is claims about the two acceptance modules, evaluated as assumptions |

How they fit: `SessionStore` is the detailed level of what `ExplorationCommands`
does in one step; the theorem `StoreImplementsLedger` is what permits a locked
operation to be atomic there. `AdaptiveRun` and `GuidedRun` are two views of
the loop that `ExplorationCommands` has between `TakeStop` and `RunFails`: the
first has the clock, the operator and the budgets with a target that does
anything, the second has the graph, the guidance and the trace with a target
that is deterministic. `RunFinalization` reduces `AttestationExchange` to its
results, and `NativeIdentity` reduces `NativeBridge` to its answers. These
correspondences are by reading, no refinement is checked.

Operators whose comment begins with *Mutant of* are faulty variants of the
definition that follows them. No specification uses them; they document, for
each property, a plausible mistake in the code that the property catches.

### State and actions of `SessionStore`

`lock`, `session`, `log`, `files`, `findings` and `copies` are the directory;
`pc`, `req`, `seen` and `attempts` are the memory of each process (the
statement it is at, the call it is in, the session it has read or computed, the
failed tries at the lock). `Acquire`, `Retry` and `GiveUp` are `withSessionLock`;
`ReadProjection` and `DecodeLocked` are the two halves of `readSession`, and
`DecodePeek` the second half for a reader without the lock; `Repair` is the write
of the loader; `WriteFile`, `WriteFindingLine` and `CopyManifest` are the writes
that precede an event, of `checkpoint.json`, the capability snapshot, a finding
and a run manifest; `AppendEvent`, `RefuseEvent` and `WriteProjection` are
`appendSessionEventUnlocked`; `Release` is the `finally` of the lock. `Crash` may
come before any of them. Some commands append an event of type `checkpoint`
or `capability-snapshot` without writing a file
(commands/exploration.ts:284, native-identity-evidence-store.ts:140); so
`Announcements` tells the events that announce a file by their payload, not by
their type.

Data is reduced to what the code compares. A digest is the pair of a position
and a writer; the optional payload fields with the rule *the last event that
carries the field wins* are one function over `ScalarFields`; redaction, schemas
and time stamps are left out. `Project` is a closed form of the loop of
`projectSession` (a recursive operator would put the theorems out of the
prover's reach); `MCSessionStore` has TLC compare it with the loop, written as a
fold, on every log of at most three events (`ProjectionIsLoop`).

### State and actions of `ExplorationCommands`

An action of the target is identified by the run that performed it first, so
that a path is a sequence of run numbers and a fingerprint is a path together
with a build of the target; a build also reports a revision, and a new build may
report the old one. `PreflightTarget` and `ProbeAgrees` are the look at the
target that precedes a run, `Launch` and `LaunchFails` the start of the adapter
after it: the target may be replaced in between. `SnapshotCapability` and `Bind`
are `exploreRunCommand`, `ResumeLoad`, `ResumeCheck`, `ResumeRefused`
`exploreResumeCommand`, `ExecuteLoad` to `Start` and `PersistFindings` to `Abort`
`executeSession` with `checkpointFromRun`, and the actions in between the loop.
`Ask` and `EnqueueControl` are the two halves of the operator's commands. A
failing step leads to the `catch` block, which aborts the session, and may fail
itself; `Crash` is the end of a process.

### State and actions of `AdaptiveRun`

`pc` follows the body of the loop: `control`, `limits`, `select`, `consume`,
`execute`, `judge`, `recover`. The target has a state and offers actions in each;
what an action does, how the adapter reports it and what the oracles and the
generator say are choices. One target and one candidate set per observation are
assumed, and the target moves only when an action is executed or a recovery is
attempted; a target that moves by itself is noticed by the real loop only
through its adapter, which then denies the action.

### State and actions of `GuidedRun`

`phase` follows the loop (`top`, `select`, `judge`, ...), then `shrink`, `recorded`
and the replay for an investigation. A target is a record: which actions each
state offers, what each does, the obligations a state shows. `graph` and `trace`
are the values of `StateGraph` and of `adaptive/trace.json`; both are written by
the same actions, as `record...` and `trace.push` are in the code. An
investigation starts `phase` again with `recording` set, maybe on another target.
A generator is the set of the candidates its strategy may return: random draws
are choices.

### State and actions of the remaining modules

* `SecurityExecution`: `Propose` and `Screen` are the admission of candidates;
  the controller then passes through `passive`, `asking`, `sending`, `racing`,
  `cleaning`, and each worker of a race through its own statements. The switch,
  the expiry and every answer of the bridge may come at every await.
* `ModelClient` is an engine with one job: `cache` is what the process
  remembers of the model file by size and time stamp. Of the two time limits only the
  5 s of the connection matter: its signal stays with the body.
* `RunFinalization`: the state of the run under way, from its browser (`page`,
  `capture`) over its files (`media`, `text`, `expect`) to what the code keeps and
  writes (`verdict`, `metadata`, `manifest`); `results` are the outcomes of the runs
  of the batch that ended. Any operation may fail. `loose` is a page of an earlier
  run that is still at work, because neither its context nor its browser could be
  closed; it can change the fixture of the runs that follow.
* `AttestationExchange`: `main` is `completeBinaryAttestationRun`, `pc[r]` the
  task of a request; `Stops`, `GoesOn`, `CheckFails` are the three results of the
  shared stop check, which consumes the control queue.
* `PlaywrightAdapter`: pages are numbered as they register; actions of the
  browser come between any two awaits, those of the adapter follow `execute`,
  `settle` and the screenshot.
* `NativeBridge`: a thread is a request; a step ends where another thread, the
  device or the clock can be noticed. `NativeCapture` adds the recorder with its
  three locks and two background threads.
* `NativeIdentity`: `log` and `files` are the events and the evidence files,
  `device` what the device did. Every record is two writes. `Reading` folds the
  log as `readSessionNativeEvidence` does, written as a recursive function.

Modules whose theorems share a proof module name their specifications apart:
`CaptureSpec`, `JournalSpec`, `AdapterSpec`, `GuidedSpec`.

### State and actions of `ReportGeneration`

`runFinal`, `events`, `state`, `manifest` are the inputs: whether the run has its
manifest, how many events `events.jsonl` and `session.json` show, and the digests
of both in the manifest of the session. `updating` and `exporting` are the
processes that change them: `UpdateSession` is `SessionStore` reduced to its lock
and its two writes, `ExportSession` is `buildSessionHateManifest`, which digests
file after file without the lock. `probe` and `snap` are what a generator has
read. `Probes` is the order in which `loadReportSourceCollection` and, later,
`verifyReportSourcesUnchanged` look at files; `Collect` is the first reading and
`Verify` the second. `Vacant` to `Release` are `reserveReportOutput` with what it
returns, used twice by each generator: for the bundle and, after that, for the
receipt (`tx`). `Settle` is the end of either: it fixes `generationStatus` and,
later, whether a `receiptPath` is reported. `Fail` stands for every exception;
where the lock file is open it leads to `dispose` (`RemoveStage`, `Release`).

`Deadline` only sets the signal; each later step looks at it, except `dispose`.
The check of the signal and the call of `rename` or `link` after it are one
step, for nothing can come between them in a Node process. Two variables are
auxiliary: `base`, the inputs when the second reading starts, and `dirty`, the
transactions whose clean-up failed or was never reached.

A report shows the inputs of one moment although no lock is held: both readings
saw the same bytes, each input only moves forward, so at the moment between the
readings it was what both saw. `base` is that moment, and the refinement of
`ReportLedger` maps `taken` to it.

### `Combinations`

`combo gen` is a function of the model, the options and a seed that only decides
ties; here it is the set of the suites that some order of the ties gives. The
three claims at the end of the module are evaluated by TLC for 22 factor models
and 4 options (`SuitesAreSound` in `MCCombinations`, an assumption of the run
`guided_run`): up to 824 suites for one model, constraints of every kind, some
unsatisfiable, some that leave only pairs of values that cannot be completed, and
budgets that are too small.

### `ExplorationAcceptance` and `CaseAcceptance`

Both are operators over files: a digest is the value that it is the digest of,
a signature the payload with the key that made it, so that *digests agree* is
equality. Guards come in the order of the code, a check that throws is a
conjunct. What is claimed relates pieces that never call each other: an
execution that was permitted and passed is accepted (`PermittedIsVerified`);
files of two executions are not accepted together unless they agree
(`NothingIsMixed`, `NothingIsReplaced`); only five lanes are eligible
(`OnlyAllIsEligible`); an audit names exactly the required actions that are
missing or unresolved (`AuditIsExact`) and the breaches of the authorization
(`SafetyIsExact`); every case that ends is reported (`EveryCaseIsReported`), and
a suite is ready if and only if its cases are whole (`SuiteIsWhole`).

## 3. The runs

Several cfgs check one conjunction of claims that are stated and commented one by
one in their module: `CommandsInv`, `RunInv`, `ExchangeInv`, `FinalizationInv`,
`SecurityInv`, `BridgeInv`, `CaptureInv`, `GraphInv`, `InvestigationInv`,
`AdapterInv`, `JournalInv`. `IInv` is an inductive invariant (section 4).

| Run | Bounds | Shows |
| --- | --- | --- |
| `session_store` | 2 processes, 1 crash, 2 events after the first, 1 failed try at the lock, 10 calls that cover each operation once, the same run manifest with two digests, and a `checkpoint` event that announces no file (102,581 states) | `IInv`; no reader rejects the directory; files beside the log are what the log announces; calls end; refinement of the ledger |
| `exploration_commands` | 2 runners, 3 runs of 2 actions, 2 requests, 1 change of the target, 1 failing step or crash (4.0 million states, 2 min) | exclusion, no duplicate finding, counting; resumability; no false divergence; no session running unattended; stops |
| `adaptive_run` | 2 states, 2 actions, 3 steps, 2 per window of 2 ticks, a clock from 1 to 3, 1 request, a fresh and a resumed run, four restored budgets | rate, quarantine, resume point, recovery; verdict; termination |
| `guided_run` | 518 pairs of targets of up to 3 states and settings, every strategy, 9 actions (752,258 states) | the graph is the history, the plateau is real, the catalog reads it; guidance leaves no action out; the reduction is minimal; leads and verdicts are earned. And `Combinations` |
| `security_execution` | passive, single and race candidates, 2 workers for 3 participants, rate 4 | within the authorization, cleaned before the next, success earned; nothing sent after the switch; every execution reports |
| `run_finalization` | 15 configurations, 2 workers, 2 actions, 2 files, 2 faults, 1 retry, 1 replaced model file (2.1 million states) | manifest true and safe, verdict stands; model verified; batch ends. And the acceptance of 19,200 executions, of which 800 are permitted, and of cases and suites (`MCAcceptance`) |
| `attestation_exchange` | 2 files, 1 fault, 1 control file, an answer that is replaced, late or incomplete | captured bytes survive, only attested media remain; nothing adopted late; the handoff ends |
| `playwright_adapter` | 3 pages, topology cap 3, 3 polls | active is open, triggers true, dialogs allowed, screenshots masked; settled is quiet; execution ends |
| `native_bridge` | 2 threads, 2 sessions over 1 place in each table, 2 operations per lease, 2 generations of the device | operations once and in order, success on the observed device, tables bounded; one observation per session |
| `native_capture` | 2 threads, 2 captures, 1 frame | recorder reachable, frames kept, evidence of the device; nothing recorded after closing |
| `native_identity` | 2 connections, 2 operations, 1 fault or crash, expiry anywhere | journalled first, outcomes known or doubted, what is written can be read; nothing after a doubt; calls return |
| `report_generation` | 2 generators for one output, 1 update of the session with any number of exports, 1 finishing run; one generator with deadline, failing clean-up and crash | `IInv`; true receipts; one moment and no replacement (refinement); every report ends |

Two processes are enough for the races, for each step of the code reads or
writes the shared files for itself alone; three events let one process see, and
miss, what two others wrote; three runs let a resume start from a resume. One
crash or failure already reaches every recovery path; a second one only repeats
it. Tables of one place, caps of 3 instead of 100 and one retry reach the
boundary the code has at a larger number. Targets of three states have a state
to leave, one to recover to and one that was not expected. The proofs remove the
bounds, but for `EveryActionIsTried` and the liveness properties (section 5).

In `report_generation` the generators race for the output while the session
stands still, and one of them reads while the session moves (the bound
`Solitary`); a run may finish at any time. The two races meet in different
variables: the readings do not depend on the output, nor its reservation on the
session, and the product of both is out of TLC's reach. One update is enough:
a second one cannot restore what an earlier reading saw, for the numbers only
grow. In `native_bridge` and `native_capture` the two threads are
interchangeable, which `SYMMETRY` uses; both runs check only invariants and
step properties.

`MCAcceptance` lets one thing go wrong at a time: every lane and both versions
of the manifest, a manifest that is early, late, of another revision or of a key
that is named twice, runs of every outcome with media complete, missing or of a
stranger; 11 permitted executions that differ in one thing each, mixed in pairs;
audits of one and two snapshots; every trace of up to 4 entries of 10 kinds; suites of
15 and 16 reports with one that is foreign. The claims compare at most two
executions, and a trace of 4 has a permit with anything before and after it.

`CHECK_DEADLOCK FALSE` is set where the system may come to rest: nobody has to
call, resume or ask, and a run, a handoff or a batch ends.

### Fairness

Liveness assumes weak fairness of the steps of a call in progress: a process
that is alive goes on, and each wait in the code is bounded by a number of tries
or a time limit.

* `SessionStore`: the steps of a call. Nothing restarts a crashed process or
  removes a stale lock.
* `AdaptiveRun`: the steps of the loop other than exceptions; each call of an
  adapter has a timeout. The clock is not fair, so termination rests on the
  action count and the exits.
* `ReportGeneration`: the steps of a generator that has been started, nothing of
  the session and the run.
* `AttestationExchange`: the handoff, each task, and the expiry, which is the
  passing of time; not the attestor.
* `RunFinalization`, `SecurityExecution`, `NativeIdentity`: the steps of the
  program; the server, bridge or device behind a call with a time limit is
  answered for by that limit.
* `PlaywrightAdapter`: `execute`, and the answers to dialogs it has taken on;
  not the pages.

### What disagrees with the documents

Met while modelling; the modules follow the code, so that the properties above
are stated with these in mind.

1. *Crash recovery and the lock.* A test (`tests/exploration.spec.ts:356`) lets a
   load repair a projection left behind by a crash. A real crash also leaves the
   lock directory, and every call throws after 50 tries. And a crash after the
   very first event leaves a log that is ahead of a projection with a zero head
   digest, which no reader accepts (session.ts:152, 220).
2. *Divergence.* A resume on a changed target is documented to leave the session
   as it was; it completes it.
3. *Bookmarks* replace the cumulative action count (commands/exploration.ts:246),
   so that a paused session may be refused, or a resume diverge. For that reason
   `NoFalseDivergence` and `PausedIsResumable` speak of sessions without one.
4. *An early pause* of a resumed run aborts the session (session.ts:625), and so
   does a target replaced between the probe and the launch.
5. *A malformed control file* ends a run as passed (orchestrator.ts:403).
6. *A passive candidate* screened before the kill switch is still executed after
   it (orchestrator.ts:264); `KillHolds` is about what the controller sends.
7. *The model client* lets the 5 s of the connection also end the body, and
   retries it; the 60 s deadline, documented not to be retried, is out of reach.
   An error of the model inside a plan becomes an executor error, and the
   rejected answer is not recorded (runner.ts:244).
8. *Investigations* call a lead reproduced when any step fails
   (commands/investigation.ts:112), and refuse traces with entries of a model
   decision, an operator, an unknown screen or a finding (replay.ts:106).
9. *The adapter* counts requests below the truth (adapter.ts:135), stops the
   topology log's event count at 100 (topology.ts:54), drops the hold timer of a
   dialog (adapter.ts:464), does not log the opening of a target under a
   `BrowserContext` (adapter.ts:200), and reports the recovery `dismiss-dialog`
   as a success without doing anything.
10. *A native journal* whose first observation failed leaves an empty directory
    that later readings refuse (native-identity-evidence-store.ts:119).
11. *Combinations*: without a factor group v2 covers pairs whatever strength is
    asked for (generator.ts:109), while a case names tuples of that strength.
12. *A session held and resumed* under a renewed target manifest passes every
    check of the resume, but can never be accepted: acceptance compares the
    manifest of the report with the one of the first run (exploration/acceptance.ts:129).
13. *The report* verifies its copy of the target manifest as of the time of the
    report, and looks for a relative `trustStorePath` from the session directory
    (session.ts:570, target-manifest.ts:84); the preflight did neither.
14. *AC-AE-016 cannot be run.* The configuration file must name the digest of the
    payload that the owner of the target signs, and that payload names the
    digest of the configuration file (acceptance/common.ts:153-176, 192-239), so
    no file satisfies both; the runbook
    (docs/acceptance/P7-REAL-ACCEPTANCE-RUNBOOK.md:13, 34) describes the case as
    runnable, and the test of the suite writes its report by hand.
15. *An action required as P0 and as P1* is named by the candidate audit
    (`required_action_id_duplicated`), but the check of the record throws first,
    so that the case ends without a report (exit code 2).
16. *The last moment* of a signed manifest belongs to its validity for a case
    (common.ts) and not for an exploration (target-manifest.ts).
17. *A page that cannot be closed.* Where neither the context nor the browser can be
    closed (runner.ts:259, 263), a run that needs no attestation may end as passed
    while its page is open and changes the fixture after its reset, also under
    the runs that follow in the batch. Two operations must fail for it; that the
    fixture is clean is claimed only without such a page (`VerdictStands`).

## 4. What is proved

`SessionStoreProofs` proves for every number of processes, calls, events and
crashes:

* `StoreInvariant` : `Spec => []IInv`;
* `LockIsExclusive`, `ProjectionFollowsLog`, `NoLostUpdate`, `ManifestsStay`,
  `ReadsAccepted` : its readable consequences;
* `FilesFollowLog` : `Spec => []FilesAnnounced`;
* `StoreImplementsLedger` : `Spec => LedgerSpec`.

The properties are not inductive. *The projection is a replay of the log*
survives `WriteProjection` only if what the process computed extends what is on
disk (`WriterIsCurrent`), which survives the steps of others only with the lock
(`LockDiscipline`), and follows from decoding only if what was read under the
lock is still there (`LockedReadIsFresh`). That a log can always be replayed
(`Replayable`) needs `ManifestsHeld`, for a conflict of run manifests is noticed
after the append; and that in turn needs the order of copy and event
(`CopyPrecedesEvent`). `IInv` is the conjunction. The lemmas
at its beginning say what an appended event does to the closed form of the
projection (`ProjectAppend`) and that a prefix keeps its projection
(`ProjectPrefix`). The refinement maps `ledger` to the log without its chain and
`published` to `session.eventCount`. That a file says what the log announces last
needs its own invariant (`FilesInv`): a process that is about to announce a file
has written it, there is at most one such process, nothing refuses the
announcement between the write and the event, and only a crash parts the two.

`ExplorationCommandsProofs` proves for any number of runners, runs, requests,
changes of the target and faults: `CommandsHold` (`CommandsInv`),
`PausedResumes`, `DivergenceIsReal`, `RunningAttended`, and the action property
`StopIsHonoured`. The actions of a run read a session that was loaded long before
they write, so the invariant is about what a runner remembers: it is older than the session on disk (`Remembers`), its run has a number above any
that the session names (`TraceKept`), and the fingerprint the session names was
reached by the whole trace of the run it names (`Tells`). While there is something to repeat, the path is a
prefix of it (`FollowsReplay`); so a fingerprint that differs after the last
repeated action differs in its build (`Diverged`). Checkpoint and session agree from
the checkpoint to the event that ends the run (`Checkpointed`). A bookmark breaks
`Tells` (item 3 above), which is why all of it is conditional on none having been filed.

`AdaptiveRunProofs` proves `RunInv` and `VerdictIsTruthful` for any target,
rate, duration and restored budget: what the budget remembers is the end of the times of all
actions, so a window that is full in fact is full in the budget; each entry of
the quarantine table counts the timeouts of its action, and the number of
recoveries the failures in a row; the verdict is not set while the loop runs.

`SecurityExecutionProofs` proves `SecurityInv` and `KillHolds` for any number of
workers, participants and candidates: the counts of the controller are those of what was
sent, a race keeps room for each of its workers before the first one sends, the
workers account for every index of the participants, and what is not clean yet is
held by the candidate in progress.

`AttestationExchangeProofs` proves `ExchangeInv` and `NothingAdoptedLate` for any set of
requests: an invariant of each task (what its statement implies for the claim, the
receipt and the media) and one of the handoff, which knows of every task that it has
started.

`NativeBridgeProofs` proves `BridgeInv` and `OneObservationPerSession` for any
number of threads, sessions and generations of the device. An identifier is in one place at a
time, and generations are ordered along a call: what the session last saw is not
ahead of what the call was given, nor that of the device; a lease at rest has succeeded in
all its operations so far.

The same module proves `CaptureInv` and `ClosedIsQuiet` of the recorder, for any number
of clients, captures and frames. `HolderInv` and `StepInv` say which lock each
statement of a client, of the sampler and of the closing bridge is inside, and
`NumberInv` that a number is given to one capture, so that what a slow start does concerns its
own. With these, whatever records, samples or watches does it for the entry of the table
(`EntryInv`), and frames that were kept are of that entry and of the
device (`FramesInv`). That nothing is recorded under a lease after the bridge has closed
must be claimed already for the moment at which the closing bridge finds
everything stopped (`ClosingInv`): a start that is then in the SDK is a plain one.

`AttestationExchangeProofs` also proves `JournalInv` and the action property
`NothingAfterDoubt` of the native journal, for any
number of connections, operations and failures and every signed target. The code
reads a journal from its beginning, so the heart of the proof is `Reading`: the
reading of a log with one more event is one more step of the reading
(`OneReading` and the lemmas after it). The sink judges a record
by what it saw itself and the reader after a restart by what it reads; `SinkInv` says that the two agree
up to the record that is on its way. `SentInv` and
`FlightInv` tie the device to the log: what was sent is in the log, and what is
still on its way is what the log leaves open. `TruthInv` then says of every action that was begun
that the log says so or is not settled, and a log that reads as
complete has nothing that is unsettled.

`SecurityExecutionProofs` also proves `AdapterInv` and the action property `SettledIsQuiet` of the
browser adapter, for any pages, contents, number of polls and cap of the topology log. A page
remembers what was in flight when it opened (`TriggerInv`); of a page that had no request under way
when it registered the counter is exact (`TrafficInv`); and from one poll to the next the
log grows with every page that closes, until it is full (`SettleInv`), which is what `SettledIsQuiet`
needs of it.

Three things the proofs found, which the instances had not shown:

* `AcceptedWasAllowed` was stated for every set of permitted kinds. The configuration may
  permit `unknown` (adaptive/contracts.ts:44, config.ts:56), and `assertExecutable` then lets
  a dialog be accepted for a candidate whose evidence conflicts
  (execution.ts:19). What the evidence says is now claimed only where `unknown` is not
  permitted.
* Two cases of the sampler (server.py:844-853) overlapped in the model; the order
  of the code, which looks at the end of the recording first, is now in the guards.
* That every session starts on one of the contents the pages can show was
  assumed silently; it is part of `AdapterConstants`.

`RunFinalizationProofs` proves `FinalizationInv` and `ModelIsVerified` for any
configurations, workers and actions, any number of failing operations and of
replaced model files. Three lemmas carry it: which actions change each variable
(`Frame`), which way a run takes (`Path`), and that a run that has only its
manifest to write changes nothing else (`Rests`). A manifest is then the last thing
written, after metadata that carry the verdict (`ManifestInv`); a handoff that is
safe follows a capture that was stopped (`CaptureInv`); a flag raised at any point
is in the verdict from its first correction on, and a fixture that is left changed
is such a flag unless a page is still at work (`FailureInv`). What the client keeps of
the model file is not ahead of it, so equal numbers mean equal files (`ClientInv`).

The same module proves `InvestigationInv` and `ShrunkIsMinimal` of `GuidedRun`, for any
targets, the changed ones an investigation meets included, any settings and any number
of actions. The code keeps no list of steps, it reads them from the trace; so the proof first shows
what each entry adds to that reading (`StepsAppended`, and `PerformedEntries` for the
entries of one action), and that between two actions every verdict in the trace is that of
its step (`TraceOK`). Two facts then carry the rest. The
steps of a run are a path of its target, and so are those of its recording (`RunInv`,
`RecordedInv`); and a replay that has not diverged has met
the recorded steps (`AgreeInv`). On the target of the recording both paths continue in the same way, so nothing can
differ (`NextIsPossible`, `RepeatedIsSame`); on any target a verdict
`reproduced` excludes a divergence, hence what was repeated is what was recorded
(`VerdictInv`). A step that ended a run by a failed recovery or contract has a failed
verdict of an oracle (`FailInv`), from which scouting makes a lead (`FailHasLead`), and the steps of a lead did
fail (`LeadFails`). Of the reduction `ShrinkInv` says that no single step before the place it
has reached can go while the parts have one step; a part that does go starts the walk anew.

`GraphInv` is proved there as well, under the same constants: the graph is the history in the
trace, a run that stopped on a plateau had seen nothing new for as long as the condition asks,
and the catalog can read what is written. The code never compares the two, it writes them side
by side; and what the graph is to be compared with are counts of entries and pairs of moves that
followed one another, which no step of the loop computes. Nothing of this needs induction over the
trace, for an entry is only ever added at its end, and each count of a longer trace is that of the
shorter one with or without the new entry (`MovesGrown`, `SightingsGrown`,
`FollowedGrown` and the lemmas beside them). The invariant `HistoryOf` says so of the nodes,
the edges, the pairs and the last novelty, one part of it each; one lemma for each kind of entry
(an observation, an execution, a recovery, and any other) shows that it stays, and every action
is a composition of these. Two facts had to be added to make it inductive. `PlaceInv`: an
action starts from a state that has been observed, hence is a node, and one that was offered there. And the edge recorded last is
that of the last move (`PairsOf`), not just of some move: pairs depend on it. A plateau is judged
by a single counter that four operations set; `NovelOf` says that no novelty is later than the
counter, and `QuietOf` that this was so at every stop.

`ReportGenerationProofs` proves for every number of generators, outputs and
updates, whatever the bound `Solitary`, the empty set included:

* `GenerationInvariant` : `Spec => []IInv`;
* `ReceiptsTold`, `NothingIsLeft`, `OutputIsReserved`, `DeadlineHolds` : true
  receipts, no remains, one writer for each output, nothing after the deadline;
* `GenerationImplementsLedger` : `Spec => LedgerSpec`.

The heart of the refinement is that `base` is what the report shows, although
nobody compared the two. What has been read is never ahead of the inputs, for
they only move forward (`ReadIsBehind`); so, when the second reading starts, what
the first one saw is not ahead of `base`, and what the second one sees is not
behind it (`BaseIsBetween`). Where both readings agree, `base` is squeezed in between. `SessionFollows` keeps the files of the session in
step, so that `base` is between two updates. That a publication hits an empty
place needs `OneWriterPerOutput`: the place was found empty, and only the owner
of the reservation can fill it. `OutcomeInv` and `CleanInv` say at each statement
what is published, reserved and still to be removed, which the receipt then
reports.

Assumptions: `None` is none of the values, generators are not outputs, the calls
carry what their function requires (a finding call a finding, a manifest call a
manifest, only the writer of a file what announces it), bounds are natural
numbers, sets that the code holds in memory are finite. A target of `GuidedRun` offers finitely many
actions in each of its states and these lead to its states (`WellFormed`); the windows of a
plateau are natural numbers, as the configuration demands. TLC evaluates them on every run.

## 5. What is only model-checked

* Liveness: the prover has no rules for fairness and ENABLED.
* What a loop computes for every input: the closed form of the projection against
  its fold, the claims about `Combinations`, `ExplorationAcceptance` and
  `CaseAcceptance`. Induction over data is not available to the prover.
* `EveryActionIsTried` holds on the instances of section 3: whether the actions suffice
  depends on the size of the target, and it is no invariant for every constant.

## 6. Not modelled

A torn write of a single line of `events.jsonl` (the append is atomic here; the
code has nothing to recover from it); schema validation, redaction and digests
of content; `fork` and `report`; of the exports of a session, all but their
digests of the log and of the projection; batches, native evidence and the trust
store as inputs of a report, which are further files read twice in the same way;
what reports and viewers render; the scripts of the other acceptances (extensions,
models) and of the release gate; frames, console messages and event
buffers of a page; what the SDK of a device sees; generated inputs, visual
candidates and the text of prompts; JSON over loopback HTTP; argument parsing.

Hazards seen and not covered by a property: a rate budget that is spent before
a resume has its directory (runner.ts:295); a runner that died leaves the session
running, and only paused or draft ones can be resumed (commands/exploration.ts:305);
a report that fails after the pause aborts the session (commands/exploration.ts:267);
the control queue is ordered by a millisecond and a random name
(commands/exploration.ts:359); a partly written line (session.ts:263);
`lock.stat` may throw before the `try` of an output transaction
(output-transaction.ts:47); requests to the bridge while it is busy are refused
and not modelled (server.py:606); a response larger than the limit
(loopback-json.ts:77).

## 7. Plan

1. `SessionStore`, `ExplorationCommands`, `AdaptiveRun`, `ReportGeneration` with
   their abstract levels. *Done.*
2. The state graph and what reads it; the attestation handoff; finalization;
   security execution; the adapter; the native bridge, capture and journal;
   combinations. *Done.*
3. Proofs of the invariants and step properties of the store, the commands, the
   run loop, the security controller, the handoff, the device bridge and
   finalization with the client of the model; the acceptance of sessions and cases. *Done.*
4. Proofs for the recorder, the native journal, the browser adapter, the
   investigation and reduction of a run, and its state graph. *Done.*
5. That the digests of case 16 go in a circle, by a rank. Refinements: `AdaptiveRun` as the detailed level of `ExplorationCommands`,
   `AttestationExchange` as that of the handoff in `RunFinalization`.
