# The Agent Org, specified

TLA+ models of The Agent Org: the pipeline that takes a ticket to a merge, the work
queue and the workers that drive it, the humans at its gates, and the services around
it (scanners, agents' containers, API, webhook, tenants' rows, provisioning, the
deployed workflow and its console). TLC checks the models on small instances; TLAPS
proves what matters most of them for every instance.

Contents: [the system](#the-system), [the modules](#the-modules),
[the checks](#the-checks), [what the code does not promise](#what-the-code-does-not-promise),
[the proofs](#the-proofs), [what is abstracted](#what-is-abstracted),
[what is not modelled](#what-is-not-modelled), [the plan](#the-plan).

## The system

A ticket becomes a run. A run passes `plan -> gate1 -> develop -> gate2 -> sre ->
gate3 -> promote`; at each gate a human approves or refuses. There are three ways to
carry one: `graph.run_pipeline` walks it in one process; the queue holds every stage of
every run as a row, run by any worker; and the deployed workflow runs one Actions job
per stage.

| part | state it keeps | operations | talks to |
|---|---|---|---|
| queue (`agentorg/queue`) | the table of jobs: run, stage, attempt, status, holder, lease, gate awaited, who decided, last holder whose lease ran out | `enqueue claim heartbeat complete fail pause resume adopt_run_id` | backends `_memory` (one lock), `_sql` (sqlite or Postgres, shared by processes), `_dynamo` (partial, with a lagging index) |
| worker (`scripts/worker.py`) | nothing but the job in hand | `start_run run_one loop approve reject` | queue; stage processes through `queue/runner.py`, whose exit codes `queue/exit_codes.py` maps |
| stage process (`scripts/run_stage.py`) | its copy of the run's document | `plan gateN gateN-rejected develop sre promote` | the document (`gates.py`), agents, GitHub, the index row |
| pipeline (`graph.py`) | its copy of the document, the run's log | the walk, the block rule, `not_promotable` | everything below |
| run document (`state.py`, `gates.py`) | one JSON document per run: status, each stage's result, the decisions | `save load pause resume` | stages, the walk, `gates_cli`, `approve_server`: each saves it whole |
| log and timeline (`log.py`, `timeline.py`) | append-only rows | append; the banner and the delivery count read off them | walk, gates |
| code host (`github_ops.py`, `integrations`) | on the host: comments, one pull request, checks, the issue | `post_comment open_pr merge_pr ci_status report_outcome` | walk, stages |
| security (`agentorg/security`) | the scans remembered by this process | wrappers, fan-out, verdict | developer's diff through `common/diff.py` |
| agents' transport (`agent_client`, `agents/server`, `common/llm`, `cost/record`) | process-wide provenance and usage records, in caller and container | invoke, answer, absorb, report the cost | walk, stages |
| API (`api/`) | keys and idempotency records, in memory | `submit_run run_status cancel_run`, key issue and revocation | queue |
| ingress (`infra/ingress`, `api/ingress.py`) | a cached secret per warm instance | verify, publish | event bus |
| tenancy, db | rows, secrets, budgets; the session's tenant | accessors, `adopt`, migrations | sqlite (triggers) or Postgres (row-level security) |
| provisioning (`infra/cognito`, `infra/amplify`, `db/provision.py`) | what is live | converge, step by step, again after a stop | AWS, Postgres |
| Actions workflow and console (`.github/workflows`, `tenancy/run_index.py`, `web/lib`) | job statuses, the artifact, an index row per run, the tenant's scope | jobs, gates, recorders; `reconcileStatus approveRun setScope` | GitHub, DynamoDB |

What is hard about it:

- **Interleaving.** Workers, approval commands and API servers are separate processes
  that share only the database. In the SQL backend `complete`, `pause`, `heartbeat` and
  `resume` SELECT a row and UPDATE it by id in a later statement; `gates.resume` loads,
  logs and saves unlocked; `submit_run` looks its key up, enqueues, then stores the key.
- **Leases.** A lease lasts 600 s, a stage may take 900 s, nobody renews. A stage can
  run twice at the same time, and each process saves the whole document.
- **Crashes.** `run_one` saves, completes and enqueues in separate steps; the walk saves
  at gates and in a `finally`; scripts stop half way and are run again.
- **Failing calls.** A comment, a pull request, a merge or a put may not happen, or
  happen and lose its answer. Most report that by the text of a reference.
- **Stale copies.** Indexes and replicas lag, instances cache a secret, scans are
  remembered, containers keep globals from one invocation to the next.
- **Endings.** A block, a refusal, a failure and a promotion are different facts,
  recorded on the row, in the document, in the log, on the issue and in the index row.

What makes each part correct:

- *queue*: one row per stage of a run; a gate's row moves only when a named human moved
  it; an ended row stays ended; a refused row never advances the run; the trace of a
  reclaim survives; a claimed row is eventually ended. *SQL*: it is that queue, or we
  know when it is not. *DynamoDB*: no job is handed out twice.
- *worker*: a run is in one place; a stage runs only after the one before succeeded;
  nothing is stranded; approvals are followed by the next stage; a cancellation holds.
- *pipeline*: merged means developed, scanned, checked, and approved at three gates;
  block wins over every other ending; gate2 is asked only about a change that earned it;
  every run ends, and says everywhere how.
- *document and log*: an ending is not rewritten; no decision is there without its row.
- *security*: a poisoned change is never promoted; a remembered scan is a whole one;
  what is scanned is what was added.
- *transport*: an answer is attributed to the path that gave it, and its calls counted,
  those of nobody else with them.
- *API and ingress*: one key, one run; 202 means published; nothing unsigned gets in.
- *tenancy*: nobody reads, writes or pays for another tenant's rows.
- *provisioning*: "done" means what the spec says is there, whatever stopped before.
- *console*: what it says of an ending is so, and it says running of no run that is over;
  the scope is what was asked for.

## The modules

| module | models | role |
|---|---|---|
| `JobQueue` | `queue/__init__.py`, `queue/_memory.py` | the queue, every operation atomic |
| `SqlQueue` | `queue/_sql.py` | the same table, its read-then-write operations in two steps; refines `JobQueue` under discipline |
| `DynamoQueue` | `queue/_dynamo.py` | one item per job, conditional updates, a lagging index |
| `RunState` | `state.py`, `gates.resume`, `not_promotable`, `exit_codes.py`, what stages write | pure operators on the run's document |
| `Worker` | `scripts/worker.py`, `scripts/run_stage.py`, `service.cancel_run` | the fleet: composes `JobQueue` and `RunState` |
| `Pipeline` | `graph.py`, `gates.py`, `approve_server.py`, `gates_cli.py`, `timeline.py` | one walk: composes `RunState`, `CodeHost` and `SecurityRule` |
| `CodeHost` | `github_ops.py`, `integrations` | the code host, a call being the set of its answers |
| `SecurityRule` | `security/*.py`, `agents/security.py` | severities, wrappers, fan-out, verdict: operators |
| `ScanCache` | `security/__init__.py` `_CACHE` | what a process remembers of its scans |
| `DiffText` | `common/diff.py`, `repo_snapshot._removed_lines` | the reader of a proposed change, line by line |
| `Transport` | `agent_client.py`, `agents/server.py`, `llm.py`, `cost/record.py` | warm containers and process-wide records |
| `ControlPlane` | `api/` | keys, submission, idempotency, status: extends `JobQueue` |
| `Ingress` | `infra/ingress/handler.py`, `api/ingress.py` | the two webhook doors |
| `Tenancy` | `tenancy/accessors.py`, `crypto.py`, `budgets.py`, `tenant_zero.py`, `db/engine.py` | tenants' rows, secrets, budgets on both databases |
| `Provisioning` | `infra/cognito`, `infra/amplify`, `db/migrations.py`, `db/provision.py` | scripts that stop and are run again |
| `ActionsRun` | `run-pipeline.yml`, `run_stage.py`, `run_index.py`, `web/lib` | a run of the deployed workflow and what its console shows: extends `RunState` |
| `RepoScope` | `web/lib/dynamo/reader.ts` `setScope` | a tenant's repositories, saved in steps over a lagging replica |
| `GatedPromotion` | what the organisation promises of a change | abstract specification, implemented by `Worker` and by `Pipeline` |
| `MCQueue` `MCWorker` `MCPipeline` `MCPlatform` | | TLC instances |
| `JobQueueProofs` `SqlQueueProofs` `WorkerProofs` `FleetProofs` `PipelineProofs` `ServiceProofs` `ApiProofs` `PlatformProofs` | | theorems |

**JobQueue.** `jobs` is the table in the order of `enqueued_at`, so a position stands
for a job id and "oldest" is "smallest". `Enqueue`, `Claim`, `Heartbeat`, `Complete`
(`complete` and `fail`), `Pause`, `Resume`, `adopt_run_id` are the operations, guards
and all; `LeaseExpires` is time. A call the code refuses (`ValueError`, `LookupError`)
changes nothing and is a disabled action.

**SqlQueue.** `call` is what each process has read and not yet written. `CompleteRead`
and `CompleteWrite` are the SELECT and the UPDATE of `complete`, and so on. `enqueue`,
`claim` and `adopt_run_id` are single statements or one `BEGIN IMMEDIATE` transaction
and stay atomic. The write touches the columns `_update` is given, whatever the row has
become. `ResumeWrite` respects the UNIQUE index, which covers the recorder stages too:
the in-memory backend has no such check in `resume`, so there a run could get two
rows for one recorder.

**Worker.** `wk[w]` is a worker's place in `run_one`: `claimed`, `skip` or `start` after
`_already_ran`, `running` once the stage process has loaded the document, `recorded`
between `gates.resume` and the stage's own save, `merged` between `merge_pr` and
`promoted`, `exited`, `adopted`, `enqueue` between `complete` and `_enqueue_successor`,
`dead` until restarted. `docs` are the saved documents. A stage works on the copy it
loaded and saves it whole. The agents are a choice over what they may answer.

**GatedPromotion.** Four variables: approvals by run, refused, merged and cancelled
runs. `Worker` maps to it: an approval is a gate's row with a name on it, a refusal a
row repointed at a recorder, a merge a call of `merge_pr`. `Pipeline` maps to it
differently: approvals and refusals are the process's own decisions, a merge is what
reached the host's main branch.

**Pipeline.** `at` is where `_walk` is, one value per step that can be interrupted:
`pause` before a gate's save and marker, `asked` until it is answered, `ruling` between
the scan and the block rule, `merged` between `merge_pr` and `promoted`, `save` and
`report` for the `finally` clause. `mem` is the process's copy of the document, `disk` the
saved one, `rows` the log, `host` the code host. `Raise` is an exception of an agent, its
transport, the tests or the terminal; `Kill` ends the process anywhere. `op` holds what
each approval screen's thread or shell is doing: `AskScreen` admits a decision against
the document as it is, `LoadRun`, `LogDecision` and `SaveDecision` are the three parts of
`gates.resume`, `AskShell` is `gates_cli`, which checks nothing. `Outcome` and `Delivery`
are what the timeline makes of the log.

**CodeHost.** A remote call is a set of pairs, the host as it is left and the reference
handed back: before the effect, after it with the answer lost, or answered. `open_pr`
alone raises. Offline calls write the notes file and merge nothing.

**SecurityRule, ScanCache.** A wrapper sees a scanner's health and says findings, a fault
finding or an absence; `fan_out` isolates absences and raises only when nothing that ran
had anything to say; `Verdict` is `compute_security_verdict`, or the fixture chosen by
the change itself. A change is known by whether its added lines hold a key, or cannot be
read. `Pipeline` uses the operators over all machines, `ScanCache` adds `_CACHE`.

**DiffText.** `ReadLine` consumes a line of any kind in any order, as a model may write
them, and carries the code's own variables (`files current body in_run recognised`). A
line is its position. The property is a second, declarative reading of the whole text.

**Transport.** `box` is the container with its globals and whom it serves, `proc` a run's process with
its own, `flight` an invocation (`Receive` is `do_POST`, `Respond` the envelope, `Accept` what
`call_agent` keeps), `charge` the document's cost and source; `tally` is history. A read
timeout leaves the container running unheard; a container is replaced when idle. At most
`AtOnce` invocations are under way in it: the server answers each in a thread.

**DynamoQueue.** `items` is the table, `gsi2` the index as far as it has caught up,
`listed` what a worker last listed. A claim's condition decides, not the listing.

**ControlPlane.** A submission is `BeginSubmit` (the key resolved), `LookUp`, `EnqueuePlan`,
`Remember`, on threads that interleave; `WorkerAdopts` is the planner renaming the run under
it; `Restart` forgets keys and records and leaves the queue. `started`, `answers` and a
thread's `retry` are history.

**Ingress.** `handler` is one delivery: the refusals in their order, the cached secret,
`put_events` with its three outcomes. The API's route is the operator `verify_delivery`.

**Tenancy.** A process's connection is bound to a tenant by the accessor and may be
left in an aborted transaction. `require` is the scoped lookup and what it reveals;
`Visible` is row-level security on Postgres and everything on SQLite. `set_budget` and
`add_spend` are two statements each.

**Provisioning.** `at` is the call a script is at. Each call is answered, made with its
answer lost, or not made; the process may stop anywhere, the console changes things
between two runs, and `Start` runs the script again over what is there.

**ActionsRun.** `job` is what GitHub says of each job, `document` the artifact, `indexed` the
index row, whose writes fail silently. `JobDies` is a runner lost at any time;
`Recorder` is the job that writes a refusal. `reconcileStatus` and `isRefusedGate` are what
the console makes of row and GitHub.

**RepoScope.** A save reads, reads again, deletes, puts; `may` is history: what people
asked for, narrowed by a save that was alone and began on a current read.

## The checks

Passing runs:

| run | bounds | shows |
|---|---|---|
| `queue` | 2 rows, 2 workers; one of three programs: the in-memory backend and the SQL one (two runs, an operator, stages plan and gate1, no canceller, leases of the living hold), or the API (2 tenants, 2 keys, 2 threads, one idempotency key, planners and restarts) | in memory, all operations in any order by anybody: the seven properties of `JobQueue`; `ActsAtomically`: the two-statement operations implement it, crashes in between included; `RetriesStartNothing`: a submission after its key was answered starts nothing |
| `worker_overrun` | a whole run (7 stages), 2 workers, one lease lost under a living worker, cancellation at any point | `OneLiveRowPerRun`, `MergeWasEarned`, `CancelHolds`, and `KeepsThePromise`: the fleet implements `GatedPromotion` |
| `worker_crash` | a whole run, 2 workers, one death at any step, cancellation of the run | `ChainIsUnbroken`, `EndingIsFinal`; with fairness `EveryClaimEnds`, `ApprovalAdvances` |
| `pipeline` | a whole walk, 1 revision, every answer of every call, kill at any step, one decision from a screen or a shell (a rejection at gate3) | `KeepsThePromise`: the walk implements `GatedPromotion` too; `BlockWins`, `Gate2IsEarned`, `EndingIsRecorded`, `DeliveryIsHonest`, `PoisonedNeverPromotes`, `EveryDecisionIsLogged`; with fairness `EveryRunEnds` |
| `platform` | the services around, two actors each, one at a time, and the SQL queue with 2 operators, an API server and leases that lapse freely | one invariant per service: `RememberedScansAreWhole`, `NoUsageIsLost`, `HandedOutOnce`, `AcceptedIsPublished`, `TenantsStayApart`, `DoneMeansConverged`, `ConsoleShowsTheEnding`, `ScopeIsAsAsked`, `FilesHoldWhatWasAdded`; and what the SQL queue keeps through all races: `OneRowPerIdentity`, `NoGateRunsUndecided`, `ReclaimIsRemembered` |

*Queue and fleet.* Two rows are enough for the queue's properties: each is about one
row or a pair. A plan row and a gate row cover the two ways a row is born, and the
recorders come in by refusals. The backends' rows in `MCQueue` are of two runs and wait
at two gates (`MCRuns`, `MCGates`): a third of either is one more of the same; the API
has a placeholder more, so that two submissions differ. `Workers`, `KeyIds` and
`ApiThreads` are interchangeable; an operator is not, since there is one. Seven rows are
one whole run, the longest chain there is; two run ids because an overrun plan stage
mints two. One crash and one overrun each fall at every possible step; they are explored
apart because their product does not add an outcome the properties tell apart and costs
an order of magnitude.

*Pipeline.* One revision is the smallest cap at which the loop is taken and cut off.
One outside decision, begun and finished at any two points, already loses one of the
walk's, reopens an ended document and appends to a finished log; gate3 is the last
gate, so there the saved document has the most to lose. `MCPipelineUnmerged.cfg` also
tries overrides. The theorems below cover every cap and any number of writers.

*Platform.* The services share no state, so `MCPlatform` runs one of them (`service`)
and lets the rest stand: the state space is their sum. Two of each actor race; three
statements tell before, within and after; four lines hold a header, a line, a second
header of the same path and its line, or a hunk between an unmarked line and an indented
one. `MaxClients = 3` allows the sign-up client to be lost twice. `AtOnce = 2` and two runs:
an invocation is received, answered or given up while another is under way. Two operators
and the accessors' processes are interchangeable. The proofs cover all of it for every
other bound.

**Fairness.** `FairWorkerSpec`: weak fairness on each worker's own step, because `loop`
polls and a dead worker is restarted by its supervisor, and on the passing of leases,
because time passes. Nothing is assumed of humans, of API clients or of crashes:
`ApprovalAdvances` starts from a gate already released, and says nothing of a behaviour
in which a worker died (see below why). `PipelineSpec`: weak fairness of `Process`, the
walk itself, except while a person at a terminal has to answer: a process runs on unless
killed, and `Kill` is always allowed. Every call returns or raises, since each has a
timeout.

Each property of a passing run has a mutant: an operator marked "Deliberate bug",
next to the one it replaces, under which TLC finds the property violated.

`CHECK_DEADLOCK FALSE` is set where the system really stops: every row of a full
table has ended, a run waits for a human who never comes, or the walk is over.

## What the code does not promise

Seven runs end in a violation, each of a sentence of the repository.

1. `sql_resume_race`, `TerminalIsFinal`. `queue/__init__.py:98` calls the terminal
   statuses those "a job cannot leave". In `_sql.py:523-556`, `resume` reads the paused
   row and updates it by id in a later statement. Two operators read the same paused
   gate; the first writes, a worker runs the gate and completes it; the second writes,
   and the ended row is ready again (or is the refusal's recorder).
2. `sql_cancel_race`, `CancelStands`. `service.py:436-440` guarantees that
   `queue.complete` refuses the worker's write after a cancellation. In
   `_sql.py:493-505`, the check and the write are two statements: a worker that read the
   row before the cancellation writes `done` over it, and goes on to enqueue.
   `CancelHolds` of `Worker` is true of the atomic queue only.
3. `worker_stranded`, `NothingIsStranded`. `worker.py:627-629` calls a restart
   mid-pipeline a non-event. A death between `complete` (L419) and `_enqueue_successor`
   (L426) leaves a running run with ended rows only. A death after a stage's save and
   before its `complete` has the same effect through `_already_ran`: the reclaimed row is
   recorded `already_final`, and that has no successor. The docstring at L189-192 expects
   this case to fail "loudly on the next stage", but no next stage is enqueued.
4. `pipeline_unmerged`, `PromotedMeansMerged`. `graph.py:739` says "THE MERGE IS WHAT
   MAKES THE PROMOTION TRUE". `merge_pr` never raises: a conflict, a closed pull request
   or a lost answer gives a `merge://failed/...` reference (`github_ops.py:776-820`), which
   `_walk` logs as the merge before it sets `promoted` (L747); `run_stage.py:896` does the
   same. A run is recorded, logged and reported on its issue as promoted with nothing
   merged.
5. `fabricated_refusal`, `RefusalsAreByPeople`. `run_stage.py:607` says a refusal at the
   Environment is "the only remaining reason this job runs". The recorder's condition
   (`run-pipeline.yml:818-820`) is any result but success and cancelled, and the gate's
   job checks out, installs and downloads before it records anything: when it dies
   after a reviewer approved, the recorder writes a rejection in the reviewer's name.
6. `answers_mixed`, `AnswersAreTheirOwn`. `agents/server.py:165-168` resets the source
   before each call, "so `source` below describes THIS invocation". The record is a global
   of the process, which serves from threads "because AgentCore may issue concurrent
   invocations" (L227): a second invocation resets what the first recorded, and the first's
   envelope says that neither model nor fixture answered. The usage record is never reset
   at all: `llm.py:223-229` calls a run inheriting another's counts "worse than reporting
   nothing", and only `scripts/measure_cost.py:129` calls `reset_usage`. With `AtOnce = 1`
   that is the trace TLC finds: the second run is charged for the first one's calls.
   `NoUsageIsLost` is what remains: a run may be charged for others, never for less than
   its own answers took.
7. `one_run_per_key`, `OneRunPerKey`. `api/idempotency.py:35-37` guarantees that two
   submissions with one key "produce ONE queued run, and the second gets the first one's
   ids back". `submit_run` looks the key up (L247), enqueues (L263) and keeps the record
   (L274): two threads both find nothing and both enqueue, the record of the second is
   refused, its client is answered 500, and its job stays on the queue. The second half of
   the sentence fails with one thread: a replay gives the row's run id as it is now
   (L260), which the planner has changed, and not the one `Record` keeps for that purpose.
   `RetriesStartNothing` is what remains: a submission that comes after an answer to its
   key starts nothing and names the same job.

The models contain further behaviour that no sentence rules out:

- `merge_pr` called twice when promote is reclaimed, a decision appended twice by a
  reclaimed gate, a second run minted by a reclaimed plan, a worker process that dies
  on the `ValueError` of a second `complete`. With a lease lost under a living worker
  `EndingIsFinal` fails, since a save is of the whole document: it is checked without
  that, as what the code achieves when leases are long enough.
- A screen or a shell that loaded the document before the walk saved it puts the old
  one back, and the walk's next save loses the decision. Hence `outside = 0` in
  `EndingIsRecorded`; `EveryDecisionIsLogged` is what survives.
- A restart of the API forgets every key (`idempotency.py:50-55` says so).
- With gitleaks absent and another scanner reporting below the threshold, the fan-out
  stands on two scanners. `PoisonedNeverPromotes` is stated where gitleaks works.
- A DynamoDB item that is running is never reclaimed, and its `pause` writes over
  anything.
- A taken user-pool domain is read as ours; a user seeded by a run that stopped before
  the password keeps a temporary one.

## The proofs

For any sets of runs, workers, operators, tenants, keys and bounds:

| module | theorem | property |
|---|---|---|
| `JobQueueProofs` | `QueueTypeOK` | `TypeOK` |
| | `StagesAreUnique` | `OneRowPerStage` |
| | `GatesHold` | `NoGateRunsUndecided` |
| | `HoldersAreClaimants` | `HolderIffClaimed` |
| | `EndingsAreFinal` | `TerminalIsFinal` |
| | `RefusalsStand` | `RefusalStands` |
| | `ReclaimsAreRemembered` | `ReclaimIsRemembered` |
| `SqlQueueProofs` | `SqlTyped` | `SqlTypeOK` |
| | `IdentitiesAreUnique` | `OneRowPerIdentity` |
| | `SqlGatesHold` | `NoGateRunsUndecided` |
| | `SqlImplementsTheQueue` | `ActsAtomically`: under `Disciplined`, `SqlQueue` implements `JobQueue` |
| | `SqlEndingsAreFinal` | `TerminalIsFinal`, under `Disciplined` |
| `WorkerProofs` | `FleetTypeOK` | `WorkerTypeOK` |
| | `FleetUsesTheQueue` | `QueueSpec`: every step of the fleet is a step of the queue |
| | `FleetGatesHold`, `FleetStagesAreUnique`, `FleetEndingsAreFinal` | `JobQueue`'s properties, of the fleet |
| `FleetProofs` | `OneRowAtATime` | `OneLiveRowPerRun` |
| | `CancelledStaysOver`, `MergesAreEarned` | `CancelHolds`, `MergeWasEarned` |
| | `FleetKeepsThePromise` | `KeepsThePromise`: the fleet implements `GatedPromotion` |
| | `ChainNeverBreaks`, `RunEndingsAreFinal` | `ChainIsUnbroken`, `EndingIsFinal`, where `MaxOverruns = 0` |
| `PipelineProofs` | `PipelineIsTyped` | `PipelineTypeOK` |
| | `PipelineKeepsThePromise` | `KeepsThePromise`: the walk implements `GatedPromotion` |
| | `BlockAlwaysWins`, `Gate2IsAlwaysEarned` | `BlockWins`, `Gate2IsEarned` |
| | `DeliveryIsAlwaysHonest`, `EveryDecisionIsAlwaysLogged` | `DeliveryIsHonest`, `EveryDecisionIsLogged` |
| | `EndingIsAlwaysRecorded`, `PoisonedNeverGetsThrough` | `EndingIsRecorded`, `PoisonedNeverPromotes` |
| `ServiceProofs` | `JobsAreHandedOutOnce` | `HandedOutOnce` |
| | `AcceptedIsAlwaysPublished` | `AcceptedIsPublished` |
| | `ScopeIsAlwaysAsAsked` | `ScopeIsAsAsked` |
| | `RememberedScansAreAlwaysWhole` | `RememberedScansAreWhole` |
| | `TenantsAlwaysStayApart` | `TenantsStayApart` |
| `ApiProofs` | `RetriesNeverStartAnything` | `RetriesStartNothing` |
| | `ApiUsesTheQueue` | `QueueSpec`: the API only ever steps the queue |
| `PlatformProofs` | `DoneAlwaysMeansConverged` | `DoneMeansConverged` |
| | `UsageIsNeverLost` | `NoUsageIsLost`, for every `AtOnce` |
| | `ConsoleAlwaysShowsTheEnding` | `ConsoleShowsTheEnding` |
| | `FilesAlwaysHoldWhatWasAdded` | `FilesHoldWhatWasAdded` |

Assumptions, all evaluated by TLC in the runs: `JobQueue`'s (the stages and endings in
play are the code's, `Nobody` is nobody, the bound is a number); `Worker`'s (tickets
and runs are distinct ids, the fleet enqueues every stage and records every ending);
`Pipeline`'s (the cap is a number, what is decided outside is a decision);
`ControlPlane`'s (placeholders are run ids, no header is not a key); `SqlQueue`'s (a caller is
a worker, an operator or a canceller); that secrets, tenants, paths and master keys are not
the marks used for their absence.

Four theorems have a hypothesis of their own, an `ASSUME` of the theorem and the very
constants of the run that checks the property. `Disciplined`: one operator, no canceller,
no lease of the living lost (the races of `sql_resume_race`, `sql_cancel_race` and
`platform`), and one attempt per stage, which is what every caller of `enqueue` in the
code asks for. (With two, a worker's late `pause` of the first attempt puts an older row
in front of the one the operator read: TLC finds `ActsAtomically` violated.)
`MaxOverruns = 0`: no stage outlives its lease. With one overrun TLC finds both properties
violated: a plan done twice is renamed behind its first gate, and a late save is of the
whole document.

**The queue.** Every step appends one new row, replaces one row by a function of it
or renames one (`StepShape`). `OneRowPerStage` is inductive together with `TypeOK`: an
insertion and a renaming look for a collision, and no other step changes a row's run
or attempt, nor moves its stage to one of the chain. The others need
`RowInvariant == TypeOK /\ HolderIffClaimed /\ NoGateRunsUndecided`: `HolderIffClaimed`
carries the rest. A reclaim may write `reclaimed_from` only because a claimed row has
a holder, and time cannot touch an ended row because only claimed rows have leases.
From it, what a step may do to a row (`Moves`) gives each action property by looking
at one record.

**The durable backend.** `SqlInv` adds that a caller in the middle of an operation
remembers a row of the table. That is all it may rely on: between its SELECT and its
UPDATE the row may have become anything. `HolderIffClaimed` and `TerminalIsFinal` are
false in general, so the argument may not use them. Identities survive since only `enqueue`,
`adopt_run_id` and the UPDATE of `resume` write one, each under the index; gates survive
since `claim` requires a row that was ready already, and the only UPDATE that makes a
row ready also writes who decided.

Under `Disciplined` it is the queue: `AtomicInv` says that what a caller read is still so
when it writes. A worker at work has its row claimed, in its name and under a live lease,
so nobody else may take it; a row waits at the gate of its own stage, so the row an
operator read is the only one there, by `OneRowPerIdentity`, and only the operator moves
it. Hence no two callers are busy with one row, each write is the atomic operation, and
each read is a stutter. A crash between the two forgets what was read and needs nothing.

**The fleet.** `WorkerInv`: a worker at work has a row of the table, a run and a stage
that exist and, while it is between `complete` and the enqueueing, a stage with a
successor; the API cancels rows of a known run. Under it each action of `Worker` is an
operation of `JobQueue` on a row that is there, or leaves `jobs` alone, whatever the
worker remembers of a row that others have moved on. `FleetUsesTheQueue` then carries
`JobQueue`'s theorems over.

**The fleet and a run.** `FleetInv` reads the table by run. A row has a place, its stage's
in the chain (a recorder has its gate's), and of one run no two rows have the same
(`Distinct`), only the furthest is live (`Latest`), and each past the first gate has one
below it that is done for good, gates by a named human (`Below`, `GateSound`). That is
`OneLiveRowPerRun` and, at `promote`, `MergeWasEarned`. What keeps it true is about the
workers, who may hold rows that are no longer theirs:

- `MintSound`: a run id that a plan stage minted is that worker's alone, and no row has it but
  the one in its hand, until the first gate is on the queue: a plan done twice may start
  two runs, never one run twice.
- `HandOver`: a worker between `complete` and the enqueueing is alone with its run: the row
  it ended was the furthest, no other row of the run is live, and nobody else is about to
  enqueue for it. `complete` is refused to the second of two workers, which is why an overrun
  does not break this.
- `CancelSound`: the live row an API server is about to end is all that keeps the run going,
  so that once it is ended nothing does (`CancelledSound`).
- `MergeSound`: `merge_pr` leaves a promote row behind.

The refinement of `GatedPromotion` maps an approval to a named gate row: a live row has all
gates of its run below it approved and none refused, so a decision is about the next gate,
and a merge finds three.

`ChainIsUnbroken` and `EndingIsFinal` say more than survives an overrun. `ChainInv` adds
that a living worker holds the row it works on or the row has ended (`Alone`), two never
hold one (`Apart`), and a first gate has a done plan (`FirstBelow`). `DocInv` adds the
documents: the copy a stage works on is the saved one (`CopySound`), a minted run has one
that runs, and a live row is of a run that goes on, or whose stage saved its work before
it died (`RowGoesOn`). A stage process therefore never saves an older copy over an ending.

**The walk.** `PipelineInv` is a conjunction, each part there because another needs it:

- `TypeInv`, which strengthens the type invariant to every field read.
- `GatesInv`: at each place of the walk, which gates the process has approved, that
  nothing is refused while it goes on, and that nothing is merged before `promote`. This
  is the refinement: a decision adds an approval, and a merge finds three.
- `VerdictInv`: at each place, what the review and the scanners said, and which statuses
  can be set. `BlockWins` is its case at the end, and it is what lets gate2 and the SRE
  stage assume a pass.
- `Gate2Inv`: a pause marker of gate2 in the log means review and scan agreed and the walk
  is past the ruling, so nothing can change them again.
- `DraftsInv`: the developer's rows are at most one more than the revisions counted.
- `DeliveryInv`: every block row whose reference counts as delivered has its comment on
  the host. The host only ever gains comments, and the reference is written by the same
  call as the comment.
- `DecisionInv`: every decision in `mem`, in `disk`, or in the copy a screen or shell has
  *logged* is on the log, and in the copy it has *loaded* all but its own. Log rows
  are never removed, so any interleaving of saves keeps this.
- `EndingInv`: the last row names the status from the step that sets it to the end, and
  after the save the disk holds the process's copy, as long as nobody outside began.
- `PoisonedInv`: a poisoned run's change holds the key, and where gitleaks works every
  machine's answer on such a change is a block: a lemma about `SecurityAnswers` over all
  healths, words and admissible thresholds.

Each action preserves each part by a lemma of its own; the steps of the outsiders touch
`disk`, `rows` and `op` only, so most parts follow from the frame.

**The services.** Each theorem needs one strengthening. `HandedInv`: an item that was ever
taken is no longer `ready`, so no condition holds a second time. `PublishedInv`: what an
instance has cached is a value the secret once had, and not the blank one. `ScopeInv`: each save asks
for names that may be in scope, and `OnCourse`, that a save which is still alone dooms
every row it does not want and later leaves none; an overlap clears `alone` for good, and a
lagging replica clears it at the start. `ScanInv`: what is remembered was storable, so no
scanner was absent or faulty, and `StoredIsWhole`, that a key is then a finding above
every threshold the floor admits. `TenantsInv`: a charge under way has its budget, so that
the sum the database makes is the sum that was charged, whoever sets the ceiling meanwhile.
`ApiInv`: a job in a thread, a record or an answer is a row of the tenant's, and a key with
an answer has its record, which nothing but a restart, which takes the answers too, removes;
so a thread that came after the answer and has yet to look finds the record (`Honest`), and
no such thread is ever past the look-up.

**The platform.** `ProvisionInv` says, for each call a script may be at, what is converged by
then; a stop leaves the script at `stopped`, where nothing is claimed, and `Start` begins
again. `TransportInv`: a container is not replaced while it serves, and
nothing it does takes usage out of its globals, so what a call took from the model is
there until the answer is made; what the answer carries is in the caller's record before
the tally owes it, and goes to the stage's cost with everything else the record holds
(`BillSound`). Other invocations only add. `ActionsInv`: a job is due only after the one before
it succeeded, so one is at work at a time, the document ends once, and the index row, which
lags and may be lost, is a copy of what the document was. Whatever `reconcileStatus` says
over such a row is then so: `failed`, its word for an ending it cannot name, never stands for
a recorded rejection or a block the row heard of, and for a saved promotion only where the
promote job failed after saving it. `DiffInv` is about a text that grows: the body in hand
is what the text so far adds under its last header, every other header's body is stored
unless a later header took its path, and every line stands under some header. What a line
adds to the text changes the reading of the last header alone.

Every invariant and every action property of a passing run is stated by a theorem.
Model-checked only: `EveryClaimEnds`, `ApprovalAdvances` and `EveryRunEnds`, which are
liveness under fairness and beyond the prover, and the seven violations. Not proved either:
what `total_usd` adds up to, which is an induction over a set.

## What is abstracted

- Time is one bit per row: has the lease passed. Timestamps are strictly increasing
  (microseconds), so first-in-first-out is exact.
- `decided_by` is never empty: `resume` would accept an empty approver, but its callers,
  `approve` and `reject` in `worker.py`, put `queue-operator` there.
- `enqueue` takes any status; the model's rows are born as its callers ask: gates
  paused at themselves, everything else ready.
- Postgres' `FOR UPDATE SKIP LOCKED` may hand a worker a row that is not the oldest
  while another is being claimed; the model keeps the order.
- `Worker` uses the atomic queue. What the SQL races add is shown by `SqlQueue` alone.
- In `plan`, saving the document and printing its id are one step; a failing plan
  leaves a document nobody refers to, which no property sees.
- A stage process whose worker was killed is taken to die with it.
- In `Pipeline` only the comment whose reference is read later, the security stage's,
  and the outcome are posted; a stage comment whose delivery nothing reads is left out.
- A change is `clean`, `keyed` or `unreadable`; a scanner's report is a set of its words.
- A placeholder run id and a repository row's id are random: they are never one that is
  in use. The master key, the webhook secret and a signature are compared, not computed.
- A tenant's DynamoDB partition is a tenant: one is enough for the queue.
- An agent's run in a container is one step: what it records between its own model calls
  can be reset by another invocation in between, which only adds to `answers_mixed`.
- `RepoScope`: a request names each repository once, since the route removes repeats
  (`web/app/api/repositories/route.ts:130`); `setScope` itself would put a row for each.
- `ActionsRun` has one run. `listRuns` asks GitHub only about runs whose status column says
  running and about eight of those at most; the others are shown as where GitHub cannot be
  reached, which `ConsoleShowsTheEnding` covers, all but its last part.
- Any key in a change is found by a working gitleaks. Its two rules are narrower, an AKIA id
  and an assigned secret, which is what the poisoned ticket plants.
- Ticket texts, prompts, reasons, logs and prices are left out; `decisions` is a set: the
  code only reads it by membership.

## What is not modelled

Listed part by part in `PROJECT.json`. In short:

- *Agents.* Prompts and what a model says are choices; only what the code does with an
  answer is modelled.
- *Retrieval*, the measuring, preflight and slide scripts: they read and print, nothing
  acts on their state.
- *The git and memory adapters* of the code host are not shipped: `host()` refuses them.
- *The DynamoDB accessors* of tenancy other than the run's row and the repositories.
  Their `add_spend` reads, modifies and puts, and loses updates: `TenantsStayApart` is
  true of the SQL accessors only. The STS credentials of a tenant.
- *HTTP parsing, HTML, the OpenAPI text*, the console's pages, sessions, local readers and
  billing; the clone and the cache of `repo_snapshot`; Terraform and branding.

Hazards no property covers, and why, are in `PROJECT.json`: a late `_emit` over another
worker's document (`run_stage.py:299`), a reclaimed plan's placeholder id
(`worker.py:232`), DynamoDB's missing reclaim (`_dynamo.py:106`), the missing delivery cap
(`_memory.py:149`), the fan-out that stands on two scanners (`security/__init__.py:358`).
Each is behaviour the code has, so a property against it would be false.

## The plan

Done: the modules above, their runs, and a theorem for every invariant and action property
a passing run checks. Left:

1. `FleetProofs` over the disciplined SQL backend: `SqlQueue` as the table of `Worker`, so that
   the fleet's theorems hold of the durable queue by composition and not only side by side.
2. The DynamoDB accessors of tenancy, with the lost updates as a run of their own.
3. Larger instances of `pipeline`: two outside decisions, all gates.
