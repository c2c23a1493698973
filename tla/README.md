# Verification of servicecheck

servicecheck inspects the quality of debt-collection calls: it transcribes recordings, extracts events with a language
model, judges them by rules, and leaves to a human reviewer what it cannot decide. This directory holds TLA+ models of
the parts of it that keep state across failures, the TLC runs that check them on small instances, and TLAPS proofs of
theorems about them for every instance. Paths below are relative to the root of the repository's source.

## 1. Inventory

### The system

```
 POST /batches ──> PostgreSQL: batch_jobs, batch_items, outbox_events        (one transaction)
                        │ pending events
                   OutboxPublisher ──XADD──> Redis stream, consumer group    (no persistence)
                        │ mark published                │ XREADGROUP / XAUTOCLAIM
                        ▼                               ▼
                   outbox_events                   BatchWorker ── claim ─> batch_items
                                                        │ process_file
                              stage_executions <── TRANSCODE → ASR → EMOTION → QC ──> artifact files
                                                        │ analyze
   API  ── analyze ──────────────────────────> QualityAnalysisService ──> qc_runs, qc_reports, review_tasks
   review.html ── load / submit ──────────────> PostgresReviewStore  ──> review_tasks, review_revisions
```

| Component | Source | State it keeps | Operations | Hard behaviour | What makes it correct |
|---|---|---|---|---|---|
| Batch delivery | `qc/batch/outbox_publisher.py`, `worker.py`, `postgres_store.py` | item, batch and event rows; dead letters; stream, group, pending list | create, publish, mark, read, reclaim, claim, finalise, interrupt, acknowledge | crashes between two stores, duplicates, leases that expire under a living owner, concurrent aggregation, loss of Redis | no file forgotten; one final status, one dead letter, the right verdict; acknowledge after commit |
| Stage pipeline | `qc/batch/pipeline.py`, `checkpoints.py`, `retry_policy.py`, `qc/artifact_store.py` | `stage_executions`, artifact files | load, invalidate, begin, act, put, complete, fail | crash at any point, budgets, damaged files, changed versions | what is resumed fits together; nothing valid is repeated; attempts are bounded |
| Quality runs | `qc/service.py`, `qc/postgres_run_store.py` | `qc_runs`, `qc_reports`, trace, review task | create, append event, finish, fail incomplete, backfill | a starting process meets living runs; commits whose answer is lost | status, report and task agree; answers are true; runs end |
| Human review | `qc/review_store.py`, `review.html` | `review_tasks`, `review_revisions`; globals of each page | load, edit, submit | competing and repeated submissions, answers out of order | one decision, the draft its reviewer was told of, on the task displayed |
| Batch creation | `qc/batch/service.py`, `postgres_store.py` | `batch_creation_requests` | create, replay | one key twice at once, the queue at its limit, answers lost after the commit | a replay gets the batch of its key; capacity kept |
| Agent loop, gate, rules, direct analysis | `qc/agent_loop.py`, `quality_gate.py`, `rules.py`, `direct_analyzer.py` | in memory, one run | extract, audit, judge, plan, act, evaluate, gate | three budgets, replies of a model that may say anything, services that fail | bounded; nothing unsound completes, no breach that was found is dropped; every analysis answers |
| HTTP clients | `qc/llm_gateway.py`, `audit_client.py` | none (usage ledger) | call with one retry | which failure is retried | only exhausted retries are called retryable |
| Model subprocesses | `qc/batch/emotion_worker.py`, `asr_worker.py`, `real_audio_runner.py` | processes, pipes, queues of lines | start, infer, discard, swap, close | late answers, death, silence, noise, timeouts, a killed Worker | an answer is that of its request; one model in low memory; every call returns |
| Exports | `qc/batch/exporter.py` | `batch_exports`, file | begin, put, complete, fail | two exports to one artifact, a crash between two stores | DONE has the hash of the file |
| Knowledge | `qc/knowledge_build.py`, `knowledge_store.py` | local files, builds, current pointer | start: look, build, save, publish, load | first starts of several processes, a death in the middle | the pointer names what can be loaded |
| Command-line batches | `qc/batch/orchestrator.py`, `store.py`, `__main__.py` | file and stage rows, artifacts | ingest, run, resume | two commands on one batch, thread pool, kill | a final result stays; resume finishes every file |

Retrieval, offline evaluation, audio algorithms, the realtime demo, HTTP routing, migrations and observability keep no
state that an order of events could damage, or are computations; they are listed in `PROJECT.json` and not modelled.

How the components interact: delivery and pipeline share `batch_items` and the message; the pipeline calls the quality
service inside its QC stage; the service and the review page share `review_tasks`; every process that starts writes to
`qc_runs` through `build_service`. There are no callbacks between them: everything goes through PostgreSQL, Redis and
the artifact root, and this is why each model takes database transactions and Redis commands as its atomic steps.

`PROJECT.json` lists the hazards line by line, with the properties that cover each of them or the reason why none does.

## 2. Modules

| Module | What it is |
|---|---|
| `BatchDelivery` | publishers, Redis, workers and the rows of a batch |
| `BatchPromise` | the abstract promise of the batch interface, which `BatchDelivery` implements with one worker |
| `StagePipeline` | one file through its stages, with rows, artifacts and crashes |
| `QualityRuns` | the runs of the quality service, restarts, the backfill script |
| `ReviewTasks` | review pages, their requests, and the submission transaction |
| `BatchIntake` | requests that create batches at once: keys, locks, capacity |
| `Analysis` | one analysis: extraction, audit, judgement, agent loop, answer |
| `QualityGate` | the gate as a function of a report, and the reference definition of a sound one |
| `RetriedCalls` | the retry decisions of the two HTTP clients |
| `AudioModels` | the two resident model processes of a Worker and the threads that share them |
| `LocalBatch` | commands of the batch command line on one batch |
| `Exports` | export commands on one artifact |
| `Knowledge` | starts of processes that select, or build and publish, a knowledge version |
| `MCControlPlane` | `BatchIntake`, `Exports` and `Knowledge`, one of which each behaviour exercises |
| `MC…` | otherwise: the instances for TLC of the module of that name |
| `…_proofs` | the theorems about the module of that name; `ControlPlane_proofs`: about `BatchIntake`, `Exports`, `Knowledge` |

A definition called "faulty variant" in its comment is a plausible bug of the definition after it; no specification
uses it. For each checked property there is one which breaks that property in its run, so that the property is known to
depend on the code it is about.

### BatchDelivery

PostgreSQL: `item` (`batch_items.status`), `batch`, `outbox`, `tries`, `dead` (dead letters per item). Redis: `stream`
(entries in order of id; ids are timestamps, so a new stream never repeats them), `read` (what the group has delivered),
`pel` (pending list). Each publisher has the list it loaded and the event in hand; each worker a program counter, the
messages it received, the one it handles, the status it read and its open transaction.

`LoadEvents`, `Send`, `MarkPublished`, `MarkFailed` are `publish_once`; each call may also raise, before or after its
effect (`SendRaises`, `MarkPublishedRaises`). `Read` is `run_once`, `Reclaim` and `Take` and `Expire` are
`reclaim_once`, `Look`, `Claim`, `Recheck`, `Conclude`, `Commit`, `Interrupt`, `Ack` are `_handle_message`. The
finalisation is split at its commit, because it counts the statuses of the batch under READ COMMITTED: `Conclude` takes
the item's row lock and reads the others, `Commit` writes; a worker that needs the locked row waits (`Locked`).
`Conclude` chooses the result: the pipeline is `StagePipeline`'s business. A worker that loses its consumer group with
Redis dies and creates it again from `0-0`, so that nothing is skipped; the model lets the group reappear at once.

`lost` and `stolen` are history: which items lost a message with Redis, and whose claim expired under a living worker.

### StagePipeline

`rows` are the stage executions in the order of their ids, `file` the artifact at the fixed URI of each stage, `run` the
execution with the local variables of `process_file` and `execute_stage`. An artifact is abstracted to what it was made
from and which of a few outputs it is; that stands for its hash as well. `Enter` … `RecordFailure` follow
`execute_stage`: deadline, `FileCheckpointSession.load` (row, hash, read), recorded failure, invalidation, begin, action,
budgets, put, complete or fail. `Claim`, `Expire`, `Finalize` and `Interrupt` are the worker's steps of `BatchDelivery`,
seen from one item; `second_report` and `stages_resume` use the one Worker that `项目启动方式.md:316` deploys, so that an
execution ends before the next one starts. The clock passes the deadline at any step where the code reads it; an action
that takes longer than the stage budget sets `slow`.

### QualityRuns

`run`, `cause`, `report`, `tasks`, `loopUsed` are columns and tables; `pc`, `home`, `outcome`, `trace`, `answer` the call
of `analyze` that owns a run. `Start` is the start of any process: `build_service` calls `fail_incomplete_runs`.
`CreateRun`, `Analyse`, `AppendEvent`, `FinishRun`, `Answer` are the transactions of `_analyze`, each of which may raise,
before or after its commit where it commits. `BackfillRead` and `BackfillCommit` are the two halves of the transaction of
`scripts/backfill_review_tasks.py`. API processes analyse many requests at once, a Worker one.

### ReviewTasks

Database: `status`, `version`, `effective`, `revisions`. Page: the globals `current`, `submitKey`, the displayed task and
version, the draft, whether the button is enabled. Requests under way are elements of `loads` and `posts`; one that is
lost, or whose answer is lost, simply stays. `Click`, `Reload`, `Open`, `Edit`, `Submit`, `Success`, `Failure` are the
handlers of `review.html`; `ReadTask`, `Check`, `Decide` are the store: `submit` looks for the key without a lock
(`Check`), then takes the task's row and looks again (`Decide`).

### Analysis, QualityGate, RetriedCalls

`pc` is where `analyze` is: an HTTP call (`call`: which client, which attempt), the two audit resources (`snapshot`), the
judgement, or a step of the agent loop. `Extract`, `ReadResource` and `RetryAudit`, `Judge` are `DirectAnalyzer.analyze`;
`SkipLoop` and `EnterLoop` the test of `requires_loop`; `BeginIteration`, `Plan`, the five actions, `Evaluate` and
`BudgetEnds` are `BoundedAgentLoop.run`; `Conclude` and `Persist` the end of `QualityAnalysisService._analyze`. A reply of
the model or of a service is any of the configured kinds, with any content: any set of candidate events, any action, any
revision built from the candidates, any verdict. The gate (`Check` and what it is made of) is a function of the
report, as in the code; `Sound` is the reference it is checked against, written from what a report means and not from the
gate's tests. Rules, documents and what is said in each turn are constants; a score is the sum of the penalties. The rules
are those of `quality_rules.json` in kind: one that needs the audit, one in force and one expired.

Abstracted: the text of prompts and answers, the wording and the format of identifiers, the fact check of the business
system (`businessFact` is always NOT_CHECKED in the code), the evidence window and the context that a prompt carries (they
only decide what the model reads), and the reasons of an invalid output, all `LLM_INVALID_OUTPUT`. The clock is read only
where an iteration begins: there the time may be over.

### AudioModels

`procs` are the operating system's processes, with the pipes to them (`requests`) and the lines that the reader thread has
put into the client's queue (`lines`); `client` the process each `EmotionSubprocessClient` holds; `calls` what each thread
of the pool does. A call acquires the semaphore, in low-memory mode closes the other model (`Swap`), starts its process if
it is not alive, writes the request and reads lines until one is the answer, the pipe ends or the time is over; every
failure discards the process. Children load, answer, fail to load, die, fall silent, print noise, and end when their stdin
does; the Worker may be killed and start again, its children still there. With `gpu_workers` = 1, the default that is
deployed, the semaphore also serialises the two clients, which have no lock of their own; the model has a constant for it
and the run uses 1. The in-process models (`_ensure_*_model`) are used by tests only. That a discarded process is gone when the
next one starts is `wait` after `kill`; that an orphan of a killed Worker ends, by end of file or a broken pipe, is in the
children's actions and no property depends on when.

### LocalBatch

A command is `off`, has marked (`resume` only), is `on`, or has `raised`, with a job per file: queued, enter, begin, insert,
work, complete or fail, final. Nothing but the rows separates two commands: `resume` makes every RUNNING file INTERRUPTED,
those of a living command too, and `Pool` jobs of each command run at once. Two executions can read the same number of attempts
(`begin_stage` reads and writes without a lock that excludes the other's new row) and can complete or fail each other's stage
row. The conflict that `complete_stage` then meets is caught like any failure (`pipeline.py:215`), as one that is not
retryable, and `FailStage` is a step of its own: if the other command has begun the stage again in between, its RUNNING row
becomes FAILED for good and the file FAILED_FINAL; if the row is not RUNNING, the conflict leaves the handler
(`Raise`), the file stays RUNNING for the next `resume`, and the files that no thread of that command has taken yet are
cancelled (`Cancel`: the exception leaves `list(pool.map(...))`). At each entry of a stage the deadline may have passed,
which ends the file without a row. `begin_stage` of `store.py` updates the latest row where that of `postgres_store.py`,
which the command line opens, inserts one: the model's row is the latest, and the older rows that SQLite could update when
two first begins inserted two are not told apart. Attempts are counted up to `MaxAttempts`, the only number they are compared with.
`report.py:22` counts DEAD_LETTER, which this path never writes, and not FAILED_FINAL: files that failed are
missing from the printed report.

### BatchIntake, Exports, Knowledge

`BatchIntake`: a request looks up its key, discovers files (any number that `FileCounts` allows, as the directory may change), and
in its transaction takes the advisory lock of the key, looks again, takes that of the capacity, counts and inserts; the
locks end with the transaction. `BatchDelivery.CreateBatch` is this transaction as one action. Hash collisions of two lock
names only make one wait for the other: the key's lock is always taken before that of the capacity.

`Exports`: begin, the two reads, the atomic replacement, complete or fail, by several commands on one artifact. The
content is what the two reads saw, which are two transactions: the `summary` of a JSON export may be newer than its `files`.
An export that is killed leaves a row RUNNING, which the completion of another export may take for its own; until an export that begins
alone has ended, the hash then says nothing, and `ExportHonest` excepts that time (`torn`).

`Knowledge`: `build_service` of the API, the Worker and the command line. `publish` is split at its row locks and its
commit. Two publications may leave two builds PUBLISHED; the pointer decides. A process that published goes on to load the
pointer as it is then, and is not told when a later first start replaces it: two processes may serve two versions until
they are started again (`api_server.py:711` calls the pointer the "sole production selector"). `qc/knowledge.py`
builds its service without the database store: its `publish` and `rollback` move the file `current.json`, which the services never
read. `publish` of a version that is PUBLISHED already would leave it READY (`knowledge_store.py:40-41`: the object in memory still
says PUBLISHED, so that no second UPDATE is sent); no caller does that.

## 3. Runs

| Run | Instance | What it shows |
|---|---|---|
| `delivery_single` | 1 batch of 2 files, 1 publisher, 1 worker, 2 publication attempts, 1 publisher fault, 1 worker fault, 1 loss of Redis, fairness | types, `NoItemForgotten`, `VerdictComplete`, `AckOnlyFinished`; implements `BatchPromise`; every file finishes, the pending list empties |
| `delivery_two_workers` | the same with 2 workers, 1 publication attempt, 1 fault of each kind, no loss of Redis | two workers, expired leases: `OwnsWhatItRuns`, `DeadLetterExact`, `VerdictSound`, `FinalIsForever` |
| `outbox_exhausted` | 1 file, 2 failed publications | counterexample: the given-up event leaves its file PENDING |
| `stages_resume` | 2 outputs, 2 attempts, 1 crash or raised call, 1 damaged artifact, 1 new version | checkpoints fit, nothing valid repeated, budgets exact, the file ends |
| `second_report` | 1 attempt, 1 crash | counterexample: a second report of one file |
| `runs_lifecycle` | 2 new runs and an old one, API and Worker, 2 backfills, 1 crash, 1 fault | rows, tasks and answers agree; runs end |
| `runs_restart` | 2 runs, 2 processes | counterexample: a starting process fails a living run |
| `review_pages` | 2 tasks, 2 pages with 3+1 loads and 2+1 submissions | one decision, told truly, on the task displayed |
| `analysis` | 4 turns, 3 rules, 3 documents, at most 2 events, 3 iterations, 2 tool calls, every reply and failure | what completes is sound and complete; errors and budget are honest; every analysis answers |
| `audio_models` | 2 threads, 2 recordings, 1 permit, 4 process slots, 1 faulty child, 1 killed Worker | answers are of their request, one model in low memory, every call returns; no deadlock |
| `local_batch` | 2 files, 2 commands that overlap once, pool of 1, 2 attempts, 1 kill | final results stay; resume finishes every file |
| `control_plane` | `BatchIntake`: 2 clients, 3 requests, 1 key, 2 directories, limits 2 and 3; `Exports`: 2 commands, 2 items that finish, 1 kill; `Knowledge`: 3 processes, 3 versions, 2 deaths | replays, capacity, hashes of exports, the pointer |

What the three counterexamples say is in `PROJECT.json` under "findings", each with the sentence of the repository that
it contradicts.

**Bounds, and why they are enough.** Two files are the fewest of which one can finish while the other is being
finalised, which is what verdicts can get wrong. Two workers are the fewest that can own one item; a duplicate message
needs one publisher fault, a redelivery one worker fault, a redelivered duplicate one of each. Two publication attempts
tell the last one from the others, which `delivery_single` needs for the retry; with one, in `delivery_two_workers`, the
first failure exhausts the event. Two attempts of a stage are the fewest with a retry; two outputs are enough to tell
an artifact from the one that replaced it; one crash, one damage and one upgrade cover each combination of a resumed and
a repeated stage, and the second report needs a single crash. Two live runs and a dead process are what a restart needs;
two backfill executions race each other and the finish of a run. The page that makes three loads and two submissions can
receive both answers after it moved on; the other page is the competing reviewer. Bounds on faults count in the guards
of the fault actions only. The limit of the queue
is not reached in the instances of `BatchDelivery`; `BatchIntake` is about it. Two events in a call are the fewest of which one can be
dropped, three iterations and two tool calls the fewest at which either budget ends the loop first. Two threads contend for one
permit; four slots hold the two models of a Worker and those of its dead predecessor (`Start` waits for a free slot, which
these bounds always leave). Two commands with one overlap are
a `resume` during a `run`. Three requests are two that race and one that repeats; three versions let three first starts race. The proofs of section 5 have
none of these bounds, nor that limit.

**Symmetry** is used for files, workers and tasks, in runs that check safety properties and in which no definition
names one of them.

**Deadlock** is checked in `audio_models`. The other instances end when all their files, runs, requests and faults are used up.

## 4. Fairness

- `delivery_single`: publishers and workers loop for ever (`run_forever`) and are restarted (`项目启动方式.md:380-385`): weak
  fairness of a publisher's step and of a message's handler. `run_forever` alternates `reclaim_once` and `run_once`, so
  reading is strongly fair: each turn of the loop comes back to it, although between two turns it is not enabled. A
  pending entry keeps ageing past the idle time and XAUTOCLAIM starts from the oldest: strong fairness of its reclaim.
  Faults are bounded, as a worker that dies for ever finishes nothing.
- `stages_resume`: a stage action returns, raises or is timed out (`stage_timeout_seconds`, the time limits of the
  model subprocesses and HTTP clients), so an execution goes on (weak fairness of `Step`), and an unacknowledged message is
  reclaimed (weak fairness of `Expire`).
- `runs_lifecycle`: a call in progress goes on, and a process that died is started again. A run that a living process
  could not finish waits for the next start; `EveryRunEnds` excepts it.
- `analysis`: one thread that goes on (weak fairness of `Next`); every HTTP call has a time limit.
- `audio_models`: a thread goes on, since each of its waits has a time limit (weak fairness of `Step`), and a released
  permit wakes a waiter (strong fairness of `Acquire`). Nothing is assumed of the children.
- `local_batch`: the jobs of a living command go on, and an operator who sees unfinished files and no running command
  resumes the batch (`qc/batch/__main__.py:6`; `项目启动方式.md:376` keeps these commands for offline use only).
- `control_plane` checks no liveness.

## 5. Proofs

Every theorem is checked by TLAPS for all values of the constants, under the assumption named in the module
(`DeliveryAssumption`: finitely many items, each in a batch, no batch without items; `StageAssumption`, and
`NothingAssumption`: the value that stands for no artifact and no result is neither; `RunsAssumption`; `ReviewAssumption`; `AnalysisConstants` and `GateConstants`;
`IntakeAssumption`, `ExportsAssumption`, `KnowledgeAssumption`; `LocalAssumption`; `AudioAssumption`: finitely many threads).
Every safety property of the passing runs has its theorem. Those of `BatchDelivery`, `QualityRuns`, `ReviewTasks`,
`StagePipeline` and `AudioModels` rest on one inductive invariant `IInv` each; `Inductive` says that each step keeps it and `Strengthened` that each reachable state has it.

Two theorems of `BatchDelivery` assume `OneWorker` and those of `AudioModels` assume one permit. Both are what is
deployed (`项目启动方式.md:316`; `gpu_workers` defaults to 1, `qc/batch/models.py:92`), and both are needed: with two workers each of
two concurrent finalisations may miss the other and leave the batch row open (the control plane then recomputes the verdict
from the items), and with two permits one thread discards the process that another one waits for.

- **`BatchDelivery_proofs`**: `TypeCorrect`, `NothingForgotten`, `DeadLettersExact`, `VerdictsSound`, `FinalStays`,
  `AcksFinished`, `OwnersRunAlone`; with one worker `VerdictsComplete` and `DeliveryKeepsPromise`, the refinement of
  `BatchPromise`. `NoItemForgotten` alone is not inductive: an acknowledgement is harmless only since the worker has a
  finished item in hand (`FinishedBeforeAck`), marking an event only since its message is in the stream
  (`SentBeforeMarked`), and both only since rows, events and messages appear together (`CreatedTogether`). `VerdictSound`
  and `DeadLetterExact` need that an open finalisation keeps its row RUNNING, that no second one is open on it and that a
  verdict in an open transaction is about statuses that cannot change any more (`LockedRowIsStable`). `OwnsWhatItRuns`
  needs that the item which a worker executes, and that nobody took over, is RUNNING and in no other worker's hand
  (`OwnerIsAlone`). The proof first says in four lemmas (`ItemStep`, `BatchStep`, `RedisStep`, `WorkerMoves`) what any step
  does to each table, and then keeps each part of the invariant from these, not from the actions one by one. With one
  worker nothing changes between the count of an open finalisation and its commit, so that the verdict it is about to
  write is that of the items (`RollupIsCurrent`); that makes the verdicts complete. The refinement maps an item that is not final
  to OPEN and a final one to its status; a creation accepts its batch (`CreationAccepts`), a commit resolves its item
  (`FinalisationResolves`), and every other step is a stutter.
- **`StagePipeline_proofs`**: `TypeCorrect`, `ValidCheckpointsAgree`, `ResultsMatchRequests`, `FailuresHaveCause`,
  `AttemptsAreNeeded`. `CheckpointsAgree` speaks of artifacts that are there; what is inductive is that the DONE rows
  agree whether or not their artifacts are (`RowsAgree`), since an artifact may be lost and a row stays, and that an
  artifact at the fixed URI of a DONE row is that row's or lost (`FilesFollowRows`). `InStep` says what the execution knows at
  each point: the stages before it are DONE and the transcript in memory is the recorded one, an attempt has its RUNNING
  row and nothing downstream of it is DONE, a stage that is about to run is neither fresh nor spent. Lemmas about the
  latest row of a stage (`LastInAppend`, `LastInKept`) carry it over inserts and updates.
- **`QualityRuns_proofs`**: `ReportsFit`, `TasksExact`, `AnswersTrue`, `FinishedStays`. The strengthening is what a call
  knows at each point (`CallsInStep`) and that a backfill holds only runs that are PARTIAL for good (`ScansPartial`).
- **`ReviewTasks_proofs`**: `DecisionsExact`, `SuccessesTrue`, `RetriesSafe`, `PagesSafe`, `DecisionsFinal`. The
  strengthening: a form that can be submitted is the current task's, in the version of an undecided task
  (`FormsCurrent`), and the answers under way agree with the database (`AnswersTrue`).
- **`Analysis_proofs`**: `GatePassIsSound` (a report without issues is `Sound`, a fact about the two definitions alone),
  `CompletedSound`, `CompletedComplete`, `LoopBounded`, `RetriesExhausted`. The strengthenings say what the report is known to
  satisfy between two gates, which breaches are carried along, how the trace follows the iteration, and which errors may
  stand in the answer.
- **`AudioModels_proofs`**: `OwnAnswer` and `OneModel`. A late answer is never taken for another's because a process owes
  one answer at most, and none before it is loaded (`OneAnswerOwed`), because a call that waits for a process finds only its
  own recording there, and because a process that nobody waits for owes nothing and holds nothing but noise
  (`NothingLeftBehind`): every way out of a call that leaves an answer outstanding discards the process. One model in low-memory
  mode needs that every process with a pipe to the Worker is in the hand of a client, and no two hold one
  (`ProcessesHeld`), and that the other client is empty when a process is started (`OneHeldInLowMemory`). What a child does is
  summarised once (`ChildStep`, `Evolves`); then each step of a thread has its lemma.
- **`LocalBatch_proofs`**: `TypeCorrect` and `FinalResultsStay`: of all steps of all commands only the finalisation writes a
  result, and it writes only where the row is not final.
- **`ControlPlane_proofs`**: `ReplaysAnswered` and `QueueBounded` of `BatchIntake`, `ExportsHonest` of `Exports` and
  `SelectionAlwaysServes` of `Knowledge`, each with an inductive invariant of its own (`IntakeInv`, `CapacityReserved`,
  `ExportsInv`, `KnowledgeInv`). A replay is safe since the holder of a key's lock is alone and its key has no batch
  (`LockedKeyIsFree`), and what a request knew of its key stays true (`KnownIsCreated`). The queue is bounded since the holder
  of the capacity's lock is alone and what it will insert still fits. The count of the queue is a recursive sum over the
  batches, and the induction theorems of the library cannot be applied here; that the recursive function exists (`SumsDefined`),
  that the sum does not depend on the order (`SumWithout`) and what one changed batch does to it (`PendingMoves`) are
  proved from a least counterexample instead (`Smallest`, from the well-foundedness of the natural numbers).
  An export is honest since a RUNNING row always belongs to an export that still writes
  it, and the last of them to complete wrote the artifact that is there (`RowsFollow`). The pointer serves since two
  starts never build one version (`VersionsApart`) and a version is published after its files (`StartsInStep`).

Only model-checked: the liveness properties (`EveryFileFinishes`, `QueueDrains`, `EveryRunEnds`, `FileEnds`, `AnalysisEnds`,
`EveryCallReturns`, `ResumeFinishes`), which are out of the prover's reach, like everything that needs ENABLED.

## 6. Not modelled

What the properties do not say, though the models contain the steps:

- `NoItemForgotten` and `EveryFileFinishes` except items whose messages were lost with Redis, and `NoItemForgotten` is content with
  an event that is FAILED (`outbox_exhausted` shows what becomes of it). `VerdictComplete` holds with one worker only.
- `NoBlindSubmit` and `SuccessIsTrue` are about the task, the version and the draft of a submission, not about the task for which
  that draft was written: a reload that is answered after another task was opened keeps the draft of that one in the form.
- `ExportHonest` excepts exports that are killed: between `put` and `complete` the new artifact stands beside an older row.
- No property forbids that a command completes or fails the stage row that another one began.
- `QueueWithinLimit` is about batches that requests create; `ingest` of the command line adds items without that check.

What the models leave out:

- The content of calls, transcripts, reports and prompts; HTTP, logging, metrics; delays (an event whose retry delay
  runs is one that no publisher loads yet; a lease is idle for long enough at any moment).
- Two executions of one item that overlap inside `StagePipeline`. `delivery_two_workers` has them, without stages, and
  `LocalBatch` with a single stage. They need a second Worker, which the deployment does not have. With several stages, the time
  between a check and a begin could pair a new transcript with an older analysis.
- The stage that a dead letter names (`worker.py:105`), and the column `loop_used`, which differs from the answer's field.
- Power loss of the database and of the disk of the artifact root, other than a lost artifact.
- Retrieval (`qc/rag.py`, `pgvector_rag.py`): numerical ranking; what it returns is nondeterministic in `Analysis`. The usage
  ledger, the evaluation tools, the migration from SQLite, audio algorithms and the realtime demo: computations, or
  sequential tools that run alone.
- The type invariants of `QualityRuns`, `ReviewTasks`, `StagePipeline` and of the newer modules are stated in the modules; only
  that of `BatchDelivery` is part of a run.

## 7. Plan

1. That `BatchIntake` implements the `CreateBatch` of `BatchDelivery`, and that the outcomes of `Analysis` are those which
   `Analyse` of `QualityRuns` chooses from.
2. A variant of `StagePipeline` with two executions, small enough to be checked, and the dead letter's stage.
3. Lemmas under the liveness properties: measures that each step of a handler decreases, which need neither fairness nor
   ENABLED.
