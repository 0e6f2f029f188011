# TLA+ verification of the UnLostPaws vision worker

The vision worker is an asyncio daemon. It takes image jobs from a Redis
stream, downloads the images, moderates and embeds them with neural networks,
posts the result to the job's webhook, and retries or dead-letters what failed.
This directory holds TLA+ models of it, TLC configurations that check them on
small instances, and proofs for every instance. Paths are relative to the root
of the repository (`src/` here).

Contents: [inventory](#1-inventory-of-the-system) ·
[plan](#2-plan) · [modules](#3-the-modules) · [runs](#4-the-runs) ·
[fairness](#5-fairness) · [proofs](#6-proofs) · [findings](#7-findings) ·
[limits](#8-what-is-not-modelled) · [how to run](#9-how-to-run)

## 1. Inventory of the system

```
  web app --XADD--> [ job stream ] --XREADGROUP / XAUTOCLAIM--> worker
     ^                   ^   ^-- XADD (retry), XACK --------------|  |
     |                   |                                        |  v
     |              [ DLQ stream ] <------------ XADD ------------|  pipeline
     |                                                            |  (downloads,
     +------------ webhook: result or failure --------------------+   executor)
```

| Component | State | Operations | Correct when |
|---|---|---|---|
| Queue consumer, `app/queue/consumer.py` | where the coroutine is suspended, the message in hand, the claimed batch, the claim cursor, reconnect backoff | `ensure_consumer_group`, `reclaim_pending_messages`, `run_consumer` loop, `handle_job`, `requeue_job`, `send_to_dlq`, the two `xack`s | no job is acknowledged before its outcome is on record; nothing in hand leaves the pending list; one line of attempts per job; the attempt limit is exact; every job settles |
| Redis streams (external) | job stream, DLQ stream, consumer group, pending entries list and idle times | XGROUP CREATE, XADD, XREADGROUP, XACK, XAUTOCLAIM | taken from how the consumer calls it |
| Job schema, `app/schemas/job.py` | none | `parse_job` | rejects what the pipeline cannot use |
| Callback client, `app/callback/client.py` | none | `send_callback`, `send_failure_callback` | an answer other than 2xx, or none, raises |
| Image download, `app/pipeline/download.py` | HTTP client singleton, semaphore, per-URL attempt | `download_all`, `download_bytes`, `get_http_client`, `close_http_client` | at most N in flight; at most three GETs per URL; results in URL order; one bad image does not fail the rest |
| Orchestrator, `app/pipeline/orchestrator.py`, `stages/*.py` | per-stage results of one job; the thread pool all jobs share | `run_pipeline`, `resolve_stages`, `build_callback_payload` | matching starts after moderation; each result is merged into the image it belongs to, and comes from this call; a failing stage does not clog the pool |
| Worker lifecycle, `app/main.py` | `stop_event`, consumer and stop tasks, clients | `main`, `handle_exit_signal` | both clients closed on the way out; no job before the models are validated and Redis answers PING; a stop request ends the process in any phase |
| Health check, `app/healthcheck.py` | heartbeat file | `update_heartbeat` (consumer), `main` | healthy while the worker makes progress |
| Models, `app/models/registry.py`, `factory.py`, `onnx_*.py`, `torch_*.py` | lazy singletons, executor | `get_*`, `warmup`, `run_in_executor` | one instance each; loaded before the first job |
| Relevance and safety scoring, `app/models/relevance.py`, `safety_scoring.py`, `stages/match.py`, `stages/safety.py` | the prompt cursor | pure decisions | every logit counts for its own category; the label is within the margin of the best; an unsafe class is never hidden |
| Model artifacts, `app/models/artifacts.py`, `onnx_export.py` | files in the model cache, across restarts | download, export, reuse | a file that is reused is complete |
| Settings, `app/config/*.py`, `execution_providers.py` | frozen settings | env and profile resolution, `validate_runtime`, `recommend_config` | hardware that does not fit is found before models are fetched; what the doctor recommends is accepted; never a GPU request served silently by the CPU |
| Quality, fingerprint, schemas, telemetry, URL rewriting, `tools/` | none | arithmetic, formatting, command-line helpers | no control to check |

How they interact. One coroutine runs everything: the consumer awaits Redis,
the webhook, the downloads and the executor in turn, and other coroutines run
only inside `run_pipeline` (the gathers) and in `main` (the stop task). Several
worker processes may share the stream and the group; by default they also share
one consumer name. Across processes the only shared state is Redis.

What is hard, and where:

* **Crashes.** SIGTERM sets `stop_event`, and `main` cancels the consumer task
  at its current await (main.py:140): for the job in progress a graceful stop
  is a crash. Whatever Redis and the web app have seen by then is all there is.
* **Partial failure.** The XADD that saves a failed job and the XACK of its
  message are two commands, and the second is sent whether or not the first
  worked (consumer.py:317-325).
* **Lost answers.** A Redis command or a webhook call may have taken effect
  although it raised.
* **Several workers.** XAUTOCLAIM at one worker's startup takes messages from
  another that is merely slow, and a batch of ten ages in the hands of the
  worker that claimed it.
* **Abandoned threads.** `asyncio.gather` raises with the first stage that fails; the
  sibling's thread runs on into the next job, in a pool that job needs too.
* **A cache written in place.** Model files survive the process; a crash or a failed
  download leaves a state of the volume that every later start reuses.
* **Slots held through retries.** A download sleeps with its semaphore slot.
* **Liveness.** The pending list is examined at startup only, for messages idle
  five minutes, and several paths leave that loop early.

PROJECT.json lists each of these hazards at its line, with the properties that
cover it or the reason none does.

## 2. Plan

In the order of what the system most depends on; every part is written.

1. `RedisStream`, `StreamConsumer`, `JobQueue`: the reliable-processing core, which everything else only feeds.
2. `ImageDownload`, and `JobPipeline`, which composes it with the stages and the thread pool; `PipelineContract`, the
   abstract specification of both.
3. `RuntimeConfig` and `SafetyScoring`, pure decisions; `WorkerLifecycle`, which composes them
   with start, artifact cache and shutdown.
4. `ImageScoring`, the decision logic behind a result.
5. Proofs: every safety property of the consumer and its refinement; the slots, the phase order, the pool bound, the
   report and the contract of the pipeline; the safety properties of the lifecycle; the decisions of the scoring.

Not taken up: a timed model of the heartbeat, and the export of models to ONNX (section 8).

## 3. The modules

| Module | What it is |
|---|---|
| `RedisStream` | the effect of each Redis command on the streams and the group |
| `StreamConsumer` | the workers, the web app's two ends (enqueue, webhook), time, crashes and faults; all properties |
| `JobQueue` | what the queue promises the web app, with no stream, worker or retry in it |
| `MCStreamConsumer` | the instances TLC runs: sets of jobs of each payload kind, symmetry |
| `StreamConsumerProofs` | the type invariant, accountability and ownership, proved |
| `StreamConsumerRefinement` | no job vanishes, failures are on record, and the implementation of `JobQueue`, proved |
| `StreamConsumerAttempts` | the line of attempts, the finality of a success, the attempt limit, proved |
| `ImageDownload` | the fetches of one job over the semaphore |
| `JobPipeline` | `run_pipeline`, call after call, over the shared thread pool; EXTENDS `ImageDownload` |
| `PipelineContract` | what the consumer relies on when it awaits `run_pipeline` |
| `MCJobPipeline` | its instance |
| `JobPipelineProofs` | lemmas about the fetches; slots, outcomes, phase order and the bound on abandoned work, proved |
| `JobPipelineReport` | the report of a call and the implementation of `PipelineContract`, proved |
| `InductionLemmas` | induction over numbers and finite sets; what `Max`, `Min` and `SumFunctionOnSet` compute, proved |
| `RuntimeConfig` | settings, providers, validation and recommendation as functions of environment and hardware |
| `SafetyScoring` | the NSFW score from class probabilities and labels |
| `WorkerLifecycle` | a worker process from start to exit, with its model cache; EXTENDS both |
| `MCWorkerLifecycle` | nine kinds of machine, every DEVICE and provider setting |
| `WorkerLifecycleProofs` | the safety properties of the lifecycle, proved |
| `ImageScoring`, `MCImageScoring` | logits to likelihood and label, probabilities to score; a small ensemble |
| `ImageScoringProofs` | the decisions, for any ensemble, logits and labels, proved |

The consumer, the pipeline and the lifecycle are three views of the worker that meet at
narrow places. `StreamConsumer.Pipeline` succeeds or fails at any time; `PipelineContract` says what
that stands for and `JobPipeline` is checked to keep it. `WorkerLifecycle` has the consumer as
one phase; where it leaves that phase, `StreamConsumer` has `Crash`, and where it enters it, `Start`.

### RedisStream

Redis is not in the repository, so its operators follow from the arguments
consumer.py passes. An entry's id is its position in `stream`, which only
grows because no code trims it. `lastDelivered`, `pel` and `stale` are the group's
last-delivered id, its pending entries and those that have been pending for
`min_idle_time`; ages below and above five minutes are all the code tells apart.
`XAutoClaim` walks the pending entries from a start id, at most `ScanCount` of
them (Redis examines ten times COUNT), takes at most `ClaimCount` stale ones, makes
them young again and answers with a cursor. Two components are history: `claimed` (entries ever
handed out by XAUTOCLAIM) and the `src` field of an entry (the entry whose handling added
it). The code reads neither; properties do.

Pending entries have no owner in the model. Redis records one, but `>`,
XACK and XAUTOCLAIM as called here never depend on it.

### StreamConsumer

One action is the code from one await's answer to the next await. `pc[w]` names the await:

| `pc` | Await | Action | Code |
|---|---|---|---|
| `down` | none, the process is not running | `Start` | main.py up to `create_task` |
| `ensureGroup` | `xgroup_create` | `EnsureGroup` | consumer.py:39-55, 271 |
| `claim` | `xautoclaim` | `Claim` | consumer.py:220-235, 258-263 |
| `read` | `xreadgroup` | `Read` | consumer.py:282-302, 329-332 |
| `take` | between two messages of a reply | `TakeMessage` | consumer.py:240-242, 304-307, `parse_job` |
| `pipeline` | `run_pipeline` | `Pipeline` | consumer.py:135-144 |
| `callback` | `send_callback` | `SendCallback` | consumer.py:147 |
| `requeue` | backoff sleep, `xadd` | `Requeue` | consumer.py:190-195, 58-64 |
| `deadLetter` | `xadd` to the DLQ | `DeadLetter` | consumer.py:106, 199, 67-74 |
| `failureCallback` | `send_failure_callback` | `FailureCallback` | consumer.py:107-114, 200-205 |
| `ack` | `xack` after success | `Ack` | consumer.py:245, 312 |
| `ackFailed` | `xack` of the except branch | `AckFailed` | consumer.py:252, 321 |

`Enqueue` is the web app, `Age` the passing of five minutes over a pending entry,
`Crash` the death of the process or the cancellation on SIGTERM: no handler in
consumer.py catches `CancelledError` except to raise it again, so both leave the
same state behind. `take` is not an await; it is a state of its own so that
the loop over received messages is written once for both callers. Another worker
may move at that point in the model; in the code it may too, since it is another process.

`Kinds` are the payloads that take different paths: rejected by `parse_job` or
not, with or without a webhook, JSON or not. A payload of the kind
`nonObject` takes the path of `noWebhook` (`FirstStep`), so the runs
use only the latter.

A Redis command `Answers` or `Raises`; when it raises, its effect may have
happened all the same. A webhook call is accepted, accepted without the worker
seeing a 2xx answer (`unseenSuccess`), or not accepted. The pipeline succeeds or fails.
`unsaved` is history: entries whose saving XADD raised and had no effect.

The code has no other memory. In particular the reconnect backoff is a delay
only and is left out.

### JobQueue

A job is submitted, is open until settled (accepted by the web app or dead-lettered),
is closed only when settled, and may be reopened by a late retry. The refinement
mapping in `StreamConsumer` calls a job open while one of its entries is undelivered or
pending, and settled when one of its entries has an accepted success or a
DLQ entry.

### ImageDownload, JobPipeline, PipelineContract

A fetch is named by the position of its URL. `fetch[u]` is where its coroutine awaits:
`waiting` for the semaphore, `getting`, `sleeping` before the next GET, or it is over. `Receive` is the rest
of the loop body of `download_bytes` and `decode_image`: retry, error or image. `answers` is history and
counts the attempts. asyncio.Semaphore wakes its waiters in order, and `gather` creates them
in order, hence the guard of `Acquire`: that order is asyncio's, assumed here and claimed by no property.

`phase` is where `run_pipeline` awaits: `download_all`, the gather of the moderation tasks, or the gather of the matching tasks.
`queue` and `running` are the thread pool of registry.py, which outlives the call:

| Action | Code |
|---|---|
| `BeginCall`, `Download` | orchestrator.py:58-66, download.py |
| `DownloadDone`, `NothingDownloaded` | orchestrator.py:66-95 (the empty batch is not awaited), 83-84 with consumer.py:142-144 |
| `ModerationDone`, `MatchingDone` | orchestrator.py:95-103, 103-136 |
| `TakeWork`, `FinishWork`, `RaiseWork` | the executor; a stage returning or raising in its thread |
| `Stop`, `Exit` | cancellation at the current await (main.py:140); the interpreter joining the threads |

What a stage computes is abstracted to *which* images of *which* call it computed from (`Result`), which is what merging by index
can get wrong. An abandoned work item is one whose call or task no gather waits for any more (`~Awaited`). `Batches` has the
chunking of `match_batch` with its `max(1, batch_size)`.

`PipelineContract`: calls begin in order and one at a time, each ends once, and a result has an image and
accounts for every URL exactly once.

### RuntimeConfig, WorkerLifecycle

`RuntimeConfig` has no variables. An environment is the operator's four settings, "other" standing
for any value the code has no name for; hardware is what `detect_hardware` finds. Each check of
runtime_validation.py is the condition it passes on.

`pc` follows `main`: preflight, warmup, post-warmup, connect, consume, closing; inside warmup it follows `load()` and
`resolve_onnx_artifacts` file by file. `cache` is the volume: each file is absent, torn or whole, and a write passes through
torn because `write_bytes` creates the file before it fills it. It survives `Kill`, everything else does not (`Gone`). The
docker-compose restart policy is `Start`, guarded by `wanted`, which a stop request clears and an operator sets again (`Resume`).

`OpenSession` lets ONNX Runtime end up on the first provider asked for or on the CPU: that is
what the list of providers it is given asks of it. The torch backends read the hub's own cache, which
renames complete files into place. A fault is a kill, a failed download or write, or a Redis command that raises.

### SafetyScoring, ImageScoring

Labels are one of three kinds: known safe, with an unsafe keyword, or neither. Logits are whole numbers in units of ln 2
(times the temperature under the unified softmax), so that exp is a power of two and a likelihood an exact
fraction. `Average` is one turn of the loop that counts prompts off the logit vector; `PromptList` is the order
in which the backends laid them out, and `ScoringAssumption` says of it what relevance.py:15-64 makes true: the categories are
the keys of a dict, so they differ; every one has prompts; `PET_PROMPTS` is built category after category
(`PromptsInOrder`); there are distractors. That every level divides by the number of prompts is the scale of the logits, chosen so
that means are exact. The hint is one `parse_job` can produce, or a name outside the list, which
`compute_relevance_from_logits` can be called with by other callers.

## 4. The runs

The lifecycle runs check for deadlock: a worker can always be signalled or resumed. The others keep `CHECK_DEADLOCK FALSE`:
when every job has been handled and the bounds are used up an idle worker only blocks in XREADGROUP, which is a stuttering
step; the process of `pipeline_calls` exits; an image is scored once.

| Run | Instance | Properties |
|---|---|---|
| `consumer_one_worker` | 1 worker, 2 valid jobs enqueued fresh or with their attempts used up, 2 attempts, 1 crash, 1 Redis fault, claim batches of 2 | `TypeOK`, `LostOnlyKnownWays`, `AccountedBeforeAck`, `OneLineOfAttempts`, `SeenSuccessIsFinal`, `BuriedOnlyWhenExhausted`, `FailureIsOnRecord`, `JobNeverVanishes` |
| `consumer_two_workers` | 2 workers, 1 valid job, 2 attempts, 1 crash, claim batches of 2 | `InHandIsPending`, `ExclusiveUnlessClaimed`, `OneLineOfAttempts`, `SeenSuccessIsFinal`, `ImplementsJobQueue` |
| `consumer_implements_queue` | 1 worker; a valid, a rejected and an undecodable job; 1 crash; Redis takes every command | `NoJobLost`, `ImplementsJobQueue` |
| `consumer_recovers` | 1 worker; a valid, a rejected and a webhook-less job; 3 attempts; 1 crash followed by five minutes of downtime; fairness | `EveryJobSettles`, `PendingIsRecovered` |
| `pipeline_calls` | 5 calls, the first with 3 URLs, the others with 1 and a stage list of their own; 2 slots, 2 threads, batches of 2; fairness | `TypeOK`, `SlotsConserved`, `OutcomesAreEarned`, `MatchingAfterModeration`, `ReportListsTheUrls`, `AbandonedFitThePool`, `RowsBelongTogether`, `EveryCallEnds`, `KeepsTheContract` |
| `worker_lifecycle` | 9 machines, every setting, 2 faults; fairness | `LifecycleTypeOK`, `ConsumingMeansReady`, `MismatchFoundEarly`, `RecommendedIsAccepted`, `IncompleteOnlyByFault`, `ClosedUnlessRaised`, `ComesUpUnlessDamaged`, `DamageIsFinal`, `StopEndsTheWorker` |
| `image_scoring` | 3 categories, one of 2 prompts, 2 distractors, 3 logit levels; 4 classes | `ScoringTypeOK`, `PromptsStayWithTheirCategory`, `LabelIsDefensible`, `LikelihoodIsMonotone`, `UnsafeIsNeverHidden` |
| `lost_on_redis_fault` | 1 worker, 1 job, 1 Redis fault | violates `NoJobLost` |
| `quick_restart_strands` | 1 worker, 1 job, 1 crash, restart at any time; fairness | violates `PendingIsRecovered` |
| `poison_blocks_reclaim` | 1 worker, a valid and an undecodable job, 1 crash; fairness | violates `EveryJobSettles` |
| `silent_fallback` | ONNX on CUDA, GPU host, no fault | violates `NoSilentFallback` |
| `lost_labels` | ONNX on the CPU, 1 fault | violates `ScoreIsOfUnsafeContent` |

What the properties say, and what they show:

* `NoJobLost`, `LostOnlyKnownWays`: an acknowledged entry was answered: its
  result accepted, the job back in the stream, or in the DLQ. The first holds when Redis takes
  every XADD and no payload falls through `handle_job`'s error handling. The second lists
  the exceptions and holds always: a missing `webhookUrl` or a payload that is not an
  object, and an XADD that raised. It says that there are no others; it does not make these good.
* `AccountedBeforeAck` is the worker's half of it, `InHandIsPending` and `ExclusiveUnlessClaimed`
  Redis's: what a worker still means to handle is pending, and two workers hold
  it only if XAUTOCLAIM gave it out again.
* `OneLineOfAttempts` and `SeenSuccessIsFinal`: without a reclaim, no crash, fault, lost
  answer or second worker makes two retries of one attempt, and a success the
  worker saw is never followed by a retry, a dead letter or a failure report. With a reclaim both can
  happen; that is at-least-once delivery, and `Undisturbed` says where it starts.
* `BuriedOnlyWhenExhausted`: the dead letter comes after exactly the attempts
  from the enqueued one to `MaxAttempts - 1`, all delivered.
* `FailureIsOnRecord`, `JobNeverVanishes`: what was reported as failed is in the DLQ; a valid
  job is open in the stream, or settled, or the XADD that was to save one of its entries raised without effect. The third case is
  finding 1: the acknowledgement may then have closed the job for good.
* `ImplementsJobQueue`: the consumer implements `JobQueue`, also when two workers handle one entry, each acknowledging it: a late
  retry may reopen a settled job, and nothing closes an unsettled one.
* `EveryJobSettles`, `PendingIsRecovered`: liveness, see [fairness](#5-fairness).
* `SlotsConserved`, `OutcomesAreEarned`: no path through retries, sleeps and errors leaks a slot; a fetch reports what its GETs said.
* `ReportListsTheUrls`: rows and errors are in the order of the URLs and account for each URL exactly once, whatever order the
  downloads ended in and whatever later calls do.
* `MatchingAfterModeration`, `RowsBelongTogether`: with work of earlier calls still in the pool, the phases of a call keep
  their order, and every field of a row was computed in this call from this row's image.
* `AbandonedFitThePool`: failing calls one after another do not pile up work; never more of it is abandoned than there are threads.
* `KeepsTheContract`, `EveryCallEnds`: the pipeline implements `PipelineContract`, and every call ends.
* `ConsumingMeansReady`: jobs only meet fully loaded models. The lazy singletons of registry.py have no lock; this is why they need none.
* `MismatchFoundEarly`: what preflight accepts, no later hardware check rejects. It also says that
  the post-warmup provider check can never fire, which finding 4 is the other side of.
* `RecommendedIsAccepted`: the doctor and the validator agree on any hardware but one.
* `IncompleteOnlyByFault`, `ComesUpUnlessDamaged`, `DamageIsFinal`: an undisturbed start leaves the cache whole or empty, and a worker that is
  wanted comes up unless its settings are refused or a fault damaged the cache; then it never does again with ONNX. So `Damaged` is
  exactly what no restart mends.
* `ClosedUnlessRaised`, `StopEndsTheWorker`: shutdown. When the consumer task raised, main.py skips both closes; that way out is the
  exception in the property's name.
* `PromptsStayWithTheirCategory`, `LikelihoodIsMonotone`, `UnsafeIsNeverHidden`: the decisions against reference definitions.
* `LabelIsDefensible`: a label is within the margin of the best category and, unhinted, leads by it; a hint less than the margin
  behind is obeyed; no hint overrides a lead of more than the margin. A hint exactly the margin behind is left open, since
  code and docstring disagree there (section 7).

**Bounds.** `MaxCrashes`, `MaxRedisFaults` cap the environment; everything else
is finite because each job is enqueued once and has at most `MaxAttempts` attempts. One crash and one
fault reach every single failure at every step, with its effect applied or not, and every pair of a crash and a fault. They do not
reach what takes three of them, such as an XACK that raises in the middle of a claimed batch of two (two entries
must be stranded first); the proved properties cover that case, the others leave it open. Two attempts reach both sides of the
limit (retry, dead letter); the liveness run has the deployed value of three. `ClaimCount` and
`ScanCount` are 10 and 100 in the code; 1 or 2 and 2 make a full batch, a second page and a
scan limit reachable with two pending entries. Two workers are the smallest number that can share an
entry. `InitialAttempts` is `{0, 2}` in `consumer_one_worker`, what the web app sends and a value that uses the attempts up,
and `{0}` elsewhere; the proofs allow any integer.
The proofs below remove all of these bounds for the safety properties they cover.

In `pipeline_calls` three URLs over two slots make one fetch wait while others retry, and a batch of two leaves a
last chunk that is not full. The set of answers has a transient, a permanent, an undecodable and a good one; `network` takes the
path of `busy`. With two threads two failing calls fill the pool with abandoned work, a third waits behind it, and two
more are there to overflow it if they could. The limit is positive: with `MAX_CONCURRENT_DOWNLOADS=0` every call waits forever, and
`EveryCallEnds` does not claim otherwise.

`worker_lifecycle` has nine machines, each a way to fall into a different branch of `recommend_config` or of a check; Windows on
Qualcomm appears with an x64 Python, since a native one reports `arm64` and takes the ARM branch. Two faults reach a failed
download followed by a kill during the repair. `image_scoring` has a category of two prompts
before one of one, so that a cursor off by one shows; three levels and a margin of one reach ties,
a lead above, below and at the margin.

## 5. Fairness

`FairSpec` assumes weak fairness of each worker's `Step` and of `Age`.

* `Step(w)`: a coroutine that can go on does. Webhook calls and downloads have httpx timeouts and
  Redis commands answer or raise. A dead worker is restarted by
  `restart: unless-stopped` (docker-compose.yml). The Redis client has no socket timeout, so a
  connection that goes silent without an error is outside this assumption (a listed hazard).
* `Age`: time passes.

Nothing is assumed of the web app, of crashes or of faults. No strong fairness is used.

`JobPipeline` assumes weak fairness of the event loop (`LoopStep`: GETs are answered or time out, sleeps end), of the pool taking work, of each
thread's stage returning or raising, and of the exit of a stopped process. Nothing makes a stop request come.

`WorkerLifecycle` assumes weak fairness of `Proceed`, the process going on and being restarted while it is wanted
(docker-compose.yml:36). Nothing is assumed of faults, signals and operators.

`SlowRestarts` restricts *when* a worker starts: only once every pending entry is five minutes old. It is TRUE
in `consumer_recovers`, where it is the condition under which the code keeps
its promise, and FALSE in `quick_restart_strands`, which shows that the condition is needed.
`EveryJobSettles` is claimed only for kinds `handle_job` saves when it gives up. In
`poison_blocks_reclaim` the same property fails even with slow restarts.

## 6. Proofs

The theorems about the consumer hold for every set of jobs and workers, every assignment of kinds, any
attempt limit (also zero or negative), any batch and scan size, and any number of crashes and
faults. They rest on `ClaimAssumption` (a batch has at least one entry and no more than the
scan limit) and `ConsumerAssumption` (the types of the constants). Where `ReliableRedis` is
assumed, no Redis command raises and no payload is of a kind `handle_job` drops.

Those about the pipeline hold for any number of URLs, calls and threads, any download limit (zero too),
any stage lists and batch size (`DownloadAssumption`, `PipelineAssumption`); those about the lifecycle for any set of environments
and machines, any labels and any number of faults (`LifecycleAssumption`); those about the scoring for any number of categories,
prompts and classes, any margin and any logits (`ScoringAssumption`).

| Module | Theorem | Statement |
|---|---|---|
| `StreamConsumerProofs` | `TypeCorrect` | `Spec => []TypeOK` |
| | `LossIsAccountedFor` | `Spec => [](LostOnlyKnownWays /\ AccountedBeforeAck)` |
| | `NothingLostOnReliableRedis` | `ReliableRedis => (Spec => []NoJobLost)` |
| | `OwnershipHolds` | `Spec => [](InHandIsPending /\ ExclusiveUnlessClaimed)` |
| | `RecordedBeforeAck`, `CrashKeepsTheJob` | `Spec => []AccountedBeforeAck`, `Spec => []InHandIsPending` |
| `StreamConsumerRefinement` | `JobsNeverVanish` | `Spec => []JobNeverVanishes` |
| | `FailuresAreOnRecord` | `Spec => []FailureIsOnRecord` |
| | `ImplementsTheQueue` | `ReliableRedis => (Spec => ImplementsJobQueue)` |
| `StreamConsumerAttempts` | `AttemptsStayInLine` | `Spec => []OneLineOfAttempts` |
| | `SuccessEndsTheJob` | `Spec => []SeenSuccessIsFinal` |
| | `BurialsAreExhausted` | `Spec => []BuriedOnlyWhenExhausted` |
| `JobPipelineProofs` | `SlotsAreConserved` | `Spec => []SlotsConserved` |
| | `FetchesReportTruly` | `Spec => []OutcomesAreEarned` |
| | `ModerationComesFirst` | `Spec => []MatchingAfterModeration` |
| | `AbandonedWorkIsBounded` | `Spec => []AbandonedFitThePool` |
| `JobPipelineReport` | `PipelineTypes` | `Spec => []TypeOK` |
| | `ReportsListTheUrls` | `Spec => []ReportListsTheUrls` |
| | `RowsAreTheirImages` | `Spec => RowsBelongTogether` |
| | `PipelineKeepsTheContract` | `Spec => KeepsTheContract` |
| `WorkerLifecycleProofs` | `LifecycleTypeCorrect` | `Spec => []LifecycleTypeOK` |
| | `NoJobBeforeReady` | `Spec => []ConsumingMeansReady` |
| | `HardwareIsCheckedOnce` | `Spec => []MismatchFoundEarly` |
| | `RecommendationAccepted` | `Spec => []RecommendedIsAccepted` |
| | `CacheIsWholeWithoutFaults` | `Spec => []IncompleteOnlyByFault` |
| | `ClientsAreClosed` | `Spec => []ClosedUnlessRaised` |
| | `NoRestartMends` | `Spec => DamageIsFinal` |
| | `LabelsAreLostByFaultOnly` | `Spec => [](faults = 0 => ScoreIsOfUnsafeContent)` |
| | `TorchNeverFallsBack` | `Spec => [](Runtime(env) = "torch" => NoSilentFallback)` |
| `ImageScoringProofs` | `ScoringTypes` | `Spec => []ScoringTypeOK` |
| | `PromptsStay` | `Spec => []PromptsStayWithTheirCategory` |
| | `LabelsAreDefensible` | `Spec => []LabelIsDefensible` |
| | `LikelihoodsAreMonotone` | `Spec => []LikelihoodIsMonotone` |
| | `UnsafeIsSeen` | `Spec => []UnsafeIsNeverHidden` |

The argument:

* `TypeOK` is inductive as it stands; its bounds on `msg`, `batch` and `lastDelivered` carry the rest.
* *Accountability.* `LostOnlyKnownWays` alone is not inductive: acknowledging an entry is only
  right because the worker has recorded the outcome before. Its conjunction with
  `AccountedBeforeAck` is. What it needs besides is that a record is stable (`StepGrows`, `RecordsStay`: streams,
  inbox and `unsaved` only grow) and that entries leave the pending list by
  XACK alone (`PendingLeavesByAck`).
* *Ownership.* The two ownership properties, and that a worker does not have the
  entry in hand in its batch as well. XREADGROUP hands out an id above every id in anybody's
  hands, so after that the only way to share an entry is XAUTOCLAIM (`HandsFill`).
* *Provenance.* A retry stands behind the entry it retries and is of the same job; only delivered entries are
  dead-lettered or reported. So the *last* entry of a job decides (`LastEntryDecides`): if it is
  acknowledged it must be accounted for, and not by a retry, which would stand behind it. That gives
  `JobsNeverVanish` and, on a reliable Redis, that every job with entries is open or settled (`Covered`).
* *Refinement.* `QueueStep` has one step per action. With `Covered` before and after, a step that
  changes `OpenJobs` or `SettledJobs` for one job is a `Submit`, `Settle`, `Close` or
  `Reopen` (`OneJobMoves`); everything else stutters.

* *Attempts.* Of a job XAUTOCLAIM never touched only the last entry is in play: undelivered, in a batch, or with a worker
  that has not yet recorded an outcome; and none is once the job has a dead letter or a success the worker saw (`PlayInv`).
  A requeue moves the play to a new entry, which is why there is one line of attempts; everything
  else narrows or ends it (`PlayNarrows`, `PlayEnds`), by the ownership invariant. The attempt limit needs another chain, which
  holds for reclaimed jobs too: every attempt before that of an entry was delivered.
* *Downloads.* `DownloadInv` counts the fetches in a slot against the permits and relates each fetch's place to what its GETs
  answered (`AnswersSoFar`).
* *The pool.* `PoolInv` says that work of the current call in the pool is of a pending task (`OwnInv`), that the phase fits the
  tasks' states (`StageInv`), that no item is there twice (`UniqueInv`), that what is abandoned stands in front of what is not
  (`QueueInv`), and the bound. The bound is inductive only because a call fails in a stage at the moment its thread
  raises: then that thread is free, and whatever was queued before that stage has been started.
* *Lifecycle.* `LifecycleInv` ties the phase to the memory and the cache: what is ready is loaded and its embedder's processor file
  whole (`ReadyInv`), which clients are open in which phase (`ClientsInv`), and, without a fault, which files of the model being loaded may be
  incomplete (`CacheInv`). The two decision-table theorems are case analyses over `RuntimeConfig`.
* *Two findings, bounded.* `MemoryInv` adds what a process has in memory. The safety model is ready without its labels only after a
  fault, because without one a whole graph comes with a whole `config.json` (`CacheInv`); and with torch a model runs on the device of the settings,
  so finding 4 is about ONNX Runtime alone.
* *Damage.* `DamageIsFinal` is a property of two moments. `Stuck`, a problem in the files of a model that nobody is writing, cannot be left
  (`StuckStays`): writing starts only where there is no graph, and `VolumeInv` says that no other file comes before the graph.
* *The report.* `ReportInv` follows the images of a call: `decoded` and `errors` divide the call's URLs between them, each in order
  (`ImagesInv`); work of the call in the pool carries those images (`WorkInv`); a finished task has left the results of exactly those, an
  unfinished one nothing (`OutputInv`); calls end one after another (`OutcomeInv`), so that only the step that makes a report changes which call was the
  last to get one, and every other step keeps `RowsInv` (`ReportedStay`, `RowsStay`, `RowsSurvive`). `RowsBelongTogether` and `ReportListsTheUrls` (`ReportAccounts`) follow
  for the step that makes the report. They need what two
  loops compute, for any batch size: that `InOrder` lists a set of URLs in increasing order (`InOrderLists`), and that the chunks of
  `Batches` joined are the list they were cut from (`FlattenJoins`, `BatchesAreTheImages`). `PipelineContract` follows step by step: only the
  steps that begin or end a call are not stutters.
* *Scoring.* `ScoringInv` says that the cursor has passed exactly the prompts of the categories averaged so far, each average being the mean of its
  own. The step is `NextPrompts`: the next category's prompts are an interval that starts at the cursor, since the list is in
  category order. The other theorems are about operators: a best category exists and is the first of the best (`BestPetIsBest`), the label's cases (`LabelIs`), which
  need that the lead is the least gap of any other category (`LeadIsLeast`), a
  class is best (`BestClassIsBest`), `exp` doubles (`WeightFacts`), a sum grows with its terms (`SumMonotone`), and then an inequality between products
  (`ShareGrows`, `ShareShrinks`, `HalfAndHalf`).

*Induction over data.* The induction theorems of the library take an operator as a parameter, which no installed prover instantiates. `InductionLemmas`
derives what is needed from the least element of a set of numbers (`NatLessThanWellFounded`): the property to prove is a *set*, the body of a loop a
*function*, and a recursive function is shown to exist (`LoopRuns`, `SumExists`) before its `CHOOSE` is used. For this, loops in the modules proved about are recursive
functions (`InOrder`, `InReverse`, `Weight`), not RECURSIVE operators.

`ReportInv`, `ScoringInv`, `MemoryInv` and `VolumeInv` were checked with TLC on the instances of `pipeline_calls`, `image_scoring` and `worker_lifecycle` before they were proved.

Model-checked only: liveness, which needs fairness and ENABLED (`EveryJobSettles`, `PendingIsRecovered`, `EveryCallEnds`,
`ComesUpUnlessDamaged`, `StopEndsTheWorker`), and the five violations.

## 7. Findings

1. *A job is lost when its requeue or dead letter fails* (`lost_on_redis_fault`). If `requeue_job` or `send_to_dlq`
   raises, the except branch acknowledges the message anyway, against the comment above it, which relies on
   those calls having kept the job (consumer.py:318-320).
2. *A quick restart strands the message of its own crash* (`quick_restart_strands`). It is too young to claim at startup and
   the list is not examined again, against "guarantee no lost jobs" (consumer.py:213). The
   next restart that comes five minutes later picks it up.
3. *One undecodable payload ends every reclaim* (`poison_blocks_reclaim`). `json.loads` is outside
   the inner try; the message is never acknowledged and stands in front of later ones.

4. *A GPU request can be served by the CPU* (`silent_fallback`). The worker never asks the session which provider it runs on
   (onnx_session.py:45), so the post-warmup check compares the request with itself, against
   "no silent GPU→CPU fallback" (GUIDE.md:18).
5. *The safety model can run without its labels* (`lost_labels`). A failed copy of the configuration files is only logged (artifacts.py:126); classes are then
   named by number and the most likely one counts as unsafe, against result.py:17. Later starts reuse the graph and never fetch
   the files again.

Divergences met without a run of their own, since they need no steps to show: a hint overrides a best category that leads by exactly
the margin, although such a lead is enough for the label without a hint (relevance.py:180 tests `>=`, 173 tests `<`; the docstring,
relevance.py:106-107, and README.md:182, whose 0.75 is the baseline's margin, say that the hint decides when the margin is *less* than
the threshold, GUIDE.md:123 says "within margin"), and `LabelsAreDefensible` confines the disagreement to that lead; the hint does not boost the likelihood
(relevance.py:158-161 takes the maximum with a value that never exceeds it; relevance.py:105 and GUIDE.md:123 say it does); GUIDE.md:119 calls a
probability difference what is a difference of logits; `modelPrecision` reports int8 for torch on the CPU; the export on a missing artifact (artifacts.py:5-6)
is not reached when the hub download raises; on native Windows ARM64 the doctor takes the ARM branch before it looks
for QNN (runtime_validation.py:131, 151).

Not counted as findings, because the code's tests state the behaviour: a job
without `webhookUrl` is acknowledged without a trace (test_consumer.py:147-155). It is
an exception in `LostOnlyKnownWays` and a listed hazard.

## 8. What is not modelled

* The health check. It compares the age of a file with 60 s; the interesting question, whether the consumer's awaits can
  take longer than that, is about durations (and the answer is yes: three GETs of 30 s are enough). The heartbeat write has no other effect.
* The export of models to ONNX, for a model without an ONNX repository in manifest.json. No profile selects one.
* Tensor code and image arithmetic (quality, hashes): numeric, no control.
* The label reported with the NSFW score, rounding, precision and batch-size defaults, `build_callback_payload`, which copies.
* Log text, metrics, TLS options, the localhost rewrite: no property is about them.
* `tools/` but for the doctor's recommendation: run by hand, read-only with respect to the queue.
* Loss of Redis data, trimming by an operator, and a Redis that never answers.
* The job's fields other than kind and attempt. `requeue_job` writes back the parsed job, so
  a requeued job has the normalised `petType` and all defaults; no step of the queue depends on it.

## 9. How to run

In this directory, with TLC, the community modules and TLAPS 1.4.5:

```
tlc -workers 2 -config consumer_one_worker.cfg MCStreamConsumer
tlc -workers 2 -config pipeline_calls.cfg MCJobPipeline
tlc -workers 2 -config worker_lifecycle.cfg MCWorkerLifecycle
tlc -workers 2 -config image_scoring.cfg MCImageScoring
tlapm StreamConsumerProofs.tla
```

and `tlapm` in the same way for `StreamConsumerRefinement`, `StreamConsumerAttempts`, `JobPipelineProofs`, `JobPipelineReport`,
`WorkerLifecycleProofs`, `InductionLemmas` and `ImageScoringProofs`.

The passing runs have between 4*10^4 and 3*10^6 distinct states and take about a minute each at most; each
proof module a few minutes at most. PROJECT.json names, for every property of a passing run, a mutation
of a definition (`Mutant:` operators in the modules) under which TLC finds it violated.
