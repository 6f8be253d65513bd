# A TLA+ verification of AI-tower

AI-tower is a control plane for the use of AI in an organization. It lets people send
prompts to AI providers under policies and approvals, trains and deploys small models,
keeps a register of AI agents, of what they delegate to each other and of what they do,
answers questions from document collections, and watches for uses of AI that nobody
registered. This directory models the parts of it whose correctness depends on the order in
which concurrent calls, workers, messages and files take their steps.

    tlc -workers 2 -config RequestPipeline.cfg MCRequestPipeline    # one model-checking run
    tlapm RequestPipelineProofs.tla                                 # the proofs of one module

`PROJECT.json` holds the same information in a form a program can read: the runs, for every
property the change to the model that breaks it, the source lines every definition
translates, the findings, the hazards and the theorems. Paths below are relative to
`src/backend/app` unless they begin with `src/`.

Contents: 1 the system and its parts; 2 how a call, a worker and a commit are modelled;
3 the modules; 4 the runs; 5 findings; 6 the proofs; 7 not modelled; 8 the plan.

## 1. The system and its parts

A FastAPI backend (`src/backend/app`) runs as several processes over one PostgreSQL
database. Long work goes through Redis to Celery workers (`workers/`, `core/celery_app.py`).
A Go agent (`src/agent`) and a browser extension (`src/extension`) post telemetry and
discovered services to the API, and a Next.js frontend (`src/frontend`) shows all of it.
Components share no memory except what is in the database, on the broker, in Redis pub/sub
and on the disk with models, documents and vectorizers. The hard behaviours come from six
facts:

* a handler reads rows, decides, and commits; other handlers commit in between, and none
  of these asks for a lock or checks a version (isolation is READ COMMITTED);
* a handler commits a row, sends the Celery task and sometimes commits again, and may die
  in between;
* some handlers commit in the middle of their work, or write a file before they commit;
* tasks are acknowledged late, so a task whose worker is lost runs again;
* a training container outlives the worker that waits for it;
* every API process has caches of its own.

| Component | State | Operations | What makes it correct | Module |
|---|---|---|---|---|
| Request pipeline: `services/request_service.py`, `approval_service.py`, `override_service.py`, `workers/request_tasks.py` | requests (status, masked text, firewall flags), approvals, responses | create, submit, decide, override; the task that calls the provider | only released requests reach the provider; refused text never does; a decided status has a decision; a completed request has a response; queued tasks are handled | `RequestPipeline`, `GovernedRelease` |
| Agent delegation: `services/delegation_service.py`, `capability_validator.py`, `agent_registry.py` | agents (capabilities, depth limit, status), chains (status, counters), hops, incidents | delegate, update agent, kill agent | nothing is granted that was not held; depth within the limit; refusals on record; stopped chains stay stopped | `Delegation` |
| Agent actions: `services/agent_audit.py`, `agent_policy_engine.py`, `api/agents.py` | actions with their verdict, policies, incidents | check, record, approve, deny, create policy | what a policy denies is denied; denials leave an incident; verdicts stand | `AgentActions` |
| Training jobs: `services/training_service.py`, `workers/training_tasks.py`, `services/docker_runner.py` | jobs (status, model path, task id), containers | create, cancel, retry; the training task | no job is forgotten; completed jobs have a model; a job lives as its row promises; jobs settle | `TrainingJob`, `JobLife` |
| Training bodies and progress stream: `workers/training_tasks.py`, `core/events.py`, `api/training_jobs.py` | progress columns, artifact, hyperparameters; Redis channel; one generator per viewer | report, tune, save, settle; snapshot, subscribe, publish | a completed row describes its artifact; a viewer is told the truth and is not left hanging | `TrainingRun` |
| Deployments and predictions: `services/deployment_service.py`, `training_service.py` | deployments, caches of loaded models, prediction logs | create, update, predict, route, chat; retry's clearing of caches | versions are unique; what is served is what the row describes | `Serving` |
| Document collections: `services/rag_service.py` | collection, documents, chunks, a vectorizer file | create, upload, delete, drop, query | chunks and vectorizer live in one space; ready documents have chunks; counts are true | `Collections` |
| Telemetry and shadow AI: `services/telemetry_service.py`, `shadow_ai_service.py`, `incident_service.py`, `domain_catalog_service.py`, `workers/telemetry_tasks.py` | raw events, sightings, incidents, domain policies | ingest a batch; resolve, register, report | one open sighting per key; every event counted; blocked domains escalated | `Telemetry` |
| Monitoring agent, browser extension: `src/agent`, `src/extension` | memory of what was seen, bounded channel, buffer | scan, batch, post, drop, restart; sweep the network | what is there is reported unless something was lost | `Telemetry`, `Discovery` |
| Discovery and connections: `services/discovery_service.py`, `discovery_connect_handlers.py`, `workers/discovery_tasks.py` | services, connections with credentials | report, ignore, connect, verify | connected services were bound; administrators' decisions stand; services get listed | `Discovery` |
| Policies and use cases: `services/policy_service.py`, `use_case_service.py`, `api/policies.py` | policies (status), numbered versions with rules, the version a use case names | create, add version, approve, archive, activate; update use case | a rule in force applies; versions are told apart | `Screening` |
| Prompt firewall: `services/prompt_firewall.py` | the matches, the text being masked | scan | every match is masked and nothing else is touched | `Screening` |
| Providers and governed chat: `services/provider_service.py`, `api/providers.py` | connections (status, vendor, key); a chat's rules | create, update; chat | a key stays with its vendor; a chat obeys every active policy | `Screening` |
| Users, authentication, rate limits, audit log, datasets, dashboards, numeric code, frontend | rows | single-row reads and writes; stateless computation | | section 7 |

How they interact: the pipeline, training, telemetry and discovery through Celery messages;
agent actions read the rows delegation writes (`AgentActions` extends `Delegation`);
`create_request` and the chat read the rows administrators write (`Screening` extends
`RequestPipeline`); serving reads what training writes (`Serving` has the runs of a job in brief, `TrainingRun`
in detail, `TrainingJob` their tasks); a stream reads what a run publishes (`TrainingRun`
has both); sightings become incidents and providers (`Telemetry`).

The behaviours worth checking are the hazards of `PROJECT.json`, each at the line where it
bites. Those no property covers carry a note that says why.

## 2. How the code is modelled

**A call is an actor.** An API call runs in one SQLAlchemy session, hence one transaction
(`core/database.py`, `get_db`). Its reads up to the write that commits are the `Open...` and
`Load...` actions, its commit is a `Commit...` action, and what happens after the commit
(`send_task`) is one more. `api[s]` or `call[u]` is the call of a session: a program counter
and the values it loaded. Between its steps every other call and worker may take theirs.
Reads that another actor cannot tell apart are one step.

**The ORM writes what changed.** At a flush SQLAlchemy compares a column with the value it
loaded and leaves it out of the UPDATE when they are equal. The operators `Written`,
`Flushed` and `Assign` say that. It matters: a call that sets `"cancelled"` on a row it loaded
as `"cancelled"` does not undo a `"running"` committed in between.

**Flushed rows are locked.** An `autoflush` query sends pending UPDATEs and INSERTs, and the
rows stay locked until the commit: `Locked` in RequestPipeline, `held` in Telemetry and
Discovery, `Deadlocked` where two transactions wait for each other and the database ends one.

**Calls die.** `AbandonCall`, `DropCall`, `Die`, `Lose` end a call at any step without its commit: an
exception, a client that leaves, a process that dies. What had been committed, and every file
that had been written, stays.

**Celery.** `task_acks_late`, `task_reject_on_worker_lost` and a prefetch of one
(`core/celery_app.py:20-36`): a message is `queued`, `taken` by a worker, and acknowledged after
the task has returned or raised; a worker that is lost puts it back. The tasks of this code do
not retry themselves. Redis's visibility timeout (one hour by default, below the hard time
limit of a training) is not modelled.

**Abstraction.** Texts are `masked`, `edited` or the placeholder the code sends for a missing
one; what a pattern finds in a prompt, a provider's answer, a training result, an extracted
text are nondeterministic choices, and in `RequestPipeline` so are the verdicts of firewall and
policy, which `Screening` computes; a trained model is the run that wrote it; a
vector space is the set of documents its vocabulary was fitted on; a service's password is a
number that changes; time is a small number. Scores, reasons, audit entries and formatting are
left out.

**History variables** (`released`, `registered`, `highest`, `overlapped`, `contested`, `lost`, `doubled`,
`cut`, `raced`, `torn`, `exposed`, `stood`, `since`, ...) record what happened for the properties. No
guard reads them.

**Mutants.** Some definitions have a neighbour that no action uses, such as `NeverLocked`
beside `Locked`. The neighbour is a plausible mistake in that place. It is there to show, by
replacing the one by the other, that a property can be broken.

## 3. The modules

| Module | What it is |
|---|---|
| `GovernedRelease` | abstract specification of the pipeline's promise |
| `JobLife` | abstract specification of what the row of a training job goes through |
| `RequestPipeline`, `MCRequestPipeline` | requests, approvals, overrides, the provider task; refines `GovernedRelease` |
| `Screening`, `MCScreening` | policies, use cases, connections, the prompt firewall and the governed chat, around `RequestPipeline` |
| `RequestPipelineProofs` | theorems of `RequestPipeline` and `Screening` |
| `Delegation`, `MCDelegation` | chains, hops, kills |
| `AgentActions`, `MCAgentActions`, `AgentActionsProofs` | actions, the policy engine and reviews, composed with `Delegation`; theorems of both |
| `TrainingJob`, `MCTrainingJob`, `TrainingJobProofs` | jobs, tasks, containers; refines `JobLife`; theorems |
| `TrainingRun`, `MCTrainingRun`, `TrainingRunProofs` | training bodies, progress, event streams; theorems |
| `Serving`, `MCServing`, `ServingProofs` | deployments, predictions, caches; theorems |
| `Collections`, `MCCollections`, `CollectionsProofs` | RAG collections; theorems |
| `Telemetry`, `MCTelemetry`, `TelemetryProofs` | collectors, batches, sightings, incidents; theorems |
| `Discovery`, `MCDiscovery`, `DiscoveryProofs` | sweeps, reports, connections; theorems |

Every `MC` module gives TLC its initial states, its symmetry and its bounds; the modules
themselves have none but the constants.

### RequestPipeline

`status`, `prompt` and `flags` are the columns of a request, `approval` the approvals,
`message` the `request.process` tasks, `rows[m]` the number of responses inserted for message
`m`, `calls` what the provider received.

* `CreateRequest` is `create_request` up to its commit. It chooses the verdicts of the firewall
  and the policy. A blocked prompt is stored without its masked text. If no approval is asked
  for, `SendTask` sends the task.
* `OpenSubmission` / `CommitSubmission` are `create_approval`: the duplicate check is a read, so
  two submissions may pass it. More than one undecided approval makes the read raise.
* `OpenDecision` / `LoadDecidedRequest` / `CommitDecision` are `make_decision`: the check that the
  approval is undecided, the flushed (and locked) approval with the read of the request, and the
  commit; an approval sends the task after it. The decision is stored as it was sent, any string, and
  the status becomes its `Outcome`: whatever is not `"approved"` rejects.
* `OpenOverride` / `CommitOverride` are `create_override`: stop, edit, rollback.
* `TakeMessage`, `CallProvider` / `SkipProvider`, `CommitAnswer`, `AckMessage` are
  `process_request` in its task; `WorkerLost` may fall between any two of these steps.

`GovernedRelease` forgets rows, messages and workers: requests are withheld (by the firewall)
or let through (by a policy or an approval), and a prompt is sent only for a request that was
let through, and never with the text of a withheld one. `RefinesGovernedRelease` is that
specification with `withheld` computed from the firewall's flags.

### Screening

`Screening` extends `RequestPipeline` and decides what `CreateRequest` leaves open there. `policy`,
`version`, `useCase` and `provider` are the rows administrators write, `edit[a]` the call of an
administrator, `screen[s]` the call that screens a prompt: the rules it has loaded, the matches, and
the text as it is being masked.

* `CreatePolicy` and `AddVersion` are `create_policy` with its two commits; `OpenVersion` and `AddVersion` are
  `create_policy_version`, which reads the highest number before it inserts. `OpenApproval`,
  `OpenArchive` and `OpenActivate` load the policy, `CommitStatus` writes its status if it differs from
  the one loaded. `SaveUseCase` is the creation or the update of a use case.
* `CreateProvider`, and `OpenProvider` with `CommitProvider`: `update_provider` takes the key away when the
  vendor changes, and writes the columns that differ from the row it loaded.
* `OpenRequest` is `create_request` up to the rules: those of the version the use case names.
  `OpenChat` and `LoadRules` are `_active_policy_rules`: the active policies, then a query for each.
* `Scan`, `AcceptNext`, `MaskNext` are `prompt_firewall.scan`: the blocked terms; the matches of
  detectors, gazetteer and NER model, accepted one by one unless they overlap an accepted one; and
  the masks, from the right to the left. A prompt is its length, the terms in it and the three lists of
  matches; the text is the sequence of the original positions, with 0 for a mask.
* `StoreVerdict` is `CreateRequest` with the verdict the rules give. `CallChat` and `LogChat` are the call to
  the provider within the handler and the row it leaves, which is `"completed"` without a response.

`PipelineStep` is every other step of `RequestPipeline`, by sessions that screen nothing.

### Delegation and AgentActions

`agent` and `chain` are rows, `hops` the hops in the order of their commits, `incidents` what
refused delegations leave, `api` the calls. `delegate` is `OpenDelegation` (the two agents),
`StartChain` or `LoadChain`, the depth check, `LoadHeld` (what the agent holds in the chain) with
the escalation check, `LoadBound` (its expiry) with the time check, and `CommitHop` or
`CommitRefusal`. `kill_agent` is `OpenKill` (the agent and, with `cascade`, its active chains) and
`CommitKill`. `register` is the initial state: agents exist, with any capabilities and limits.

`AgentActions` extends `Delegation`, whose `Next` is one of its steps, with tools, policies and
actions. A check is four steps, one per query of the code: `OpenRecord` (the
agent), `LoadChainView`, `LoadHop`, `Decide` (the policies, and `check_action` with its order: status,
tool, depth, expiry, the capabilities claimed, denying rules, rules that ask for a review; only the
endpoint that answers a check passes claims). `AnswerCheck` answers it,
`CommitRecord` records it with the incident of a denial. `approve_action` and `deny_action` are
`OpenReview` and `CommitApproval` or `CommitDenial`.

### TrainingJob, TrainingRun and Serving

`TrainingJob` is about tasks. A `run` is one execution of the training body, `attached` while a
worker waits for it. `create_job` is `CreateJob`, `SendTask`, `CommitTask`; `cancel_job` is
`OpenCancel`, `RevokeTask`, `CommitCancel`; `retry_job` is `OpenRetry`, `CommitRetry`, then `SendTask`
and `CommitTask`. The task is `TakeMessage`, `LoadJob`, `StartTraining` (`"running"` is committed),
`ReloadJob`, `TrainModel`, `GuardStatus` (was the job cancelled meanwhile?), `CommitOutcome`,
`FinishTask`. `isolated` is `TRAINING_USE_DOCKER`: with it, a lost or killed worker leaves the run
going in its container.

`JobLife` forgets calls, messages and workers. It keeps a job's status, whether it has a model, and the
`stage` of its only task: waiting, looked (it has read `"queued"`), training, ending (the race guard has
let it pass) and over. `TrainingJob` computes the stage from the places a task can be (`Stage`). A job that
was retried while its former task was under way (`doubled`), or whose task was redelivered, may have two
tasks at once; from then on it is `"doubled"` and nothing is promised of its row.

`TrainingRun` opens the step `TrainModel`. `Body` is the sequence of what a training body does, by
the kind of job: reports, the search (`tune`, `commit`, `refresh`), the artifact that is opened and
closed. The artifact is built from the run's hyperparameters without those the builder ignores
(`BuiltFrom`). `ReportProgress` writes two columns in a session of its own; `new` is the loaded object
with its pending changes; `Settled`, `CommitOutcome`, `ReadBack`, `Publish` are the end of
`_train_model_sync`. A stream is `OpenStream` (the snapshot), `Subscribe`, `Forward`, and `Silence` when
nothing comes for a while: the socket timeout of Redis, two seconds, makes `listen()` raise.

`Serving` has the runs in brief (`BeginRun` to `Complete`) and rows of one deployment name. A
prediction is `OpenInference` (the deployment), `CheckJob` (the job's status), `Predict` (the
process's cache, or the file), `LogPrediction`, `Answer`. `retry_job` is `OpenRetry`, `ClearCaches` (of
its own process) and `CommitRetry`.

### Collections

`embedding[d]` is the space of the vectors stored for document `d`, `vectorizer` that of the file.
An upload is `Upload` (file received), `Save` (row committed as processing), `Fit` (the corpus is
read, the vectorizer written) and `CommitUpload`, or `FailUpload` and `MarkFailed`. A deletion is
`OpenDelete`, `Remove` (file removed, rest refitted) and `CommitDelete`. The neural embedder is the
other value of `provider`: its space is the same for all, and it has no file.

### Telemetry

The collector remembers what it has submitted (`seen`), submits to a bounded `channel`, gathers a
`buffer` and posts it (`sending`). A posted batch is a task. Its run handles one event per step:
the event is logged in the session, a repeat makes the sighting's row dirty, the next query
flushes and locks it. A new sighting commits at once (`CreateSighting`), with all that the session
had pending; its incident and its notification follow (`CreateIncident`, `Notify`). `CommitBatch` ends
the batch. The extension is a collector with a channel that is never full.

### Discovery

`ScanOnce` adds what each method may find: the usable resolvers of the agent's own resolv.conf
(`Resolves`), the first usable gateway of its default routes (`RoutesBy`), and, of the services on the
network, some of those `Via` gives to each other method. The reporter posts (`Accept`), the server looks each service up (`LookUp`; the query flushes the one
before), and commits them together (`CommitReport`). `connect_service` loads the row, binds
(`Bind`, with `LdapBind` or `DnsProbe`), and commits connection and status (`Decide`). Verifications
load the connections, try them one by one (`Verify`) and commit the verdicts that changed.

## 4. The runs

| Run | Question | Instance | Distinct states |
|---|---|---|---|
| `requests` | what races of calls, losses of workers and redeliveries leave of the release discipline | 1 request; either 2 calls, 2 approvals, 1 worker, or 1 call, 2 messages, 2 workers, 1 loss | 1.1 million |
| `screening` | whether rules and matches apply while rows change | 2 policies, 2 administrators, 3 edits, 3 versions; or a chat over two policies; or prompts of 3 characters with up to 2 + 1 + 1 matches | 0.1 million |
| `delegation` | what a hop may grant while calls overlap, and what the chain says while they do not | 2 agents, 1 chain, 3 hops, 2 calls, depth to 3, 2 expiry times, 1 update | 2.2 million |
| `agent_actions` | verdicts while agents, chains and policies change | 1 agent, 1 action, 2 calls in flight, 1 tool, 1 capability, 2 rules | 2.8 million |
| `training` | tasks, cancels, retries, losses, left-over containers | 1 job, 3 calls (2 at a time), 3 tasks, 2 runs, 1 loss | 1.2 million |
| `training_run` | the row, the artifact and a stream around a body | 2 runs, 1 call at a time, 1 stream, 2 hyperparameters of which the builder ignores one, 2 calls or losses | 0.85 million |
| `stream_heartbeat` | finding | 1 run, 1 stream | |
| `serving` | versions and caches | 2 calls, 2 processes, 2 rows, 2 runs | 1.1 million |
| `collections` | spaces, counts, files | 3 documents, 2 calls at a time, 6 in all, 1 death | 0.3 million |
| `collections_mixed` | finding | 2 documents, 2 calls | |
| `telemetry` | counting, escalation, losses | 1 domain, 1 file, 2 batches, 2 workers, 1 administrator, 1 loss or failure | 3.9 million |
| `discovery` | connections, decisions, listing | 5 services (one a second gateway), 2 agents, 2 administrators, 2 calls, 1 loss | 0.3 million |

**Why the bounds are enough to be interesting.** No action of a request's rows reads another
request, no delegation reads another chain, no training step another job, no upload another
collection, so one of each is where the races are. Two calls make every race between two
handlers, two approvals every race between decisions of one request, two messages the case where
two approvals of a request release it twice, two workers the case where both run at once, one
loss every redelivery. Three hops allow a delegation out, back, and out again, which is where the
deepest of two grants counts. Three calls are create, cancel and retry. Three documents are one
that stays, and two that come and go. Two batches of two events lock two rows in opposite orders.
A prompt of three characters has every way in which two
matches can be apart, touch, overlap or contain each other, and up to four matches let a dropped one
overlap two accepted ones. A channel of one event is full as soon as the reporter is busy. A second finite
time lets a grant ask for more than its own bound. A directory, a resolver, a gateway and a host
are the ways a service is found and treated; a loopback resolver, an unspecified gateway and a second
default route are what the agent's loops skip or never reach. Every action is fired by a passing run.
The constants whose names begin with `Max` appear in guards and in types; the code has no such
limits (`MaxLimit` and the channel's `Capacity` apart).

**What the MC modules leave out**, on top of the constants:

* `MCRequestPipeline`: two sessions decide, or two workers dispatch, not both in one behaviour;
  decisions that are neither word come in a third kind of behaviour, in which nothing is sent to the
  broker and nobody overrides.
* `MCScreening`: administrators from an empty database; a chat while they change two policies, of which
  one forbids the prompt; or the scan of a prompt with all that follows in the pipeline. The two loops of
  a scan are not interleaved with other calls: they await nothing.
* `MCDelegation`: one agent has every capability and others none (with equal agents nothing can
  escalate); calls that overlap come without updates and expiry, updates without expiry, and chains of
  depth 3 without overlap or updates. All of these go through the same actions.
* `MCTrainingJob`: a third task only in-process and without losses; the last call meets a loss only in
  containers, where runs outlive their workers.
* `MCAgentActions`: two calls in flight, of either kind; agents start with every tool. Agents with a
  capability only ask for verdicts, with no policy there.
* `MCTelemetry`: one loss or failure; starts with nothing, or with two queued batches of repeats.
* `MCDiscovery`: no call while the silent host is in the network; with two calls, one agent, no loss, and
  none about the gateway. Whether a gateway answers is asked by no action.
* `MCTrainingRun`: two calls, or one and a loss; runs overlap in the plainest job only.

**Symmetry** is used for sets of identical actors and rows, in runs without liveness; where a run
has a liveness property, the MC module orders the identical actors instead (`InOrder`).

**Deadlock** is not checked: clients need not call, and a bound that is used up stops the model.

**Properties of requests, delegation and training.**

* `CallsAreReleased`, `BlockedTextStaysHere`: policy and firewall cannot be passed by submitting,
  approving, overriding or redelivering. The mutants send a task for every decision, or store
  the text of a blocked prompt.
* `DecidedIsBacked`: a status `"approved"` or `"rejected"` is the outcome of an approval that was decided,
  though decisions race with each other and with submissions. Since a flush writes
  only what changed, this holds because of the row lock the autoflush takes. Without it
  (`NeverLocked`) two opposite decisions leave a status nobody decided.
* `SecondResponseNeedsLoss`: only the loss of a worker repeats a task.
* `RefinesGovernedRelease`: see above. `MessagesAreHandled`: a queued task is acknowledged in the
  end. `PipelineInv` is the inductive invariant of the proofs; `CompletedHasResponse`, one of its
  conjuncts, says that response and status are committed together.
* `MatchesAreMasked`: of the text that is stored or sent, exactly the characters of the accepted
  matches are gone, and a match that was dropped overlaps an earlier accepted one. The mutant masks
  from the left, after which the offsets of the other matches are wrong.
* `StandingRulesApply`: a rule that was in force from a chat's first query to its call neither forbids a
  term of the prompt nor asks for an approval.
* `ScreeningInv`, the inductive invariant: two versions of a policy share a number only if two calls
  numbered versions of it at once; a connection keeps another vendor's key only if two updates of it
  overlapped; calls work on rows that exist.
* `HopsAreGranted`: a hop's grant was read before other calls
  committed; it is still covered by one grant, or by a registration, that existed.
  `DepthWithinLimit`: the same for the depth, computed from a counter that may be stale.
  `DelegationInv` has two more as conjuncts: every capability granted was once registered for some
  agent (`CapabilitiesHaveAnOrigin`), a violated chain and its incident go together
  (`RefusalsAreRecorded`).
* `CountersAreTrue`, `OneGrantCovers`, `StoppedChainsTakeNoHops`: what the code promises of a
  chain, for histories in which calls never overlapped. With overlapping calls all three
  fail (updates are lost; capabilities and expiry are read in two queries; a kill comes in
  between).
* `UnsettledIsCarried`: a queued or running job is carried by a call, a message or a run, or its
  task was dropped (`lost`), in one of the ways that `AbandonCall`, `DropRevoked`, `KillRevoked` and
  `RunFails` name.
* `CompletedHasModel`: an old run can complete a job whose `model_path` a retry cleared, for it
  does not write the path it had loaded; only a job that is `overtaken`, retried over a run that had
  loaded its row, may end like that.
* `RefinesJobLife`: the row of a job with one task at a time goes through `JobLife`. It is trained at most
  once for each time it is queued; only a retry revives it, after its task is over; the model comes with
  `"completed"` and goes with a retry; a run writes over a cancellation only if that came after it had
  looked, and a cancellation it has read stands; a task that is withdrawn, killed or lost for good
  leaves the row as it was. The mutant is a run that does not heed the cancellation it reads.
* `JobsSettle`: every job ends as completed, failed or cancelled unless its task was dropped.

**Properties of the other modules.**

* `ActionsInv`: a denied action has its incident, whichever of two overlapping reviews comes last,
  and an incident is that of a denied action or of one two reviews were open for.
  `NothingBarredIsAllowed`: a suspended agent, a tool that is not allowed or a denying policy, the
  agent's own or everybody's, that was there when the check began is not missed by its four
  queries. `VerdictsStand`: a recorded verdict changes only through overlapping reviews.
* `RowInv`: a completed row has progress 100 and the final stage although other sessions write
  them and may fail; its artifact is whole, of the run whose metrics it shows, and built with
  the hyperparameters it shows, except those the builder ignores, the user's own untouched. `EndIsTrue`: the end frame names a status the job
  reached while the stream was open. `StreamsClose`: no stream hangs, whatever events are missed.
  Overlapping runs are the exception to the first two.
* `ServingInv`: versions of one name are unique though two creations may pick the same (the
  constraint keeps them so). `ServesTheRow`: a process not in `exposed` serves the model of the
  row. A process gets there by a retry in another process, by a prediction that was
  under way during its own, or by a redelivered run.
* `CollectionsInv`: a document is ready exactly while its chunks are there, under every overlap and
  failure; counts are true without overlap. `OneSpace`: without overlap all chunks are in the space of
  the whole corpus whatever fails. `QueriesAnswered`: then, and with no write under way and the
  last one committed, a question is comparable with all chunks.
* `TelemetryInv`: what a collector remembers (and so never submits again) is on its way, accepted,
  or lost for good; every run works on a batch and a sighting of its own. `CountsAreTrue`: the
  sightings of a key never count more than its flagged events, and exactly those unless tasks
  overlapped; the events of an acknowledged batch that did not fail are all logged.
  `OneOpenSighting`: one per key, unless tasks overlapped or a user reported or reopened one. `BlockedIsEscalated`: a sighting created for a blocked domain has one
  incident and one notice unless its task ended right then (`cut`).
* `DiscoveryInv`: a connected service has a connection of its own whose password the directory once
  accepted. `OneConnection`: calls that do not overlap leave one connection, with a verdict about the
  stored password. `DecisionsStand`: reports and verifications never touch what an administrator
  decided. `ConfiguredIsListed`: the resolvers an agent is configured with and its first usable gateway get
  listed although reports fail each other; a second gateway may never be.

**Fairness.** `WorkerFairness` and the worker part of `TrainingJob`'s `Fairness` say that a free
worker takes what is queued and that a task's body proceeds: Celery runs as a service that is
restarted, the provider call has a timeout and a training ends at the soft time limit at the latest
(`core/celery_app.py:31-33`). `TrainingJob` also assumes that a call that is not abandoned goes on
to send its task and to commit its cancellation. `TrainingRun` assumes that a run that is not cut and
a stream whose client listens proceed; the socket timeout is what makes `Silence` fair.
`Discovery` assumes the server's handlers with the database's deadlock detection (`ReportStep`, weakly
fair), and two strong fairnesses: an agent's ticker (`AgentStep`) is disabled while any report is open
and enabled again, since reports take moments and sweeps are a quarter of an hour apart; and of two
reports in a deadlock it is not the same one that is failed every time (`FailReport`), as PostgreSQL
ends the one whose wait it looks at first. Nothing is assumed of clients, administrators, losses, nor
that a call survives. Elsewhere weak fairness is enough: none of these steps is disabled again by others
except by taking it or by ending the call or run.

## 5. Findings

Two runs are expected to be violated. Each checks one sentence of the documentation or of a
comment, quoted in `PROJECT.json`.

* `SameSpace` (`collections_mixed`): two uploads that overlap each refit over the chunks they see, so
  the later commit leaves the other's chunks in the space of the other fit.
* `ClosesWithJob` (`stream_heartbeat`): the Redis client is made with a socket timeout of two seconds
  (`core/events.py:37`), after which `listen()` raises. The generator and the stream end before the first
  keepalive, which is due after 15 seconds, although the job is still running. Without that timeout
  `wait_for` would cancel the generator after the first keepalive, with the same end.

The models contain more behaviour that a comment or a docstring does not lead one to expect. Where
the sentence is written down as a property, named below, it can be given to TLC in place of a run's
own:

* `OneUndecidedApproval` (RequestPipeline): the guard against duplicate approvals is a read without
  a lock or a unique constraint. Two submissions both insert one, and the next submission raises.
* `StoppedIsNotSent` (RequestPipeline): `process_request` does not look at the status. A request
  stopped while its task is queued is sent to the provider.
* `TerminatedTakesNoHops` (Delegation): a delegation that loaded the chain as active commits its hop
  after a cascading kill terminated the chain, although `services/agent_registry.py:95` says that
  terminating chains "stops new hops being accepted on them".
* `OnlyMembersDelegate` (Delegation): an agent that is neither the root nor the grantee of a hop
  delegates in the chain with its registered capabilities.
* `InferencesAreLogged` (Serving): `chat` through a deployment writes no prediction log.
* `SuspendedAgentsAreDenied` (AgentActions): approving a pending action of an agent that was
  suspended meanwhile allows it; the engine is not asked again.

Without a property of their own, and visible in the actions: `schemas/approval.py:16` says of a decision
"approved or rejected", but any string is accepted, stored with the approval, and rejects the
request; the search tunes and shows a `C` that `_build_sklearn_model` does not use; of several default
routes only the first usable gateway is ever reported; a run that loaded its job as queued commits
`"running"` over a cancellation, and the kill of that same cancellation ends the run, so the job stays
`"running"`; two administrators who register one
sighting at once create two providers; the reason a domain was ignored for is lost when its sighting
is reported again; deleting a document whose upload failed takes one from the collection's document
count; a redelivered batch is logged and counted again; a deployment of weight 0 can be routed to.
In `Screening`: `create_request` refuses a connection that is switched off ("a hard stop",
`services/request_service.py:50`) and the chat does not look at the status; a chat whose provider call
fails leaves no row; a chat's `"completed"` row has no response; two versions of a policy may get one
number; a use case may name a version nobody approved, and no update can take the reference away.

## 6. The proofs

TLC checks the instances above; the theorems hold for every value of the constants that meets the
named assumptions: null values are not rows, bounds are natural numbers, rules are rules
(`NullsAreNotRows`, `MaxCrashesIsNat`, `NullsAreNotIds`, `BoundsAreNats`, `NoJobIsNoRow`,
`RulesAreRules`, `NoActionIsNoId`, `NoProcessIsNone`, `BatchesArePositive`, `ServicesAreKnown`,
`PinnedAreParams`, `IgnoredAreParams`, `PromptsAreTexts`, `NullsAndBounds`). Each passing run evaluates them. Nothing is assumed of the number of calls, workers,
rows or losses, and no theorem uses the bounds `Max...` but as natural numbers.

Every proof has the same shape. An inductive invariant is stated first, one named conjunct per idea;
lemmas show that one kind of step keeps one conjunct; `Steps` or `InvStep` puts the actions together;
the theorems follow by `PTL`. What follows says what each invariant adds to the property and why the property alone is not
inductive.

**RequestPipeline.** `PipelineInv` and `TypeOK` are inductive together. The safety
properties are not inductive alone: a provider call is released because the message a worker runs is
(`RunsInv`, `MessagesInv`), the message because the call that sent it had released the request
(`HandlersInv`); a text is clean because only a clean prompt is stored as masked (`RowsInv`)
and what a worker read is what was stored. `SecondResponseNeedsLoss` needs a count that tells a message
before its commit (`rows <= crashes`) from one after it. The refinement follows: each step sends
only what is released, and `withheld` grows only in `CreateRequest`. `DecidedIsBacked` needs
more (`DecisionsInv`): a decision in flight that loaded the very status it decides for will write
nothing (`Silent`), so the approval that backs a status must not be one that such a decision is about
to change (`Backs`); the row lock gives that two decisions in flight are about different approvals.

**Screening.** The two loops of the firewall need an invariant each. `AcceptsInv` says of the first that
what it has decided is final: each match before `at` is accepted or overlaps an earlier accepted one, and
accepted matches do not overlap. `SplitsAt` says of the second that there is a position before which the
text is as it was: the matches still to mask end before it, so their offsets are right, and those
already masked begin after it. The position moves left with every mask (`MaskKeeps`), because the
rightmost match is taken and accepted matches do not overlap; when none is left, `SplitsAt` is
`MatchesAreMasked`. `MaskedText` and `SplitText` are about the operators only. `NumbersInv` and `KeysInv` say
what holds of a policy or connection that no two calls worked on at once, the values those in flight
have read included. `StandingInv` gives `StandingRulesApply`: what has been in force since a chat began is
loaded, or its policy is still to be read and then gives it.

The composition: every step of `ScreeningNext` leaves the pipeline's variables as they are, is a step of
`RequestPipeline`, or is `LogChat` (`ScreenedSteps`). `LogChat` inserts a completed row that no call or message
knows, so the release discipline, `DecidedIsBacked` and the refinement go through;
`CompletedHasResponse` does not, as a chat's row has no response. This is why the part of `PipelineInv`
about releases (`ReleaseInv`) is proved inductive by itself.

**Delegation.** `DelegationInv` adds to the properties what a call in flight carries of its checks:
after `LoadHeld` the grant is covered by a hop among the first `Len(hops)` or by a registration, and
the next depth is within the highest limit. Both stay true when other calls append hops, since hops
are never removed and `registered` and `highest` only grow.

Without overlap more is true, and `SerialInv` says it under `~overlapped`: one call is open (`Alone`),
what it carries is what is stored (`Current`), and a chain's counters are those of its hops, whose
depths grow one by one (`Counted`). From this follow `CountersAreTrue`, `OneGrantCovers` (capabilities
and expiry were read in two queries, but of the same deepest hop) and `StoppedChainsTakeNoHops`. The
proofs about `Delegation` stand in `AgentActionsProofs`, whose theorems use them.

**AgentActions.** The module extends `Delegation`, so its theorems rest on `Delegation`'s: a step of
this module is one of `Delegation`, leaves delegation as it is, or changes tools, which delegations
do not read. `ActionsKeepDelegation` says that the composition keeps the whole `DelegationInv`; it is
also what types the chains and hops the engine reads. `NothingBarredIsAllowed` is not inductive:
`BarredInv` says that what stood against a call was read with the agent or is still among the
policies, which only grow. `IncidentsAreDenials` needs `ReviewsInv`: a review in flight is about a
pending action unless two are open for it. That is also why a verdict stands.

**TrainingJob.** `UnsettledIsCarried` is not inductive: a run that found the job finished when it
loaded it will leave the status as it is, and a revoked task may be discarded, so neither can be
what carries a job. `ReliedInv` states the property with runs `InCharge` and with messages
that are not revoked, or whose loss will be counted; the rest of `TrainingInv` ties runs to messages and
messages to jobs.

`CompletedHasModel` and `SeenCancellationsStand` follow what a run has loaded (`LifeInv`): a path a run
found set is still set unless a retry took it back; a run whose message was delivered once is the only
one with it; and a run that read a cancellation stays behind the guard. An earlier form of
`CompletedHasModel` excused jobs that were both redelivered and retried. The proof did not go through,
and TLC, given a third task and more calls than the run has, found why in 29 steps: with two retries
and no redelivery, the run of the older task is still alive and completes the row the second retry
cleared. The property now excuses exactly the jobs that were overtaken. `SeenCancellationsStand` is proved
only: a run that has read a cancellation does not overwrite it, for a job with one task, delivered once
and not overtaken; two tasks one after the other are the business of `RefinesJobLife`.

The refinement (`LivesAreLed`) rests on `LivesInv`. Of a job that is not doubled it says that the task is in
one place (`Single`: one call that will send it, or one message, or one run), and what the run has read
still fits the row (`Reads`): before it starts the row is `"queued"` or `"cancelled"`, afterwards
`"running"` or `"cancelled"`, a path it loaded is still set, and a cancellation it read is still
there. That a retry breaks none of this needs the history variable: a retry next to a task under way makes the job
doubled in the same step. Each step is about one job (`OnlyAbout`) and leaves the others apart (`OthersApart`,
`ApartKeeps`), so one lemma per step shows that the job it is about goes on (`LifeGoesOn`), and
`LivesLifted` makes that a step of `JobLife`.

**TrainingRun.** What is true of a row depends on where its run is, so `Fits` says for each position
what the run's loaded copy, the row and the artifact have in common. The copy lags behind the row by
the progress other sessions wrote (`Copied`). `Settled` repairs that at the end by writing 100 and
`"Completed"`, but an attribute that does not change is not written, so `Copied` has to say that the copy
never has these values.
A search leaves the copy with hyperparameters the row does not have until its commit and refresh
(`Training`). All of it is under `~overlapped`, like `CompletedIsWhole` itself; that the user's own
hyperparameters stay (`PinnedInv`) is not. For `EndIsTrue`, whatever is in a stream's queue, and
whatever a run is about to publish, was the row's status while the stream was open (`StreamsInv`).
What the bodies do is proved about the six sequences of `Jobs`, not by unrolling a bound.

**Serving.** `ServesTheRow` is not inductive either: that a process holds no old model when a run
completes is because it holds none while the row is queued, running or failed, and no prediction there
has passed its check (`CachesInv`); that it holds none after its own retry is because it holds none
between the clearing of its caches and the commit. A redelivered run of a completed job, and every
retry elsewhere, put a process into `exposed`, and only a restart or a retry of its own takes it out.
`CompletedInv` and `BegunInv` say whose file is at the model path.

**Collections.** That a document is ready exactly while it has chunks needs `UploadsInv`: an upload in
flight is the only one of its document, and finds the row as it left it or gone. The serial half adds
what the one open call has read (`AloneInv`) and what it is about to write (`PendingInv`: vectors of the
corpus that will be there, in the space of the vectorizer it has dumped); `FilesInv` relates the file
to the rows, with `torn` for a dump that was not committed. Counts are cardinalities, hence the
finiteness in `FiniteInv`.

**Discovery.** `ConnectedWasBound` needs that a connection is never removed nor given to another service
(`RefsInv`, `LoadedInv`), and that the password a call bound with is one the directory had (`BoundInv`,
`StoredInv`; passwords only move on). `DecisionsStand` follows from what the writes of a report are: the
columns a sweep refreshes, of rows as they are when they are locked. `OneConnection` is about services
in whose calls nothing was `raced`: there, what the open call loaded of the connection is what is
stored (`SoloInv`).

**Telemetry.** `TelemetryInv` is inductive as it stands. Its `RunsInv` ties runs to the batches they took
(a taken batch has one run) and to the sightings they escalate, which is what `BlockedIsEscalated`
needs: the sighting a run escalates has no notice yet, no other run touches it, and when the run leaves
the row behind without both it is in `cut`. `OneOpenSighting` needs `SoloInv`: while tasks do not overlap,
each open sighting of the key a run is about to create one for was made or reopened by a user
meanwhile. That no step loses a sighting or changes its key is `RowsCarried`, used by both.

`CountsAreTrue` compares what is stored with what ever happened, and none of it is inductive: a commit
adds the repeats its run has flushed, each computed from a count that may be older than the one stored.
The proof counts events by name: the n-th event of sighting s is the pair `<<s, n>>`, so a stored
count is a set of pairs (`Counted`), a stale repeat is one that wants a pair counted again (`Wanted`), and two
runs that count the same number twice lose one. The invariant (`Tallied`) says that there is a set of all
pairs that ever were counted: it holds those counted now, has at most as many members as flagged events are
logged, and no run wants more new ones than it has flagged events to log. It is a witness in place of a history
variable: each step names the next one. While no two tasks overlapped the set is what is counted
now and the bounds are met exactly, which needs `FlushInv` (what a run has flushed is never
less than what is stored) and `SoloInv`. The half about acknowledged batches has a witness of its own
(`Kept`): the events ever committed hold those of every answered batch, and a run has handled no
more beyond them than it has uncommitted entries; a rolled back run's batch is not answered
(`Keeps` lists what a step may do). Cardinalities are compared by inclusion and one member at a
time, so no induction over the sets is needed.

Only model-checked. `MessagesAreHandled`, `JobsSettle`, `StreamsClose` and `ConfiguredIsListed`: liveness under
fairness, like `ENABLED`, is out of the prover's reach. Every other property of a passing run has a
theorem. The models use no recursive operators. The findings are counterexamples and need TLC only.

## 7. Not modelled

**Components.** The adapters that call the providers are HTTP clients; their outcome is an input. Users, authentication and rate limits, datasets, the
audit log, the handling of incidents and the notification channels read and write single rows. The
dashboards, the governance graph and the frontend are views. The numeric code (algorithms,
transformers, recommenders, detectors) is stateless: `TrainingRun` has its calls.

**In every module.** Lists, detail views, statistics and audit entries; authorization, except where a
status depends on it; database failures other than those an abandoned call stands for; Redis's
visibility timeout; a broker that loses messages; two organizations (every query is by organization,
so one is enough).

**RequestPipeline.** Who is chosen as approver. Nothing resends a task whose call died between the
commit and `send_task`, so no progress is claimed from the row; the same holds for training jobs. After
a redelivery has inserted a second response, every reader's `scalar_one_or_none` raises.

**Screening.** What a pattern or a model finds in a text, and who may call what. A chat's system prompt is
neither scanned nor stored. `services/policy_engine.py` is not called by requests or chats. A use case's
status and list of allowed providers are not looked at by the code. The masks' labels and the flags.

**Delegation, AgentActions.** Signatures of hops and their verification; `register` is the initial
state. A rule keeps its lists of tools; a denied type of action fares like a denied tool.

**TrainingJob.** What the training body does (`TrainingRun`). A container's exit code is ignored by the
code: a container that is removed at the soft time limit leaves the job `"running"` (`lost`).

**TrainingRun.** The values of metrics and hyperparameters, and the file formats. Which parameters a
builder ignores is a constant. With every parameter pinned, as after a
retry of a tuned job, the search still runs but decides nothing. Download tokens.

**Serving.** What a prediction returns and logs beyond the model it used: no property reads it. One job and one deployment name; other jobs' models enter as evictions. The models the
caches of one process hold for different task types are one cache. Statistics.

**Collections.** Extraction and chunking (a document has chunks or fails) and the ranking. The
vectorizer's file is written in one step, and every query loads it anew.

**Telemetry.** How a process, a file or a request is recognized as AI. Sampling of the collectors is
one step per scan. The branch of `ingest_events` for an unrecognized event type
(`services/telemetry_service.py:72-77`): no collector of this repository sends one. Sightings of one organization; domain policies change at any time.

**Discovery.** Protocols on the wire: a method finds a set of services. DHCP and ARP find some of what
is there. Credentials other than a directory's password; credentials are stored encrypted, and that
is left out. The port of an existing connection, which a second connect does not refresh.

## 8. The plan

Done: `RequestPipeline` with `GovernedRelease`, `Screening`, `Delegation`, `AgentActions`, `TrainingJob`
with `JobLife`, `TrainingRun`, `Serving`, `Collections`, `Telemetry`, `Discovery`, each with its run and
its theorems. Left: user administration, that is the last administrator of an organization, and
invitations against removals.
