# A TLA+ verification of the Yield RCA service

The repository is a service that investigates semiconductor yield excursions: a FastAPI
process accepts RCA jobs, PostgreSQL queues them, worker processes run a bounded agent
workflow over manufacturing data and commit its result, a browser follows along, engineers
approve what is remembered, and approved knowledge is retrieved by later investigations. This
directory models the parts that decide something, checks the models with TLC and proves the
central results with TLAPS. Paths below are relative to `src/backend/yield_rca_api/` and
`src/core/yield_rca_core/`, whichever has the file.

How to run it, inside this directory:

    tlc -workers 2 -config RCAJobQueueRace.cfg MCRCAJobQueue.tla
    tlapm RCAJobQueueProofs.tla

`PROJECT.json` lists every run, which source lines each definition stands for, the hazards of the
code with the properties that cover them, and for every property a mutated definition, kept in
the module beside the one it mutates, that breaks it.

## 1. Inventory

| Component | State | Operations | Meets others through | Modules |
|---|---|---|---|---|
| PostgreSQL job queue (`store.py`) | `rca_job_state`, `rca_job_attempt`, `rca_job_event` | enqueue, cancel, claim, heartbeat, complete, fail, recover, record progress | row locks, leases | `RCAJobQueue`, `JobLifecycle` |
| RCA queue worker (`worker.py`) | place in `run_once`, claimed record, heartbeat thread | `run_once`, `run_forever`, `_heartbeat_loop`, `classify_worker_error` | the store, the workflow, the memory service | `RCAJobQueue`, `LLMGateway` |
| Job event stream (`app.py`, `frontend/src/api.ts`) | cursor, batch, last event id | list, send, check, sleep; connect, deliver, break, leave | event table and row, read separately | `JobEventStream` |
| Idempotent submission (`app.py`, `store.py`) | `idempotency_key`, unique index | insert, unique violation, lookup, answer, repeat | concurrent clients | `JobSubmission` |
| RCA memory approval (`memory.py`) | candidate, decisions, audit, published tables | create, decide, publish, read a page | two engineers, row lock | `MemoryApproval`, `DualControl` |
| Knowledge ingestion (`knowledge_ingestion.py`, `knowledge_store.py`) and index (`knowledge_vector_store.py`) | candidates, documents, vectors | upload, stage, decide, publish, embed | unique indexes, concurrent indexers | `KnowledgeIngestion` |
| LLM gateway (`llm_gateway.py`) and its callers' retry loops | tries, failure categories | request, retry, repair, fall back, classify | every agent; the queue's retry decision | `LLMGateway` |
| Controlled and LLM ReAct (`supervisor.py`, `investigation_policy.py`, `next_action_planner.py`) | Questions, Actions done, budgets, verdicts | propose, validate, execute, update Questions, fall back, conclude | the planner's model, the specialists | `Investigation`, `InvestigationActions` |
| Question capability and evidence (`question_*.py`) | Evidence groups per Question | close, review updates | both loops | `InvestigationActions`, `Investigation` |
| Specialist loop (`specialist_v2.py`) | calls used, observations | choose, run, fall back, finish | the Supervisor's allowance | `SpecialistV2`, `SpecialistContract` |
| Causal confirmation (`causal_*.py`, `hypothesis_*.py`, `rca_reasoning_agent.py`) | proposals, matrix, challenges | generate, compare, challenge, confirm, decide | Evidence of the other agents | `CausalMatrix`, `HypothesisGate` |
| Fixed workflow (`supervisor.py`, `planner_agent.py`, `workflow.py`, `improvement_agent.py`) | task statuses, findings | plan, execute, record, fail, report | agents through findings | `FixedWorkflow` |
| Tools and fixed agents (`tool_layer.py`, `specialist_agents.py`), SPC (`spc_engine.py`) | tables of a fab, what an agent has found | each Tool | the finding of one agent is the input of the next | `MesTools`, `ImpactScope`, `FdcTools`, `SpcEngine`, `QualityTools`, `FabAnalysis` |
| Retrieval (`hybrid_retrieval.py`, `reranking.py`, `causal_retrieval.py`, `knowledge_*.py`) | approved documents | plan, rank, fuse, rerank, share lanes, look up | Knowledge agent, lookup endpoint | `KnowledgeRetrieval`, `FabAnalysis` |
| Inline execution, HTTP reads, audit, metrics | none that is read back | – | – | not modelled |
| Browser workspace (`App.tsx`) | shown job, artifacts | refresh, poll, reload | the API | not modelled but for its `EventSource` |
| Evaluation, benchmarks, synthetic data, migrations | offline | – | – | not modelled |

*What is hard.* A lease names a worker, not an attempt, and clocks are read before locks are waited
for. Processes die and replies are lost between transactions. Two engineers, two uploads, two indexers
race. Three retry loops nest. A language model answers anything, or nothing, at every step of an
investigation, and an abandoned planner hands a half-spent budget to another loop. Three gates decide
on one hypothesis. A plan names findings that do not exist yet. Tables are incomplete, rows are equal,
and Tools that must agree on one excursion read different tables.

*What makes the parts correct.* A finished job never changes and shows its latest attempt; attempts
and Tool calls stay in their budgets; everything accepted ends; nothing is published without two
engineers; no content is stored twice; a planner does not repeat a refused request; a Question is closed by
Evidence of every group it asks for; a supported conclusion was earned; a finding rests on earlier
findings; a Lot without records is not counted as normal; a document that the filters exclude never answers.

## 2. How the modules fit together

    JobSubmission -> RCAJobQueue -> JobEventStream           RCAJobQueue => JobLifecycle
                       | WorkflowReturns / WorkflowRaises
                       v
             FixedWorkflow   or   Investigation (+ InvestigationActions)
                  |                   |  allowance, Finding
                  |                   v
                  |               SpecialistV2               SpecialistV2 => SpecialistContract
                  v                   v
             FabAnalysis = MesTools, ImpactScope, FdcTools (SpcEngine), QualityTools,
                           KnowledgeRetrieval
                                      |  Evidence
                                      v
                               HypothesisGate (CausalMatrix)
             LLMGateway: what every call to the model costs, and the queue's verdict on its errors
             MemoryApproval => DualControl, KnowledgeIngestion: what retrieval may see

Where one module leaves a choice free, another shows what is behind it. `RCAJobQueue` lets a workflow
return or raise anything; `LLMGateway` shows what it raises and `Investigation` that it ends.
`Investigation` lets a dispatched agent spend up to its allowance and answer with any Finding, which is
`SpecialistContract`; `SpecialistV2` implements it. `Investigation` lets RCA reasoning reach either
verdict; `HypothesisGate` shows what a "supported" one rests on. `FixedWorkflow` lets an agent find
anything; `FabAnalysis` is what the four agents compute. `KnowledgeRetrieval` is given documents;
`KnowledgeIngestion` shows how they were approved.

## 3. Modules and code

### `RCAJobQueue` – the queue and its workers

| Code | Model |
|---|---|
| columns of `rca_job_state` | `status` (`"absent"` before the insert), `attempts`, `leaseOwner`, `leaseLeft`, `waitLeft`, `cancelAsked`, `stored` |
| `rca_job_attempt` | `attemptStatus`, `attemptWorker` |
| `rca_job_event`, the events of the transactions | `events` |
| a worker process in `run_once` | `pc`: `idle` (in `run_forever`), `working` (in the workflow), `committing`, `failing` (in the handler that calls `fail_attempt`), `remembering` (after a committed completion), `down` |
| the claimed record; the `lease_lost` event | `wjob`, `wattempt`; `lost` |
| a heartbeat UPDATE in flight | `beatJob`, `beatAttempt`, `beatNow` |
| `create_from_state` | `candidates` |

Each store operation is a transaction that locks the row it changes, and is one action:
`Enqueue`, `RequestCancel`, `Claim`, `Complete`, `FailAttempt`, `HeartbeatLands`, `Recover`. Between
them the process is at a `pc`, where anything else may happen. Replies are part of the model: a
claim may commit without the worker learning of it (`ClaimUnacknowledged`); `complete` may
take effect and still raise (`CompleteErrs`), after which the worker reports a failure of a completed
job; an error of `fail_attempt` is logged and forgotten. `FailAttemptRejected` needs no guard: the
call may always fail before it reaches the database.

*Time.* `leaseLeft` and `waitLeft` are distances to the present instant of the database, and `Tick` makes
them shorter. A worker compares with a `datetime.now` of its host, read before it waits for
the row lock, so a transaction works with an instant that is off by some `d` in
`-Skew..Skew`. `Aged` stops below `-Skew`, where every reader agrees that the time has passed.
NULL in either column is `LongPast`; `LeaseCoherent` is what makes that unambiguous for a lease.

*Abstractions.* A workflow is one step that returns a supported or an unsupported state, or raises with any
classification, with or without a partial state; the progress events it records matter here only when they
are refused (`ProgressRefused`) and are appended in `JobEventStream`. `SKIP LOCKED`, priorities and
`LIMIT 100` make `Claim` take any due row and `Recover` any non-empty set of expired rows. A
worker has one heartbeat in flight (a bound; two would need a call that outlasts the join and a
further interval). Worker ids are distinct, as `default_worker_id` makes them.

### `JobLifecycle` – what clients are promised

The transition table `_ALLOWED_TRANSITIONS`, without the legacy statuses, as a specification: each
step moves any set of jobs along edges of the table; an attempt is counted by every `running`; the
completing attempt publishes its number as the result; no job stays unfinished for ever.
`RCAJobQueue` implements it with `result` mapped to the attempt of a stored final state.

### `JobEventStream` – events from a transaction to the browser

Writers take the row lock, number an event `MAX(sequence) + 1`, and commit or roll back. The generator
lists the rows after its cursor, sends them one by one, reads the row, and ends or sleeps. The client's
`EventSource` reconnects by itself with `Last-Event-ID`. A broken connection loses the frames on the wire.
The page may close the stream (`Leave`); what it then shows is the browser's affair.
Keep-alive comments change nothing and are left out.

### `JobSubmission` – Idempotency-Key

The INSERT of `enqueue` under the unique index (it waits for an open transaction with the same
key), the commit, the lookup in a second transaction after a UniqueViolation, and what
`create_rca_job` answers. Every step may fail; a client repeats a call whose answer it lost, with a fresh job
id. Requests stand for their SHA-256 hashes, which are taken to be free of collisions. `DuplicateJobError`
never happens: job ids are fresh, and rows are never deleted.

### `MemoryApproval` and `DualControl` – what engineers remember

A candidate is built from a completed job's state; each decision is one transaction
(`LockAndRead`, `Commit` or a failure), with the row lock between them; publication into the
document tables, the status and the audit events belong to the transaction of the last decision. Answers
may be lost. The page of an engineer is read with two SELECTs (`ReadRow`, `ReadApprovals`) that see
different moments. Ids are compared as the code normalises them, so one engineer may type an id in two
ways. `DualControl` is the promise: two different engineers, one rejection is final.

### `KnowledgeIngestion` – uploads, approvals, the index

An upload is parsed, compared with what exists in a SELECT, and inserted under two partial unique
indexes. The commit (`Insert`) and the answer (`ReadBack`) are two steps: `create_candidate` reads the committed row on a
new connection before the client hears of it, and meanwhile others may decide on the candidate. `UploadFails` covers both
sides of the commit, a lost answer included; after it the candidate is staged and its client was told an error. Approval publishes a candidate; indexers of different
embedding revisions read what is active, embed it outside of any transaction and write vectors back. Each of these steps may fail.

### `LLMGateway` – retries in retries

`complete_json` repeats a request on statuses and transport errors it considers transient and keeps a failure
category and the last status; the agents call it again for invalid outputs, each with a budget of its
own; when the planner gives up the controlled loop goes on inside of its `except` block; the worker
classifies the exception that leaves the attempt by walking its causes and contexts (`Found`). What a call kept of its tries
(`status`, `arrears`) and what really happened (`lastPost`, `balked`, `refused`) are separate, the latter as history: the
properties judge the first by the second. `refused` is kept for every caller; that a Specialist, which catches every exception as an invalid output, may
ask again after a refusal is an exception in `FailFast`, not in the history.

### `Investigation` and `InvestigationActions` – the two ReAct loops

`InvestigationActions` holds the tables: the registry of Actions with their costs and prerequisites,
the Evidence groups a kind of Question asks for and which Action contributes them, and the Questions and Actions that
a missing causal claim leads to. `Investigation` is `execute_controlled_react` and `execute_llm_react`: the
policy's next Action, or the model's proposal with Python's legal matrix, validation, repairs and own
decisions; budget preflight; dispatch; Evidence; updates of Questions from the model, from Python and from the
boundary; gap rounds; stop; conclusion level with its caps; fallback from the second loop to the first.

Abstractions: one Question per kind, so the scope of a Question and of an Action always match; a gap is its
claim; verdicts are supported or inconclusive; a scope is a lane or "goal"; Evidence recorded earlier
supports nothing new; an Action that fails has spent none or all of its calls; a Finding always has
Evidence; the stop claims `critical_contradiction` and `budget_exhausted` count as `no_allowed_action` and
`blocked`. What the model answers, what agents find and whether they fail is free.

### `SpecialistV2` and `SpecialistContract` – one Specialist

The local loop of `SpecialistV2Executor`: the Tools that may run next in each of the four domains, the
model's choice, two invalid answers giving way to the deterministic one, the fallback from advanced to basic
SPC with the call it reserves, finishing, and errors. The contract is what the Supervisor relies on: at least
one and at most `min(MaxSteps, allowance)` calls, then one Finding, or a failure that has spent no more. It justifies the
free choice `LlmCalls` in `Investigation`.

### `CausalMatrix` and `HypothesisGate` – one conclusion

`HypothesisGate` is a call of `RCAReasoningAgent.analyze`: generation, comparison and challenge by a model
that may fail at each, the candidates of Python's rules without one, ranking and decision. The handlers of failures differ: without a
generation or a challenge the cause stays open, but a failed comparison gives way to Python's score of the matrices (`CompareFails`,
`PythonPreferred`) and the decision goes on. `failed` remembers which calls came to nothing. `CausalMatrix`
has the operators: the citation checks, the matrix of claims with its conflicts, the rule and proposal
gates, strict confirmation, the gate of the impact Lots, the status of the search for alternatives.

Abstractions: words are labels, and shared labels stand for token comparisons; a timestamp is inside or
outside of its window; preliminary candidates, and the mechanism rules that no Tool produces Evidence for, are left out;
no code marks a lane eliminated, so lanes only stay open; the statuses open, unresolved and
alternative_identified of a challenge act alike and are one.

### `FixedWorkflow` – the task graph

The plan of Python or of a model with its validation, the ready tasks in rounds, which findings a task
reads (its inputs, or its dependencies), what makes an agent refuse them, failure of one task, the
recommendations of the improvement agent and the finding the report takes for the cause. Findings are labels,
and equal labels have equal payloads; a finding reviewed by a failing model is the finding.

### The Tools

`MesTools`, `ImpactScope`, `FdcTools`, `SpcEngine`, `QualityTools` and `KnowledgeRetrieval` are pure operators over a
fab, a record of tables of rows. `FabAnalysis` runs them as the four fixed agents do, one Tool call an
action, and keeps what each agent takes of the outputs and the Evidence it records. Where the code depends on the order of
rows in a file, an operator returns every answer that some order gives.

Abstractions: a chamber is its equipment with it, a wafer passes an operation once, lanes are not
ordered by score; a measurement is its distance from the centre in (half) sigmas, because means and deviations are
floating point; a document stands for its best chunk and the scores of words, embedding and reranker
are given, a minimum similarity of 0, the default, lets vector search rank every document in scope; the limit of 80 chunks is never reached; a recipe is an id, with a version beside it; the time of detection is that of the latest quality record;
timestamps can be parsed and have zones; a lookup has no fab to take a time from; assets are numbered in the order of
their names. `KeywordRetriever` over the catalog, used only without a knowledge base, and `validate_preliminary_candidates` are left out. So is the
fallback of the lane of shared resources to modules (`causal_retrieval.py:154-156`): that lane is available only with equipment types
(`causal_scope.py:445-497`), and only available lanes are searched (`causal_retrieval.py:79-81`).

### Proof modules

`RCAJobQueueProofs` (with the refinement of `JobLifecycle`), `JobApiProofs` (event stream and submission), `MemoryApprovalProofs`,
`KnowledgeIngestionProofs`, `LLMGatewayProofs`, `SpecialistProofs` (the local loop of a Specialist, and `FabAnalysis`), `InvestigationProofs`
and `ReasoningWorkflowProofs` (hypothesis gate and fixed workflow) hold the theorems of section 6. Where one module proves about two
components it extends both, which is why `JobSubmission`, `FixedWorkflow` and `FabAnalysis` name their specifications `SubmissionSpec`,
`WorkflowSpec` and `AnalysisSpec`. The `MC` modules hold the values of
constants that a configuration cannot write down, and symmetry sets.

## 4. Runs

Every property of a run is a question about the code that no assignment answers by itself; where one has named
parts, the parts are one question asked of two sides. State counts are distinct states.

| Run | Instance | What it shows |
|---|---|---|
| `queue_race` | 1 job, 2 workers, 3 attempts, lease 2, skew 1 | attempts stay in their budget, an owner is current, a result is of the latest attempt, cancellations hold, events tell the status, commits happen under a lease; 574,898 states |
| `queue_live` | 1 job, 2 workers, 2 attempts, lease 2, no skew | every accepted job ends, requested cancellations take effect, `JobLifecycle!Spec` is implemented, fairness included; 26,593 |
| `event_stream` | 2 writers, 4 events, 2 broken connections | one gap-free order of the table and of what the client sees; all events arrive at a client that stays; 2,662 |
| `submission` | 3 calls, 1 key (or none), 2 requests, 2 tries each | one job per key, faithful answers; 545,256 |
| `memory_approval` | 3 concurrent decisions, 2 engineers, one with two spellings | two engineers; tables, audit, callers and pages tell what happened; `DualControl` is implemented; 464,380 |
| `ingestion` | 3 uploads of 2 contents, 2 engineers, 2 revisions | no content twice and none lost as a duplicate; what is searchable was approved; 714,021 |
| `gateway` | 1 HTTP retry, 1 call retry, 2 outputs, 3 steps | requests are bounded, the queue's verdict fits the call it looks at, only a Specialist's next output attempt repeats a refused request; 3,961 |
| `specialist` | all domains and sets of Tools, allowances 0–3, 2 steps | a fallback always fits, a Finding is complete, the contract is implemented; 52,788 |
| `investigation` | 5 goals, 2 lanes, 2 gaps, one gap round | work is bounded and not repeated, Questions are closed by Evidence, conclusions and stop reasons are earned, the run ends; 454,470 |
| `reasoning` | 2 causes, 6 pieces of Evidence, 8 sets of citations and denials | a supported cause cites what its sources require, no live rival, a failed call never decides, similarity never decides; 378,824 |
| `fixed_workflow` | the plan of Python and 260 of a model | a task reads earlier findings only, failure is of one task, reports and recommendations follow from findings; 44,570 |
| `tools` | 4,309 fabs and requests in families: impact, SPC, holds, quality, knowledge, lookups | one story of an excursion, negative Evidence has records of the Lots it names or is of one of two kinds that are named, baselines from the past, filters and lanes hold; 35,014 |

*Why the bounds are enough.* Queue: two workers are what takeover needs, one stale and one current; three
attempts (the code's own limit) give a first, a middle and a last one; a lease of two ticks has a moment when it is fresh, one
when it is about to expire, and with skew 1 one when processes disagree about it. The theorems cover the rest. Stream: a fourth event adds
nothing to before, at and after the cursor and a terminal row; two broken connections allow a break during the replay
after a break. Submission, approval, ingestion: the third actor is the one that arrives while two others race.
Gateway: each limit is one more than where it bites. Investigation: goals are chosen so that Tool calls run out in the middle of one,
Actions at the end of another, and neither in a third; one gap round shows entering and leaving it; two useless decisions
stop the LLM loop as the code's limit does. Reasoning: two causes are what comparison needs. Plans: the fixed
plan with one task's dependencies or inputs changed, one task missing, or a second task of an agent, which is each way in which validation can be
passed or failed by one step. Fabs: three Lots on one operation with two chambers, four earlier Lots to compare with; constants are scaled
(run lengths 3, Nelson lengths `<<1,3,3,4,3,5,4,3>>`, chart minima and basic baseline 2, top 4, one document per lane), so that each is reached and missed by one.

*Fairness.* Queue: time passes; each worker's loop claims and recovers whenever it is idle (`run_forever` catches every
exception), its workflow ends, its calls return, and `restart: unless-stopped` brings a dead process back; all
weak. Clients, crashes, lost replies and heartbeats owe nothing. Stream: the event loop resumes the generator, and `EventSource`
reconnects and reads. Investigation: `FairSpec` says that the program takes steps until it has
finished, whichever they are; nothing obliges the model to be helpful. The other runs are about safety. Deadlock is checked in the queue runs, `specialist` and `investigation`;
the other runs stop when the work is done.

## 5. Observations

Where the code and a document, a comment or an expectation differ. None of them violates a property of a run, because the properties
say what the code guarantees; where one makes an exception for it, its comment says so. Each was met while modelling.

*Queue and stream.*
- `store.py:1316`: `fail_attempt` stores the partial state of an error also when the job's cancellation was requested; `docs/async-job-queue.md:117`
  says the result is discarded.
- `worker.py:450`: the join of the heartbeat thread times out and a lease names only the worker, so a late heartbeat of an
  ended attempt may shorten the lease of the next one. `OwnerIsCurrent` holds all the same: the worst case is an early recovery.
- `worker.py:359`: the memory candidate is created once, after the commit, and errors are swallowed; a crash leaves a
  supported result without one, which `docs/memory-approval.md:6` does not foresee.
- `app.py:1074`: the stream ends as soon as the row is terminal, which may be before the terminal event was sent
  (`docs/async-job-queue.md:168`). A client that reconnects still gets it (`AllArrives`).
- `worker.py:87`: two processes with one `YIELD_RCA_WORKER_ID` would own each other's leases; `worker.py:294`: a database error in
  `record_progress_event` fails the attempt for good.

*Approval, ingestion, gateway.*
- `memory.py:486`: a page may show a rejection on a candidate that still seems to wait: two SELECTs, READ COMMITTED.
- `knowledge_store.py:275`: an upload whose twin is published between its SELECT and its INSERT is staged although its content is confirmed; its
  publication fails later.
- `knowledge_store.py:343`: after the commit the candidate is read back on a new connection. When that fails the client is told an error for
  an upload that is staged, and its repeat is refused as a duplicate of it.
- `llm_gateway.py:313`: the status code of an earlier try survives a transport error and decides whether the queue retries. A 408 followed by
  a transport error earns no retry, although the provider was unreachable; `RetryIsEarned` says what is guaranteed: nothing is retried
  that did not end with a busy or unreachable provider, and nothing is given up whose requests only met one.
- `specialist_v2.py:907-930`: a Specialist takes every exception of a call for an invalid output and asks again after a 400 or 401.
- `worker.py:107`: the fallback runs inside the `except` of the planner's error (`supervisor.py:1051-1098`), and `_find_nested_error` follows `__context__`: a
  permanent failure of a fallback step is retried as `LLM_UNAVAILABLE`, although the docstring of `classify_worker_error` (`worker.py:112`) says
  that only transient provider failures are. `RetryIsEarned` allows it, in the fallback of a planner only.
- `knowledge_vector_store.py:120`: of two indexers of different revisions the later one overwrites the vectors of the other. Retrieval filters by
  revision, so documents are missed by one of the vector searches until its next sync.

*Investigation.*
- `supervisor.py:410`: after a fallback, a satisfied goal closes every open Question with whatever Evidence there is;
  `docs/question-action-evidence-gating-spec.md` says unrelated Evidence cannot. `ClosedByEvidence` is therefore about the LLM loop.
- The policy judges by the first RCA finding, the cap of the conclusion by any supported hypothesis. `TOOL_HISTORY` Questions can never be closed.
  A single legal gap Action with several lanes raises. A second REASON for one Question is always refused as no gain. A stop of the model may say
  `goal_status` satisfied with another reason and leave Questions open. The docs name three closure groups of `process_mechanism`, the code has four.
- Controlled mode fails on a product window without affected Lots, and on SPC_CHECK with a context.

*Reasoning.*
- `hypothesis_engine.py:1005`: strict confirmation replaces the decision of the gate before it, so a proposal with conflicting physics, or supported by two
  agents only, may be "supported", which `docs/evaluation.md:91-94` calls inconclusive.
- `causal_adversarial.py:214` takes the first proposal for the winner, whatever the comparison says. With lanes, a single candidate can never be confirmed. Challenges
  may cover one candidate only.

*Fixed workflow.*
- A product window without affected Lots fails the default plan. An error of the improvement agent's call fails its task; an error of the report leaves the
  job RUNNING. A model's plan may have inputs that do not follow from its dependencies. With two RCA tasks recommendations may rest on the
  finding that is not authoritative (`report_generator.py:63-66`); of two MES tasks the last one wins.

*Tools.*
- `tool_layer.py:921-924`: with no matching event the cutoff is `max(cutoff, *())`, the greatest *character* of the timestamp; an empty excursion window
  raises in `min()`. A recovery control may be abnormal after the cutoff.
- Negative Evidence: `find_affected_lots` (`tool_layer.py:352-377`) says that no Lot of a product fails as soon as none does, and names the untested Lots in it,
  all of them when no WAT row is conclusive; the Evidence of missing data names these too, and `EvidenceHasBasis` asks for that. `EV_OOC_EVENTS` is negative when no event was recorded, and
  names no Lot. That no Lot was impacted (`impact_lots`) needs rows of the process history, but no measurement of the chamber; a warning alone tells. An advanced
  chart names every Lot of the widened excursion, also those it has no data of (2579-2586), which `EvidenceHasBasis` excepts. A failing WAT row without a fail mode yields no failure Evidence.
  `WARN_WAT_DATA_MISSING` cites an id without the suffix of its scope.
- SPC: profiles never compare the product, although `docs/advanced-spc.md:26-27` says so; two REFERENCE profiles of one parameter give a duplicate Evidence id and
  fail the task; a profile minimum below the chart's, unequal subgroups or no variation raise instead of falling back; the baseline of a profile may include
  analysed Lots (`BaselineIsPast` is about the basic analysis); of two signals of one rule at one time the earlier is lost.
- Genealogy's common group may exclude the source Lot (by recipe).
- Retrieval: the Postgres branches (`hybrid_retrieval.py:288-400`, `knowledge_vector_store.py:202-294`) apply no time boundary, although
  `docs/evaluation-v2-causal-scope-spec.md:136-142` calls it hard; without a causal scope (the default), or without a quality record that has a time, there is none
  at all. Lanes starve when lanes times minimum exceeds the limit, and reranking loses the quotas. The keyword retriever breaks ties in the reverse order of the hybrid one, and over
  the catalog it matches anything. `validate_preliminary_candidates` marks every candidate as supported as soon as any case is found.

*Browser.* In `App.tsx` a late answer to the cancellation of one job is applied to the next, a late failure of the refresh at mount clears the active job and its key, and a report or memory page of one
job may land on the page of another.

## 6. Proofs

The theorems hold for every value of the constants that the named assumptions of the modules allow: any sets of jobs,
workers, calls, engineers, uploads and Tools, any limits. Each proof strengthens the properties to an `IInv` that the next-state
relation preserves, shows `Init => IInv` and `IInv /\ [Next]_vars => IInv'` with one step per action, and combines them with PTL.

| Module | Theorems | Property of a run |
|---|---|---|
| `RCAJobQueueProofs` | `LeasesCohere`, `OwnersAreCurrent`, `ResultsAreCurrent`, `CancellationsHold`, `EventsTell`, `CommitsHoldTheLease` | `AttemptBudget`, `OwnerIsCurrent`, `CompletedResultIsCurrent`, `CancelHonoured`, `EventsTellStatus`, `CommitsUnderLease` |
| | `TypeCorrect`, `CandidatesAreSupported`, `TerminalsAreImmutable` | proved only |
| | `QueueImplementsLifecycle` | the safety part of `ImplementsLifecycle` |
| `JobApiProofs` | `EventsAreInOrder` | `InOrder` |
| | `KeysAreBoundOnce`, `RepliesAreFaithful`; `RepliesAgree` | `OneJobPerKey`, `AnswersAreFaithful`; proved only |
| `MemoryApprovalProofs` | `TwoEngineersDecide`, `EveryoneIsToldTheTruth`, `ApprovalImplementsDualControl` | `TwoEngineers`, `ToldTheTruth`, `ImplementsDualControl` |
| `KnowledgeIngestionProofs` | `UploadsAreDeduplicated`, `ActiveKnowledgeWasApproved` | `Deduplicated`, `ActiveWasApproved` |
| `LLMGatewayProofs` | `RequestsAreBounded`, `RetriesAreEarned`, `RefusalsFailFast`; `TypeCorrect` | `DecisionBudget`, `RetryIsEarned`, `FailFast`; proved only |
| `SpecialistProofs` | `FallbacksFit`, `FindingsAreComplete`, `SpecialistKeepsContract`; `ToolsRunOnce` | `FallbackAlwaysFits`, `FindingIsComplete`, `ImplementsContract`; proved only |
| | `ExcursionsAreOne`, `EvidenceIsGrounded`, `BaselinesArePast`; `AnalysisInvariance` | `ExcursionIsOne`, `EvidenceHasBasis`, `BaselineIsPast`; proved only |
| | `LimitsAreKept`, `LanesAreHeard` | `LimitsHold`, `LanesRepresented` |
| `InvestigationProofs` | `WorkStaysBounded`, `ConclusionsAreEarned`, `EvidenceCloses` | `WorkIsBounded`, `ConclusionIsEarned`, `ClosedByEvidence` |
| | `InvestigationInvariance`, `ActionsStayBounded`, `NothingOutOfOrder` | proved only |
| `ReasoningWorkflowProofs` | `FailuresNeverDecide`, `RivalsAreEliminated`, `ConclusionsAreGrounded`, `KnowledgeIsNoProof`; `GateInvariance` | `FailureNeverDecides`, `NoLiveRival`, `SupportedIsGrounded`, `KnowledgeNeverDecides`; proved only |
| | `InputsComeFirst`, `FailuresAreLocal`, `ReportsAreConsistent`; `WorkflowInvariance` | `InputsPrecede`, `FailureIsLocal`, `ReportIsConsistent`; proved only |

`TypeOK` states the sets the variables of a module range over. It is a conjunct of `IInv` where a proof needs it and no property of
a run, because nothing the code does could be learnt from it.

*The queue.* `IInv` conjoins `RowsOK` (types, `LeaseCoherent`, `AttemptBudget`, `CompletedResultIsCurrent`, `CancelHonoured`, and
`AttemptsFit`: an active job has the attempt that a transaction ends), `ProcsOK` (a busy process knows its job and a numbered
attempt), `OwnerIsCurrent`, which ties the two and lets `complete` and `fail_attempt` check the owner only and still write the
latest attempt, and `CandidateOnlyIfSupported`, which needs `TerminalKept`, proved by the same induction. A lemma per transaction
(`ClaimRows`, `EndRows` for everything that ends an attempt, `RecoverRows`, ...) shows `RowsOK'`, that finished jobs are kept, and
that a row's owner and attempt do not change while it stays owned (`OwnersFollow`). A lemma per process action shows that a process
stays with its job or leaves it (`ProcsFollow`). `OwnerKept` joins them. `EventsTell` needs `TerminalKept` again: what ends a job is
its last event because nothing touches a finished job. The refinement uses `IInv` to see that each transaction moves one job along
one edge of the table, and that the published result is the attempt that was running.

*The stream.* Table and client are two chains. `LockHeld` says that an open transaction holds the row lock and has numbered its
row next to the last one: two writers never hold the same number, and an abort leaves no gap. What the client has seen, the frames
on the wire (`WireFollows`), the cursor and the batch still to send (`BatchFollows`) and the table follow one another without a gap; a
broken connection cuts the chain at `seen`, from where `Last-Event-ID` resumes it.

*Submission.* `SInv` adds `KeyHeld` (an open transaction holds its key alone) and `TryIsFresh` (a try that has not committed has no
row), which is what the uniqueness of `uuid4` gives. `RepliesAgree` then follows: a conflict and an acceptance of equal requests
would need two rows with one key.

*Approval.* `LockOK`: between the reads and the commit of a decision, the call holds the row lock and what it read is still so.
`IdsNormal`: ids are stored in normal form, so that different ids are different engineers; `ApprovalAssumption` asks of the
normalisation that it is idempotent, as `strip().upper()` is. `PageRead`: a page that shows the end of a candidate read it when it had ended,
and decisions made by then stay.

*Ingestion.* No lock spans the duplicate check of an upload and its INSERT, or the reads and writes of an indexer. `AnswersFit`,
`CaseBound`, `DecisionsFit` and `IndexFits` say what may be relied on across the gap: a case that was seen exists, decisions only grow,
what an indexer took for confirmed stays confirmed. `AnswersFit` does not say that a candidate's client
was told of it: a candidate that is staged, or published, may have been answered with an error (`UploadFails` after `Insert`). Uniqueness of contents rests on the two partial indexes alone.

*Gateway.* `Paid`: each repair and each repeated call has paid for one round of `MaxRetries + 1` requests, the running call for
its tries; the rest is arithmetic (`Product`). `RefusalSticks`: a refused decision has a failed call that nothing repeats, or is a
Specialist's, and no call goes on after a refusal.
`Told`, with `ErrorFits` for the error that ends the attempt and for the one in its context: a failed call is one whose last request found the provider busy or unreachable, or
one whose status earns no retry, and such a status was answered by some request; both are kept by the tries that leave an older status in place.

*The Specialist.* `Counted` ties calls to executed Tools and the budget; `ChosenFits` says what being a candidate excludes (a Tool that
ran, an advanced SPC whose fallback has no room); `Observed` and `MesOrder` let a Finding be judged by the Tools that ran
before it.

*The investigation.* `BooksOK` ties the counters of both loops to one goal: what is spent and what an Action would still cost stay
within it, and no fingerprint of an Action is executed twice, also when the controlled loop takes over from the LLM loop with Actions done.
`FactsEarned` and `OrderKept` say that what the policy, the planner's legal matrix and the cap of the conclusion read (Findings, causal levels,
the RCA verdict) was produced by an Action that had its requirements. `ConcludesAtEnd` says that nothing is concluded before the
stop; a conclusion drawn earlier could not be shown to survive the Actions that follow it.

*The hypothesis gate.* The conclusions are decided in one step, from what several calls of the model left behind.
`SearchIsHonest` is the link: a search status that lets the confirmation pass promises that every challenge was resolved and,
with lanes, that the second proposal contradicts its own citations. `CausesDiffer` makes the supported cause name one
proposal, `NothingSearchedYet` starts the chain, `RulesDiffer` does for the rules of Python what `CausesDiffer` does for a model. The
operators of `CausalMatrix` enter through lemmas (`ConfirmedMeans`, `SearchStatusMeans`, `RankingHasFirst`, `ConflictsRemain`): what
Python adds to a proposal never removes a conflict from it. For `FailureNeverDecides`, `ComparisonIsPythons` carries what a failed comparison
left to the decision; `OnePassIgnoresComparison` shows that a ranking with at most one passing proposal has the same first whatever was preferred,
`DecisionIgnoresComparison` that with lanes the search leaves no more than one, and `FirstIsStrongest` that without lanes the matrix with the highest
score among those that pass is concluded (`ScoreIsANumber` makes the scores comparable).

*The fixed workflow.* `WorkflowBooks` conjoins `PlanOK` (an accepted plan is a graph of tasks), `BooksOK` (completed and recorded tasks are the
same, once each, closed under dependencies), `RoundOK` (the statuses say what is completed, running and pending; a ready task has its
dependencies), `FindingsFit` and the two properties. A round always finds a task (`RoundFindsTask`): the tasks that remain would otherwise be a set
without a first one. The fixed plan is a graph because its tasks wait for earlier ones only (`DefaultPlanAccepted`, with the least number of a set,
which `WFMin` gives without induction over data). `ReportIsConsistent` needs two additions: `AdviceRests`, for every plan (the finding behind a
recommendation is recorded and stays the only one of its task), and `DefaultBooks` for the fixed one. `DefaultInputsFit` shows that each
of its seven tasks has the findings it reads as soon as its dependencies are done, although most tasks read more than they wait for. The
assumption on `Proposals` is that a plan is a list of tasks with lists in them and that no task is called "no task".

*The analysis of a fab.* `AnalysisInv` is about the order of the Tools (`InTurn`: none is called twice, so no answer is replaced) and says
that what is kept of MES, impact assessment and FDC is what the Tool answers of these tables and this request (`MesAnswered`,
`ImpactAnswered`, `FdcAnswered`). A property of a state is then one of an operator, proved for any tables:
`ImpactAnswerIsEarned`, `BasicBaselineIsPast`, `HoldsAreComplete`, `UntestedIsNotNormal`, and for the Evidence of each Tool that what is negative
in it has its records (`LotContextIsGrounded` to `QualityIsGrounded`; `NegativeIsGrounded` collects it). What is said of a product is grounded by two
pieces of Evidence together (`AffectedOrUntested`); `OfProduct` holds them beside each other in the invariant. `OneStory` is the part that
needs two Tools: the exposure that impact assessment chose is a row of the Lot's own history, so genealogy, asked for its operation and
chamber, finds no other (`GenealogyFollowsImpact`).

*Retrieval.* `RetrievedLast` says that the hits are those of the request's own query. `SearchFacts`, for each of the three retrievers, and
`LaneFacetsFacts`, for each lane, say that a hit is a document in scope, `FusedFacts` and `RerankedAreHits` that fusing and reranking tell
nothing else. For the lanes, `RankedByBetter` gives every hit of a lane a rank of its own; therefore a lane's share grows by at most one asset
a rank, takes at most `LaneMinimum` new places and is not empty while there is room (`ShareFacts`), and after each lane the selection
has at most `LaneMinimum` places for each live lane that had its turn (`Placed`): there is room for the next.
`CasesAssumption` asks of the tables that they are finite, that a row of the process history has an operation and an equipment (NOT NULL in the
schema), that scores are numbers and that the id of a document is its own; TLC evaluates it on the fabs of the run.

*Only model-checked.* Liveness (`JobsEnd`, `CancelTakesEffect`, `AllArrives`, `Ends`) and the fairness part of `ImplementsLifecycle` are
beyond the prover. Every other property of a run is stated by a theorem. About the numbers of `SpcEngine` nothing is proved: the theorems on SPC
say which rows enter an analysis, and the rules of Nelson are only executed, by the run `tools`.

## 7. Limits

- A transaction is atomic and serial on its row, as PostgreSQL's row locks make it; the in-memory twins of the stores, used in
  tests, are not modelled.
- Two processes configured with one `YIELD_RCA_WORKER_ID` are outside the model: they would own each other's leases.
- Pre-existing legacy rows (`pending`, `skipped`) and the synchronous `save` of inline mode are outside.
- Unbounded in the code and bounded here: tries of a submission (`MaxTries`), events (`MaxEvents`), broken connections
  (`MaxDrops`), heartbeats in flight (one per worker), steps after planning in `LLMGateway` (`Steps`).
- `gateway` and `specialist` are safety runs. That a call ends is the timeout of the HTTP client, and that a Specialist ends its step
  budget, which `DecisionBudget` and the contract bound.
- What a language model answers is free wherever it is modelled: no property relies on its being right.

### Not modelled

- *Browser workspace* (`App.tsx`): React state whose refreshes overlap; no other part depends on it. Its `EventSource` is in
  `JobEventStream`.
- *Inline execution*, a test adapter that runs the workflow inside the request; *HTTP reads, audit and metrics*, projections of
  stored state that no decision reads back.
- *Database schema*: the constraints that matter are part of the actions that rely on them.
- *Evaluation, benchmarks, synthetic data* (`evaluation*.py`, `autonomous_evaluation.py`, `decision_evaluation.py`, `retrieval_evaluation.py`,
  `synthetic_knowledge.py`, `qwen_reliability.py`): offline programs that generate the demonstration tables and score the system.
- Of the modelled files: floating-point statistics (control limits, capability indices, BM25 and vector scores, reranker), parsing and
  formatting (`intent_planner.py`, most of `report_generator.py`, prompts and JSON schemas), and the validators of immutable records in
  `models.py` and `investigation_models.py` beyond what the actions ask of them.

### What could come next

A model of the browser workspace beside `JobEventStream`; `FairSpec` of the gateway and the Specialist with the termination of an
attempt; theorems about the charts of `SpcEngine`, whose statistics would have to be exact for that.
