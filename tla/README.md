# Verification of the incident agent (alph-e)

TLA+ models of the agent's control logic, the TLC runs that check them on small
instances, and theorems about them that TLAPS proves for all values of the
constants. Paths below are relative to the repository; `A` stands for
`agent/src/agent` and `O` for `agent/src/agent/orchestrator`.

## 1. The system

An alert arrives at a webhook, which seeds an `IncidentState` and drives a
LangGraph graph over it. An Investigator (a language model) proposes hypotheses
and names one to look at; a Collectors node posts it as a question to one of
three Go services, which query Prometheus, Loki or Kubernetes and store the
evidence in MinIO; the two alternate until a hypothesis is confirmed, or five
attempts are used. A Planner (a model again) then makes a plan and signs an
`ActionIntent` for it; a Coordinator verifies the signatures, checks the state
once more, executes or escalates, and the run is over. Checkpoints of the state
are kept in Postgres.

| Component | Source | State it keeps | Operations | What is hard |
|---|---|---|---|---|
| Incident graph, routing | `O/graph.py`, `O/routing.py`, `O/nodes/intake.py` | `IncidentState`, next node, superstep count | supersteps, conditional edges | the loop must end below LangGraph's limit; no edge leads back from the Coordinator |
| Investigator | `O/nodes/investigator.py` | hypotheses, focus, attempts | a tick | the model rewrites the list that findings refer to |
| Collectors node, dispatch | `O/nodes/collectors.py`, `O/dispatch/` | findings; cache table | route, look up, post, merge | timeouts, late answers, failures with equal ids |
| Go collectors | `collectors/` | none between requests | validate, query, store, answer | one deadline for all of it; the client may have left |
| Planner, signing | `O/nodes/planner.py`, `A/security/action_intent.py` | intents | decide, sign | a plan that needs no intent, an absent key |
| Coordinator | `O/nodes/coordinator.py`, `O/coordinator/` | actions, phase, executed hashes | verify, preflight, execute, compensate | partial failure, repetition, unverified intents among verified ones |
| `run_once`, checkpointer | `O/run.py`, `O/checkpoint.py` | checkpoints | check, stream, read back | crashes; checkpoints are written behind the run |
| Evidence store client | `A/evidence/client.py` | blobs, metadata rows, schema flag | `put_blob`, `get_blob` | two stores, failing clean-up, concurrent bootstrap |
| LLM client, structured output | `A/llm/` | conversation, retry counts | request, validate, correct | two nested retry loops |
| Dev, Verifier, Reviewer | `O/nodes/{dev,verifier,reviewer}.py`, `O/dev`, `O/verifier`, `O/reviewer` | fix proposal, review | edit, check, review | routing decisions of their own; no edge of the graph leads into them |
| Intake | `A/intake/` | seed state, Slack threads | webhook, Slack mention, slash command | one event loop, which model calls hold; answers after the investigation; repeated requests |

They interact through the state: a node gets the whole `IncidentState` and
returns an update that LangGraph merges. Outside the process they interact by
HTTP (collectors, language model), through MinIO and through Postgres.

## 2. Modules

| Module | Models | Notes |
|---|---|---|
| `IncidentNodes` | every node of the graph and `route_after_investigator` | functions from a state to the merged state; no variables. Every module of the graph, the Coordinator and `run_once` builds on it |
| `IncidentGraph` | one run of the compiled graph | one action per superstep, one per exception that aborts the run |
| `IncidentLifecycle` | abstract: what a reader of the incident is promised | implemented by `IncidentGraph`, and by the checkpoints of `CheckpointedRun` |
| `Coordinator` | one call of the Coordinator, statement by statement | the one-step `CoordinatorNode` of the graph is its contract |
| `CoordinatorContract` | abstract: the Coordinator in one step | implemented by `Coordinator`, which justifies the single step of `IncidentGraph` |
| `CheckpointedRun` | calls of `run_once` by several processes, one after the other or overlapping, with crashes | drives the node functions of `IncidentNodes`, as sets of outcomes, once per process |
| `Intake` | the Slack event handler: deliveries of a mention, posts, investigation, restart | one event loop for all requests |
| `CollectorDispatch` | Collectors node, HTTP request, Go collector, MinIO | implements what `IncidentGraph` takes as one step with two outcomes (`ImplementsCollectorsNode`) |
| `EvidenceStore` | concurrent calls of `put_blob` | |
| `ModelCall` | one `complete_typed` over `Client.complete` | what `IncidentGraph` takes as an answer or an exception |
| `FixReview` | Dev, Verifier and Reviewer in a row | the static edges of `graph.py`; no edge leads in yet |
| `MC*` | instances for TLC | constants, symmetry, and the view of `checkpointed_run` |
| `*Proofs` | theorems | one module per proved component |

### How state and actions correspond to the code

**IncidentNodes, IncidentGraph.** `state` is the `IncidentState` with what
decides anything in it: for each hypothesis id its status, the focus, the attempt
counter, the findings (their hypothesis and whether they record a failure), the
intents (hash and signing key), the actions, and the phase. Texts, scores, time
stamps, the timeline and `services_touched` are left out. The model's answers are
all values of the output schema: `InvestigatorOutput` has any proposed list,
including one that drops known hypotheses and a focus that names none; a
`PlannerDecision` has any plan type and either side of the confidence gate. `next`
is LangGraph's next node. `keys` are the two key variables of the process, set or
not and matching or not. `MaxAttempts` and `RouteAttempts` are the two constants of
the code, `_MAX_ATTEMPTS` of the Investigator, at which the node stops counting, and
`MAX_INVESTIGATION_ATTEMPTS` of the routing, at which the loop is left: both are 5
today, and the modules assume only `RouteAttempts <= MaxAttempts`, without which the
loop has no end of its own.

**Coordinator.** `pc` and `idx` are the place in the code and in its loops; `done`
is the local list of actions, merged into the state only by a `return`; `seen` is
`_executed_hashes`; `applied` and `undone` are what happened to the cluster. The
executor logs and cannot fail today (dry run); the model follows the error path
that the Coordinator has for one that does: a mutation and a rollback may each raise
before or after they took effect. A rollback that raised leaves no action, whatever
it did; `EffectsAudited` says what a reader of the actions may conclude all the same.

**CheckpointedRun.** `log` holds every checkpoint in the order in which the runs
made them, whoever made it, each with the process that has yet to write it (nobody
once it is written, or when its process has crashed). `top` is the newest one in
Postgres, and `cp` what the saver answers a reader: LangGraph orders the
checkpoints of a thread by the time they were made, so a late writer does not hide
a newer checkpoint. A process writes its own in order while later nodes run, and
its stream ends with its queue empty. `Call` may happen again in a process after
any end, up to `MaxCalls`. Nothing bounds the checkpoints that are unwritten while
later nodes run. `applied` is what the cluster has seen over all calls, with the
executions that took effect and were reported as failed. Two histories let an intent
be executed again, and each has its counter: `overlaps`, the calls that found no
checkpoint while another call was driving, which nothing in `run_once` prevents; and
`unseen`, the crashes, in the Coordinator or after it, of a run of which Postgres has
nothing, which a later call cannot know of. A missing verification key makes the
Coordinator raise and leaves the checkpoints that a crash before it leaves; the
passing run therefore has matching keys. `MCView` drops what no action and no
property can tell apart: among the checkpoints that nobody will write, all but the
newest written one, and of those older than that one all but how many each process
still has to write; of the counters, all but what is left of them for another
execution; of a state, the findings and the focus.

**CollectorDispatch.** A tick is one dispatch; `req[n]` is its request as the
collector sees it, which outlives the tick when the client gives up. `left` is the
time to the deadline in seconds; a query takes no time, or all that it is given.
`blob[n]` is what MinIO holds for the request. The id of a finding is `f_` with
its evidence id for a success, and hypothesis and collector for a failure, as in
`_failure_finding`: failures of a hypothesis at a collector are one finding, an answer
is always one of its own. `Outcome` is what a tick that is over was worth, and its
finding must be there, whatever failed before. Only answers to the waiting tick are
read.

**EvidenceStore.** One `pc` per call of `put_blob`, one step per `await`. `IdOf` is
the id each call is given, which calls may share; the insertion is `ON CONFLICT DO
NOTHING`. `lost` are the calls whose insertion Postgres committed and reported as
failed. `NoDanglingReference` excuses a missing blob only where a clean-up was
wrong: it took the blob of another call's row, or its own insertion had taken
effect. Both happen in the instance; without either nothing dangles. The interface
lets two calls have one id; no caller in this repository does it, since the executor
makes a fresh uuid for each call, so in the system as it stands only the lost answer
is left.

**Intake.** A request is a delivery of a mention: Slack repeats one that failed,
was lost or was late, and the handler does not tell them apart. `pc` is the place
of its handler, `outcome` what each of its posts returned or raised, `shown` which
of its messages are in Slack (a post that raised may have arrived), `asked` the
collectors it has asked. All handlers share one event loop: each `await` lets
another one run, but the language model is called through the synchronous client,
so while `thinking` names a request no handler takes a step. The answers of the
collectors and of the model are not told apart, because each of their exceptions
becomes a line of the findings.

**ModelCall.** An answer of the model is its shape. Whether an answer that fits the
JSON schema also validates is computed from the kinds of field it holds, as strict
validation of decoded JSON does. `tries` is the loop of `Client.complete`,
`attempt` the one of `complete_typed`. A turn of the conversation is its role and the
answer it is about. Its blocks are left out, and with them that the corrective
request answers a `tool_use` block with plain text instead of a `tool_result`
(`A/llm/structured.py:185-201`); a provider that refuses it is the action `Refused`.

**FixReview.** `brief` is what the nodes are given: the plan's `target_repos`, the
first confirmed hypothesis, the evidence ids of the findings (the empty one of a
failure finding among them) and whether there is an intent. `attempt`, `answer`,
`tried` and `failed` are the variables of `run_dev`; a text is the set of ids it
contains, and a change is its repository and whether its diff parses. `checks`,
`verdict` and `decision` are the outputs of the Verifier and the Reviewer. The
proposal reaches these two as their interfaces take it (`make_verifier_node(
fix_proposal=...)`, the attribute `fix_proposal` of the state); in the compiled
graph nothing passes it, and `IncidentState` has no field for it. The Verifier's
strict answers fall under `model_strict`; here its model answers any kind.

## 3. Runs

| Run | Instance | Shows |
|---|---|---|
| `incident_graph` | 2 hypotheses, 1 hash, 5 attempts, limit 25, matching / mismatched / missing keys | every run ends, below LangGraph's limit, with the incident closed unless it was aborted (that it ends is part of `ImplementsLifecycle`); no intent without a confirmed hypothesis; no finding or focus dangles; keys that differ execute nothing; resolved only by a remediation or for want of any hypothesis; the lifecycle is implemented |
| `coordinator` | every hypothesis map of 2 ids, every list of at most 3 intents over 2 hashes, well signed or altered | fails closed, touches only on a confirmed diagnosis, once per hash; the actions name what was touched, report nothing that did not happen, and hide a rollback only beside its failed intent in an escalated incident; resolved means all of the list; implements the contract, which is to return |
| `checkpointed_run` | 2 processes, 3 calls, any number of unwritten checkpoints, 1 hypothesis, 1 hash, 2 attempts, matching keys | an intent is executed once over calls and crashes, and once more at most per overlapping call and per crash that left no trace; a call that drove alone reads its own end; the stored incident never goes back while no calls overlap |
| `collector_dispatch` | 2 ticks, 2 hypotheses, 5 forms of question, 30 s, 5 iterations | cited evidence is stored and answers the question; a tick that is over left the finding of its own outcome; a hung Prometheus leaves the time to store; ticks end |
| `evidence_store` | 3 concurrent calls, two of them with the same id, lost answers, a crash | no row loses its blob but by a wrong clean-up; a call is all or nothing; no insertion before the table |
| `intake` | 2 mentions, each delivered up to twice, 2 deliveries in all, a model key, restarts | both collectors are asked unless a post before them raised; a thread ends with results or a call for manual work; the error text, which names the collectors, always means Slack; requests end although model calls hold the loop |
| `model_call` | each output model, 2 API retries | the loops multiply no further; the conversation alternates and corrects the answer it follows; the error is about the last answer |
| `fix_review` | 2 repositories, a hypothesis or none, an evidence id and the empty one | an approval vouches for what Dev and the Reviewer check between them; a blocked report lists every attempt and ends with the last failure |

Four more runs exhibit a disagreement between the code and what the repository
says of it (section 5). Every property of a passing run has a mutant, a changed
definition (each marked "Mutation" in its module) under which TLC finds the
property violated.

### Bounds

`MaxAttempts` and `RouteAttempts` are the code's 5 where the count matters; 2 in
`checkpointed_run` keeps a run of each shape (no loop, one loop, exhaustion).
Two hypotheses are enough for one to be dropped while another is in focus, three
intents for a failure with something before and after it. Two processes are an
overlap, and three calls a crash, a call beside another, and one that finds
their checkpoints. The lag of the saver is bounded by the length of the runs
alone: in the instance a whole run may be unwritten when its process crashes.
Three calls of `put_blob` are one that migrates, one that migrates concurrently
and one that finds the flag; two of them share an id, for which a clean-up can
take the blob of the other's row. Two deliveries are two mentions at once, or
one and its repetition; Slack's own limit is four per mention. Two ticks let one
request be late while another is answered. A query that takes part of its time
adds no order of events to those in the model. Two repositories give a change in
and one out of scope, one evidence id a body that cites and one that does not.

### Fairness

A run of the graph and a call of the Coordinator is one coroutine, which goes on as
long as it can, and each of its awaits has a time limit (30 s for a collector,
120 s for the language model): weak fairness of the next step in `IncidentGraph`
and `Coordinator`, which gives the liveness half of the two refinements (the
abstract specifications are fair too, so the incident is closed or aborted and the
call returns). In `CollectorDispatch` only the client is fair: it takes the
answer, or its timeout fires; collectors, MinIO and the network may stay silent
for ever. In `Intake` each handler is weakly fair for itself: the event loop takes
up every coroutine that can go on, and a model call ends at the time limit of its
client; Slack need not deliver, and the process need not die. `CheckpointedRun`,
`EvidenceStore`, `ModelCall` and `FixReview` assume no fairness and have safety
properties only: a crash or a caller that stays away is an ordinary end there.

## 4. Theorems

Each proof module states an inductive invariant `IInv`, proves that `Init`
implies it and that every action keeps it, and draws the properties from it.

- **IncidentGraphProofs**, for any sets of hypotheses, hashes and keys and any
  attempt bounds with RouteAttempts <= MaxAttempts and
  2 * RouteAttempts + 1 <= RecursionLimit: `TypeCorrect`,
  `IntentsAreJustified`, `EvidenceHolds`, `StaysInBudget`, `Closes`, `FailsClosed`,
  `ResolvesForAReason`, `FollowsLifecycle`, the safety part of the refinement, and
  `KeepsItsRecord`: no superstep and no exception loses a hypothesis, a finding, an
  intent or an action, although the model rewrites the list.
  The properties are not inductive: the invariant adds which phase each node is
  entered with (`PhaseOfNode`), that actions come only from the Coordinator and
  intents only from the Planner, with its key, and how many supersteps so many
  attempts have taken (`StepsOfAttempts`).
- **CoordinatorProofs**, for lists of any length: `TypeCorrect`, `FailsClosed`,
  `TouchesOnConfirmed`, `AppliesOnce`, `ResolvesComplete`, `AuditsEffects`,
  `FollowsContract`, the safety part of the refinement, and `WorksBoundedly` (at
  most `2 * Len(intents) + 4` steps). The invariant relates the
  loop index to what has been verified (`VerifiedSoFar`) and executed
  (`ExecutedSoFar`); for the contract it says in addition what the local list of
  actions is at each place (`LocalList`). `AuditsEffects` covers an executor that
  raises after its effect, in a mutation or in the rollback.
- **CheckpointedRunProofs**, for any finite set of processes, any number of calls,
  any hypotheses, hashes and attempts, and however far the saver lags: `TypeCorrect`,
  `ReadsItsEnd`, `ExecutesOnce`, and `StoresLifecycle` (the stored checkpoints
  implement the lifecycle). The invariant `IInv` says that what a run has made is in
  its queue until Postgres has a checkpoint (`ProcessSound`), that at most
  `1 + overlaps` processes drive, and that without an overlap the newest checkpoint is
  that of the one run. `ExecutesOnce` adds a budget (`ExecutionsCounted`): the
  executions so far and the runs still able to execute (`Able`) are at most
  `1 + overlaps + unseen`. A call that starts to drive adds to the runs that are able,
  and finds Postgres empty; so it must be known that as long as it is empty, what was
  executed was by runs that are at END and wait for the saver (`AtEnd`), beside which
  the call is an overlap, or by runs whose crash left no trace.
  `StoresLifecycle` adds that what is written next follows from what is stored:
  without an overlap, the newest stored checkpoint and the queue of the one run
  are the end of the log, without a gap, and each checkpoint leads to the next by a
  step or a stutter of the lifecycle (`InOrder`, `Trail`, `Leads`). That a superstep
  leads on so needs the phase and the diagnosis that each node is entered with
  (`Reached`).
- **EvidenceStoreProofs**, for any number of calls, with ids of their own or
  shared, and any answers lost: `TypeCorrect`, `NeverDangling`,
  `StoresAllOrNothing`, `InsertsIntoTable`, and `KeepsWhatItReturned`: once a call
  has returned an id of its own, no step of anybody takes the row or the blob away.
  The invariant says whose blob and whose row an id has, at each place of its calls
  (`BlobOfCall`, `OwnBlob`, `RowOfCall`).
- **ModelCallProofs**, for any retry setting: `TypeCorrect`, `StaysWithinBudget`,
  `ConversesSoundly`, `ExplainsLast`, and `WorksBoundedly` (at most
  `(max_retries + 1) * (ApiRetries + 3)` steps). The invariant counts the requests of
  the attempts so far (`SentSoFar`).
- **CollectorDispatchProofs**, for any number of ticks, any deadline and at least
  two iterations: `TypeCorrect`, `CitesStoredEvidence`, `FindsUniquely` (no id twice
  in the findings), `LeavesTimeToStore`, `RecordsEveryTick`,
  `ImplementsCollectorsNode`, and `WorksBoundedly` (at most four steps for the
  question of a tick, those after its timeout included). The invariant says which
  requests have stored (`RequestsSound`) and that cited ones are over
  (`CitedStored`). `RecordsEveryTick` rests on a second one (`AllRecorded`):
  findings only grow, the question of a tick stays, and so does its answer once a tick
  that waits has got one; each of the three ends of a tick merges the finding of its
  outcome. `ImplementsCollectorsNode` says that the step that ends a
  tick is `CollectorsNode` of `IncidentNodes`, with one of its two outcomes, from
  every state of the graph with the tick's focus and findings, and that no other
  step changes the findings as the graph sees them. The graph tells findings apart
  by hypothesis and failure; the node tells them apart by id, and drops one whose id
  is known. `IdsSay` therefore adds that the id of a finding says what the graph sees
  of it, so that a dropped finding is one the graph has already. The constants
  `Hashes`, `Keys`, `Unset`, `MaxAttempts` and `RouteAttempts` of this module are those of the
  graph's nodes.
- **FixReviewProofs**, for any sets of repositories, hypotheses and evidence ids:
  `TypeCorrect`, `ApprovesSoundly`, `ReportsCompletely`, and `DecidesOnce`: Dev leaves
  a proposal or a blocked report, never both, no later node changes it, and the path
  takes at most seven steps. The invariant says what each place in the code knows of
  the answer, the proposal and the two lists.
- **IntakeProofs**, for any mentions, any limits on deliveries, with or without a
  model key: `TypeCorrect`, `Investigates`, `Concludes`, `BlamesSlack`, and
  `WorksBoundedly`: a delivery takes at most nine steps of its handler, and nothing
  sends a request back, no post that raises, no restart and no model call of another
  one. The invariant says of each request what it has asked at its place, what its
  thread shows, and what must have been raised before the error (`Sound`), and that
  the request that holds the loop waits for the model (`LoopHeld`).

`WorksBoundedly` and `DecidesOnce` are the half of termination that is safety: a
number that no step raises and every step lowers, so that no retry and no failure
goes round for ever. For the graph, `StaysInBudget` and the step count in
`KeepsItsRecord` say the same. That a next step is taken at all is fairness, and
stays with TLC.

`FindsUniquely`, `KeepsItsRecord`, `KeepsWhatItReturned`, `DecidesOnce`,
`ImplementsCollectorsNode` and the `WorksBoundedly` theorems state what no run's
configuration lists.

Only model-checked: liveness (`RequestEnds`, `TickEnds`, and the liveness half of
`ImplementsLifecycle` and `ImplementsContract`), which is beyond the prover. The
disagreements of section 5 are counterexamples that TLC finds. A proof about
`CheckpointedRun` restates the facts it needs about the nodes rather than use those
of `IncidentGraphProofs`, whose module has variables of the same names.

## 5. Where the code and its documents disagree

- `incident_exhausted`: an investigation that uses up its attempts without one
  hypothesis is reported as resolved; the Coordinator's docstring says escalated.
- `checkpoint_unfinished`: after a crash `run_once` returns the middle of the run
  and never drives it on; its docstring says the final state.
- `model_strict`: strict validation rejects every Investigator answer that lists a
  hypothesis, and every Verifier answer, because JSON has no enums and no times.
  `IncidentGraph` takes any valid `InvestigatorOutput`, which is what the tests
  inject and what the code means; with the client as it is, only empty lists
  validate.
- `collector_null`: Prometheus and Loki answers carry `null` for their follow-ups,
  do not parse, and become failure findings.

Three more are shown by passing runs: the property is what holds of the code, and the
document says more or otherwise.

- `incident_graph`: rule 1 in the docstring of `check_preflight`
  (`O/coordinator/preflight.py:48-50`) treats a state without intents "the same as
  already-resolved if any confirmed hypothesis exists, otherwise parameter_drift". The
  code does the opposite (lines 59-74), and the unit test
  `test_no_intents_confirmed_hyp_parameter_drift` agrees with the code: without any
  hypothesis it is already resolved, with one, confirmed or not, the drift is escalated.
  `ResolvedForAReason` is the code's rule. The docstring's is the definition
  `PreflightAsDocumented`, under which the run violates it: an incident with a
  confirmed diagnosis and no remedy would be reported as resolved.
- `checkpointed_run`: `docs/devops-agent-architecture.md:189` says that the hash is the
  idempotency key "so retries cannot fan out duplicate mutations", and `O/run.py:4-6`
  that with a second call "no nodes re-execute". The seen-set lives in one call of the
  Coordinator, and a prior checkpoint stops a call only if it is in Postgres. A process
  that dies after the mutation while all of its checkpoints are unwritten is followed
  by a second execution, in a call that overlaps nothing (`unseen`); two calls that
  start together both execute (`overlaps`). `ReexecutedOnlyUnseen` needs both terms.
- `coordinator`: `docs/devops-agent-architecture.md:195` says that the forward and the
  compensating actions are recorded. A `compensate()` that raises after its effect
  (`O/nodes/coordinator.py:259-272`) records a reason and a timeline event and no
  action. `EffectsAudited` says what is left to conclude.

More readings of the models, without a run:

- `FixReview`: rule 3 of the policy asks for the evidence id of a finding in the
  body; the id of a failure finding is empty, and so in every body. `ApprovedIsSound`
  says what an approval vouches for in either case.
- `Intake`: "Always run investigation, regardless of Slack posting success"
  (`A/intake/slack.py:391`) holds of a post that Slack refuses, not of one that
  raises: the announcement is outside the `try`, and the status is inside it but
  before the collectors. `InvestigatedUnlessPostRaised` is what remains.
- The slash command answers "I'll post updates" (`A/intake/slack.py:468`) and
  `A/intake/webhook.py:3-5` says that the seeded states are handed to the
  orchestrator; both seed a state and do nothing more with it (a TODO).
- `EvidenceStore`: the compensating deletion of `put_blob` can itself break the
  ordering invariant of the client (see `NoDanglingReference`).
- `Coordinator`: after a failure in a list of intents only the failed one is
  compensated (`ExecuteFails`, `Compensate`), while
  `docs/devops-agent-architecture.md` says that partial success is inverted.

## 6. Not modelled, and why

- The cache of the Collectors node: its key contains the current time, so no tick
  finds what another stored.
- The skeleton `dev_node`, `route_after_verifier` and `route_after_reviewer`, which
  nothing calls: a loop over them would be a model of the plan, not of the code.
- The alert webhook and the slash command beyond the seed state: they validate,
  answer and keep nothing. Severity and service, taken from the text, decide
  nothing that is modelled.
- `get_blob`, a read, and `record_metadata`, an insertion that only tests call.
- The reduction of query results and the query languages of the collectors,
  escalation packages, prompts, logging and metrics, the command line, the
  manifests and the demo application: no control logic, or output only.
- Approval: the documents bind execution to a human approval and an expiry; no node
  reads either. It is listed as a hazard.

## 7. Plan

The order was: the graph and its nodes; the Coordinator behind its one-step
contract; `run_once` over checkpoints; the evidence path and the model call; the
fixing path; then the Slack intake, overlapping calls of `run_once`, shared
evidence ids, and the theorems on the Coordinator's contract and on `run_once`; last, the
theorems on the stored lifecycle, on the dispatch as the graph's Collectors node, on
what is kept, and on bounded work.
What is left:

1. `CollectorDispatch`: the parsers' outcomes, and a property on the routing of
   questions (the registry's prefixes and the collectors' are not the same).
2. The facts about the nodes that `IncidentGraphProofs` and `CheckpointedRunProofs`
   both prove, in a module without variables that both extend.
3. A bound on the work of `CheckpointedRun`: its calls, supersteps and writes
   together.
4. When the code has them: the hand-off from the webhook to `run_once`, the
   approval gate, a cache key that two ticks can share, and edges into the fixing
   path.
