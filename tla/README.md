# A TLA+ model of the optimization control plane

This directory holds TLA+ modules translated from the code under
`src/production_optimizer/` and `scripts/`, TLC configurations that check them
on small instances, and proofs checked by TLAPS. Paths below are relative to
the repository's root; `application/`, `adapters/`, `orchestration/` and
`contracts/` are in `src/production_optimizer/`.

Contents: [the system](#the-system), [modules](#modules-and-the-code),
[runs](#runs), [bounds](#bounds-and-abstractions), [fairness](#fairness),
[proofs](#proofs), [what disagrees](#where-the-code-and-its-documentation-disagree),
[not modelled](#not-modelled), [what is open](#what-is-open).

## The system

The program optimizes a repository in *cases*. Lane A takes a request made by
hand: A1 completes and approves it, A2 measures a baseline on a snapshot of the
source, A3 has a model explain what breaches the criteria and propose
strategies, in up to three passes. Lane B starts from a scan: B1 qualifies a
signal, writes the request itself and has A2 measure it; B2 takes the
opportunity through A3 and, where it touches code, to its owner. Both converge
at C0, which checks the artifacts' links and freshness. The *shared
workflow* then ranks the candidate strategies (S01), plans (S02), and runs a
loop that implements a phase in an isolated workspace (S03), verifies it (S04),
measures it again (S05) and decides (S06): KEEP applies the patch to a branch
of the user's repository and goes on to the report (S07), FIX_ONE_PART and a
failed verification go back to S03, REVERT goes back to S01. Each stage is a
LangGraph subgraph of nine or ten nodes.

| Part | State | Operations | What makes it hard |
|---|---|---|---|
| Node runtime (`application/node_runtime.py`) | none of its own | derive the key, get, prepare, run the handler, store, complete, commit | dies between any two; several processes on one key |
| Intent ledger (`adapters/production/postgres_intent_ledger.py`) | `node_intents` rows | prepare, get, complete, mark_unknown | guards in SQL only |
| Artifact store (`s3_artifact_store.py`) | objects by digest | put_json, read | an artifact sealed again has another digest |
| Case state (`contracts/state.py`) | `OptimizationState` | reducers that raise on a conflict, last-value channels | nodes revisited by loops |
| S01 to S07 (`application/s0*`) | their fields of the state, artifacts | 64 node handlers | artifacts of several passes side by side |
| Graph (`orchestration/shared_workflow.py`, `subgraphs/`) | control | inner and outer edges, two caps | edges read stale state |
| Resume (`application/resume.py`) | `resume_*`, `pending_interrupt` | authorize, resume | what a halted node does when the case goes on |
| Host | workspaces, git branches | made and removed by S03, S05, S06 | crash between making and recording |
| Lanes A, B, C0 (`application/a*_handlers`, `b*_handlers`, `c0_handlers`, `orchestration/lanes.py`, `root_graph.py`) | their fields of the state, artifacts, worker jobs | 54 nodes of A1 to A3, those of B1 and B2 with A2 and A3 mounted in them, seven of C0 | A3's revision loop; halts and restarts that run a case from its start through the ledger; a source that moves |
| Worker brokers (`local_worker_broker.py`, `kubernetes_worker_broker.py`) | futures by job id, Job objects by name | submit, cancel, reconcile | late answers, callers that start over, names that collide |
| Outbox, case repository (`postgres_outbox.py`, `postgres_case_repository.py`) | tables | publish, claim, mark; create, set_status, request_cancellation | several dispatchers, dying between two calls |

They interact through three things: the case state that the reducers merge, the
ledger that decides whether a node runs or is replayed, and the artifacts by
which a node of one stage names what another stage has sealed. `PROJECT.json`
lists the components with their status and, under `hazards`, every place found
so far where this can go wrong, with the property that would show it.

## Modules and the code

| Module | Models |
|---|---|
| `OnceOnly` | the promise of idempotent execution, without ledger or processes: for each key one execution is chosen, and its callers get that one |
| `NodeRuntime` | `NodeRuntime._execute_idempotent` over ledger and store; one step per SQL statement or store call; any executors race on the keys in `Shared`, the others are called for by one executor at a time, as `scripts/run.py` drives a case |
| `RouteHistory` | `_next_route_key`, `_latest_route_key`, `route_for`, `merge_node_routes` as operators on one node's routes; key `X` is slot 1, key `X#n` slot n |
| `NodeRoutes` | the `node_routes` channel within one graph run |
| `NodeExecution` | what a handler returns, `merge_artifact_refs` and the other reducers; shared by the lanes and the workflow |
| `LaneState` | the state of a case in the lanes, artifact ids, `_require_ref` |
| `A1Request`, `A2Baseline`, `A3Portfolio`, `B1Discovery`, `B2Proposal`, `C0Converge` | one operator per node of the stage: the executions its handler may return in the present state |
| `Lanes` | the root graph and the graphs in it, keys, replay, resume without a checkpoint, retry, crash, a source that moves or is lost; every property of the lanes |
| `JobService` | what the `WorkerBroker` port promises: a caller is handed outputs of its own job |
| `WorkerBroker` | both brokers, the runs they start, the handlers that submit and poll, expiry and restart |
| `Outbox` | `PostgresOutboxAdapter`, `PostgresCaseRepository` and dispatchers that poll the one and create cases in the other |
| `CaseState` | the state of a case in the workflow, artifact ids, sealing |
| `S01RankSelect` ... `S07Report` | one operator per node: the set of executions (route, updates, sealed artifacts, host) its handler may return in the present state |
| `SharedWorkflow` | the graph, keys, replay, execution and crash of a node, the driver's legs, resume; every property of the workflow |
| `MC*` | instances for TLC |
| `NodeRuntimeProofs` (of `NodeRuntime` and `NodeRoutes`), `WorkerBrokerProofs`, `OutboxProofs` | theorems |

**Composition.** `SharedWorkflow` extends the chain `CaseState`, `S01RankSelect`,
..., `S07Report`, and instantiates `RouteHistory`. A node's action is
`Node(s, i, execs)`: the execution recorded under its idempotency key is
replayed, or one of `execs` happens and is recorded, or the process crashes
after the handler's effect on the host and before the record. That this is the
right picture of the runtime is what `NodeRuntime` shows in detail: for a key
called for alone the recorded execution is the only one ever committed
(`ImplementsOnceOnly`), and a crash before it is recorded may repeat the effect.

`Lanes` extends `B1Discovery` (over `A1Request`, `A2Baseline`) and `B2Proposal`
(over `C0Converge`, `A3Portfolio`) in the same way. Its graph has no
checkpointer: `Resume` is the branch of `resume_case` that drops the halted
node's route, interrupt and artifact, counts the resume in the key, and sends
the state through the graph from START, where the ledger replays every other
node. A retry or a restart does the same from the case's first state. The worker
jobs A2.50 submits are on the host; a crash takes them, as it takes the local
broker's memory. `WorkerBroker` has the brokers themselves in detail.

**Artifacts.** Sealing stamps `created_at`, so sealing twice gives two digests.
`clock` numbers the seals and stands for the digest. An id is
`<<type, phase, pass>>`. Reading an artifact that was not sealed raises, as
`_require_ref` and `_require_stage_ref` do; `pc = "raised"` is the end of the
driver's run. In the lanes `First` is the `_require_ref` that takes the first of
several artifacts of a type.

**Choices.** The answers of the model provider, the policy and the workers are
nondeterministic, and each may fail as the handlers see it fail: the model with
an unusable reply or an exception, the policy with a denial, a job by being
refused, by not answering, or by raising. So does what the host does: a git
command fails, a directory cannot be copied or is not removed, a branch stays
because its deletion is best effort, a source cannot be read.

## Runs

Passing runs:

| Run | Question | Answer |
|---|---|---|
| `runtime` | three executors over two keys, one that they race on and one that is called for alone; they crash and fail at every line | of both: a completed intent stays completed (`NeverDowngraded`) and its output readable (`CompletedReadable`), every effect has an intent (`IntentPrecedesEffect`), every commit has a completed one (`CommittedIsCompleted`). Of the second: the once-only promise holds (`ImplementsOnceOnly`), a completed key has no further effect (`NoEffectAfterCompletion`), the handler's own exception gets out (`UnknownFindsPending`) |
| `routes` | two nodes revisited with four routes | edges read the last route (`RouteForIsLast`), the reducer never raises (`NeverConflicts`), history is kept (`HistoryKept`) |
| `workflow` | a whole case, with both loops, halts, resumes by approval and rejection | see below |
| `workflow_crash` | the same with one crash, one lost workspace, one that is not removed, and a second check kind | the properties that do not depend on the host being tidy, and how untidy it gets (`OneWorkspace`) |
| `lanes` | nineteen cases through both lanes and C0 | see below |
| `brokers` | three jobs, two of them with one name, on either broker | a caller gets outputs of its own job (`ImplementsJobService`); Kubernetes runs a job again only after its Job is gone (`RunsOncePerEntry`) |
| `outbox` | two events, two dispatchers, failures and a crash | a claim may be shared, a case starts once (`HandoffStartsOnce`); every published event is delivered (`EventuallyDelivered`) |

In `workflow`, besides the type invariant: a KEEP rests on the verification,
comparability, effects and guardrails of its own phase and pass
(`KeepIsEarned`); a branch in the user's repository holds a kept patch or
nothing but the base revision (`BranchWasKept`); a result that says applied is
true, and every branch comes from an apply that the policy or the owner allowed,
also where a failed one could not be cleaned up (`ApplyResultIsTrue`); no loop makes a reducer raise (`NoRefConflict`); tasks
count as completed only after a passing verification (`CompletedIsVerified`);
a sealed patch passed scope and
sanitation (`PatchIsClean`); a case waiting for the apply approval does not go
on (`PendingApplyHalts`); a report's decision, applied flag and list of repairs
are those of the case (`ReportIsComplete`); the caps hold (`LoopsBounded`) and
every case stops (`Terminates`).

`workflow_crash` leaves out two safety properties that a crash really breaks.
`PatchIsClean` fails when S03.60 or S03.70 dies after removing a rejected
workspace, since the rerun compares and scans no file; `ApplyResultIsTrue` when
S06.90 dies after its commit, since the rerun cannot add the branch again. What
still holds is that nothing of this is kept, branched or reported without its
evidence: S04.10 refuses the missing workspace, and the branch holds the patch
that was kept. `OneWorkspace` says that the retries leave no workspace but the
recorded one, and that every other directory has something of its own to blame:
a crash (S03.20 dies after `mkdtemp`), a removal that failed silently
(`host.leaks`), or the S03.20 that raised after `mkdtemp` and ended the case.
Liveness is left out: see the S04.10 hazard in `PROJECT.json`.

In `lanes`: neither a restart from the ledger, nor a revision of A3, nor the
first resume of an invocation makes `merge_artifact_refs` raise
(`FirstResumeIsSafe`; the second resume does, which is the run `lanes_resumed`);
a manual request carries what its requester stated, approved on the artifacts it
was built from (`RequestIsTheRequesters`); a baseline is of the approved
revision, linked to its request, with evidence for every mandatory requirement
and, where a benchmark command contributed, the samples it asked for
(`BaselineIsGrounded`); evidence comes from submitted actions, and a command the
model proposed runs only after an approval (`EvidenceIsAuthorized`); a portfolio
is the one its passing report judged, its findings rest on evidence, and its
passes are within the attempts and the model's budget (`PortfolioIsJudged`); a
proposal that touches code was approved and, without a restart and with a source
that B2.31 could read, its source was current when B2.31 looked
(`ProposalIsReviewed`); a converged case is whole and of one origin
(`ConvergedIsSound`); and every invocation ends (`InvocationEnds`). A proposal
sent back with `revise` is in the model, and `FirstResumeIsSafe` and
`InvocationEnds` except it by name (`SentBack`), since the code conflicts or
circles there. `answers` outlives a restart, so that an approval counts in
whichever invocation of the case it was given.

Each property has a mutant, a plausible bug in the definition it guards, under
which TLC finds it violated; `PROJECT.json` lists them.

## Bounds and abstractions

- `MaxPhaseRepairAttempts` is 3 (2 with crashes) for the code's 5 and
  `MaxS02Revisions` is 1: each loop goes round, after either kind of failure, and
  reaches its cap. The code compares the counter with the
  constant and uses it nowhere else.
- Three portfolios: nothing usable, one usable strategy, and two, one of which
  needs the owner's approval. Two criteria, one over an exit code and one over a
  benchmark, and a guardrail on each.
- Three drafts: one phase with metadata to be filled in, two phases with a
  dependency, a dependency cycle; and a model that gives no usable draft. A
  missing risk tier is filled from the strategy's tier, for the code's phase
  template.
- `MaxSlots`: the longest route history; `MaxCalls`: calls per key, one more
  than the executors that race;
  `MaxRounds`: benchmark rounds; `MaxCrashes`, `MaxLosses`, `MaxLeaks` (removals
  of a workspace that fail): one each in `workflow_crash`, where the plan always
  has two phases, for the size of the state space; two crashes in one case are
  not covered.
- An edit is `clean`, `stray` (out of the plan's scope) or `unclean` (refused by
  sanitation). Scores are integers, with the weights of `_BENEFIT_WEIGHT` and
  its neighbours scaled. Statistics are a mean and a sample count.
- `completed_nodes` is a set, as `merge_node_ids` makes it. Routes are recorded
  only for the nodes that some edge reads.
- Lanes: `MCCases` has a case for each way through A1 and A2 (structured and
  raw requests, a repository without tools, a metric nothing can measure, a
  recipe, a Compose evaluation, a missing build, three refused intakes), five
  scans, a requester whose case halts twice, and three hand-overs to B2, one of
  which comes back from its owner with `revise`. Two resumes per invocation
  (`MaxResumes`; one in `lanes_revised`), one restart (`MaxRestarts`), after an
  exception anywhere or a crash at one of five places (`CrashPoints`: three while
  A2's workers run, one of them in a scan, one in a revision of A3, one before C0
  looks at the clock), one commit to the source (`MaxCommits`), before it is
  compared with a revision or between A2.20's two looks at it, and one source
  that can no longer be read when B2.31 looks (`LossPoints`).
  `MaxRevisionAttempts` is the code's 3. `MaxTokens` cuts the circle of a
  proposal that was sent back; no other case spends as much, or `InvocationEnds`
  would fail.
- Two answers are left out of `lanes` for its size, as nothing later tells them
  from one that is in: A3.50's judge accepts or fails (`Verdict`), for a finding
  it rejects is kept like an accepted one, at a trust that nothing reads; A1.90's
  policy is absent or denies (`ApprovalPolicy`), for where it allows, the case
  goes on as an owner's own request does, and where it asks, it halts as a
  requester's does.
- The branches of a fan-out run in the order of their ids: each reads what came
  before the fan-out and seals artifacts of its own. Model budgets are integers,
  and one call takes `CallTokens`.
- Brokers: three jobs, of which two have one Kubernetes name and one lacks a
  local capability, one worker thread, so that a job waits; `MaxRuns` 3 lets a
  job run, be forgotten and run again beside another, `MaxRetries` 1.
- Outbox: two events, available at different times, two dispatchers, a claim
  limit that takes both, `MaxAttempts` and `MaxCrashes` 1.
- Symmetry is used in `runtime` alone, over executors and over the
  two valid outputs, which the module never tells apart; no liveness is
  checked there.
- `CHECK_DEADLOCK FALSE` stands in the runtime and broker configurations only:
  when the calls, runs and retries are used up, everyone may be idle for good. In
  the workflow and the lanes a stopped case stutters explicitly, and any other
  stop would be reported.

## Fairness

`Spec` of `SharedWorkflow` has weak fairness on `Progress`: the next node, the
driver's next leg, or the answer to an interrupt. A node runs as soon as the
one before it has committed, in one thread; the model, policy and worker calls
it makes have time limits or raise; `_auto_resume_until_terminal` answers each
interrupt at once. Nothing is assumed of crashes, losses, or of what is
answered.

`Lanes` has weak fairness on `Invocation`, the next node of the graph, for the
same reasons; nobody has to answer an interrupt or to retry. `Outbox` has it on the clock
and on each dispatcher's own steps (claim, its return, create, mark_delivered):
a dispatcher polls in a loop. No fairness is given to publishing, to failures or
to crashes, and an event fails at most `MaxAttempts` times. The runtime's, the
routes' and the brokers' specifications have no fairness, and only safety is
checked of them.

## Proofs

`tlapm` on each of the three `*Proofs` modules checks them. They hold for every
set of executors, keys, outputs, nodes, routes, jobs, names, events and
dispatchers and every bound, from the modules' `ASSUME`s only (the null values
are not values, the refused outputs are outputs, a job's name is a string, an
event is available by the end of the clock, the bounds are natural numbers).

*Any number of executors on a key.* `RuntimeInv` adds to the four invariants
what each executor knows at each line (`Knows`): after `prepare` its row exists,
after `put_json` its output is stored, when it commits its intent is completed.
None of the four is inductive without this: `complete` writes an output into the
ledger that only the executor's own past has put in the store. `StepIsMonotone`
shows once that no step shrinks the store, loses a row or downgrades one, so
the others' knowledge survives (`OthersStillKnow`); `RuntimeStep` then goes
through the actions. `TypeCorrect`, `CompletedIsReadable`, `EffectHasIntent`,
`CommittedHasCompleted` and `CompletedIsFinal` follow.

*Keys called for alone.* `AloneInv` adds ownership of the keys outside `Shared`
(`Owns`): only the executor holding such a key changes its row (`OwnRowOnly`), so the row it prepared is still
pending when its handler is done. From it: `HandlerErrorSurvives`,
`CompletedIsEffectFree`, and `RuntimeImplementsOnceOnly`, with the refinement
mapping `chosen <- ledger[k].ref` over those keys: `Complete` chooses, `Commit`
returns, every other step, and every step on a shared key, stutters. With
`Shared = {}` this is the whole runtime driven by one process per case.

*Routes.* `RoutesInv` says that the slots in use are contiguous and the last one
holds the last route. `FreeSlotIsNext` and `CommitExtends` show that a commit
appends to them. `EdgesFollowLastRoute`, `MergeNeverRaises` and `RoutesOnlyGrow`
follow. Contiguity is exactly what a resume without a checkpointer, which pops
the plain key, destroys.

*Brokers.* `RunsOncePerEntry` is not inductive: it does not say which run the
Job object that is still there belongs to. `RunsAreAccounted` does: the runs of a
job are at most those forgotten plus the one kept (`Kept`). `FuturesAreOwn` says
that a local future is of the job it is stored under. One lemma for each way a
step changes the table (`StatusStep`, `DropStep`, `BeginStep`) carries them
through the actions. `KubernetesRunsOnce` follows; `BrokersImplementJobService`
shows with `StepImplements` that a run's success is `Produce`, a reconcile that
finds its own run succeeded is `Answer`, and every other step stutters. On
Kubernetes this rests on the idempotency key that reconcile and submit compare,
and not on the names.

*Outbox.* The invariant ties everything to the row in the case index: it exists
exactly when the case was started once, and whoever handled or delivered an event
found or made it. Nothing is needed of the locks, which is the point:
`OutboxStartsOnce` holds although a claim is shared.

Only model-checked: everything about `SharedWorkflow` and `Lanes`, whose
handlers are too many for a hand-made inductive invariant here, and every
liveness property, which is out of the prover's reach.

## Where the code and its documentation disagree

Five runs expect a violation; `PROJECT.json` quotes the sentence each refutes.

| Run | What happens |
|---|---|
| `workflow_approval` | S06.90 takes the plan's approval, still in `resume_command`, for its own |
| `workflow_revert` | after a REVERT the nodes of S01 are replayed: their keys have no pass number |
| `workflow_fix_keep` | after FIX_ONE_PART, S06.90's no-op is replayed on the pass that decides KEEP |
| `lanes_revised` | after a revision of A3, C0 reads the failed quality report of pass 0 and rejects the passed portfolio |
| `lanes_resumed` | a case that halts at A1.90 and then at A2.40 conflicts on its second resume: A1.90 replays the halt it recorded before its approval |

`workflow_revert` and `workflow_fix_keep` answer every interrupt with an approval,
as the driver does; the other runs answer either way.

The model shows more that has no run of its own:

- A crash after a handler's effect and before `complete` repeats the effect; the
  runtime's properties say that this is the only window.
- `resume_case` without a checkpointer pops only the plain route key: a node with
  `#n` routes would be read by an old one.
- Exit code -1, a command that never ran, meets a `minimize` target of 0 (S06).
- After a restart `:resume1` is taken, and an approval given before it is replayed
  over a rejection.
- S06.90's cleanup is best effort: a branch may stay beside a result that says
  applied=False, with the patch in it if the commit was made and only the last
  `rev-parse` failed.
- A source that B2.31 cannot read (no directory, a git error, a timeout) counts as
  current. A commit between A2.20's `rev-parse` and its capture gives a snapshot
  whose files are not those of its revision.
- `_auto_resume_until_terminal` (`scripts/run.py`) answers A2.40 with `revise`,
  which changes nothing, and does not end.
- A3.41 counts a citation as support only if its number is not zero, so a breach
  measured as zero never becomes a finding; `_evidence_supports_claim`, which
  picks what the model may cite, says that "a real zero" is "just as valid".
  A3.51 keeps findings its judge rejects.
- C0.50 looks for the current revision in A2's own copy of the tree, which no
  commit changes, so its source is always fresh; B2.31 is the only check of the
  source after its snapshot.
- A2.90 counts items that are not numbers, A2.95 aggregates numbers only; and one
  sample is enough for a sampled metric if a Compose run or a recipe gave it
  (`_effective_minimum_samples`), although its docstring has requirements that any
  sampled collector contributed to "keep the full count" and telemetry is listed
  as sampled (`_SAMPLED_SOURCE_TYPES`).
- B2.51 sets no `pending_interrupt`, so `resume_case` refuses a case that waits
  there; its decision has to come with the state. A decision `revise` leads to A3
  again, which is replayed in a circle or, after a revision of its own, seals an
  id twice.
- `claim` holds its row locks only until it returns, so two dispatchers may claim
  one event; its docstring says that "concurrent claimers never select the same
  row". Lane B's docstring has B1.96 persist a hand-off in the outbox; no code
  publishes one.
- `LocalWorkerBroker.reconcile` forgets a job with the first answer, so a caller
  that starts over in the same process finds nothing.

## Not modelled

Left out: identity, telemetry, migrations, health checks and the printing of the
scripts (I/O without control), policies and model providers (stateless answers,
modelled as choices), the pilot handlers, the contracts' data types, S08 (no
code), the life of a Compose project (one of the outcomes of a job), and PURE
nodes' execution, which no node of the graphs uses. Of `authorize_resume` only
the allowed decisions are modelled; its checks of actor, tenant, digest and
expiry are taken as passed. The lanes are composed as `root_graph.py` composes
them; `scripts/run.py` runs A1, A2 and A3 as separate legs. The query adapters of
B1 do not exist, so signals come with the case. The dispatchers of the outbox are
not in the repository and are modelled from what the adapter offers them.
LangGraph is modelled from how the code uses it; its recursion limit is not.

## What is open

- Two crashes in one case, and a crash at every node of the lanes: the state
  space, not the model, is the limit.
- `Terminates` with a lost workspace: it fails by the S04.10 cycle.
- An inductive invariant for `NoRefConflict` and `LoopsBounded` of the workflow
  (ids are scoped by the counters that the keys are scoped by).
