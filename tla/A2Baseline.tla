----------------------------- MODULE A2Baseline -----------------------------
(***************************************************************************)
(* A2: snapshot the approved source, bind every evidence requirement to a  *)
(* collector, run the authorized commands and recipes on workers, and seal *)
(* the BaselineSnapshot.  B1.95 is the same graph, mounted in B1.          *)
(***************************************************************************)
EXTENDS A1Request, FiniteSetsExt

CONSTANTS
    Recipes,        \* the registry's evidence recipes, in the order of their ids
    Proposal,       \* command kinds the model may propose, "none" for no usable reply
    Exit,           \* exit codes of a command
    Rounds,         \* benchmark rounds one command may produce, in seconds
    Attempts,       \* what the attempts of a Compose evaluation may emit
    Observations    \* what a recipe's output may decode to, <<>> if it does not

Request == Body("OptimizationRequest")
NoRequirement == <<"none", "">>

-----------------------------------------------------------------------------
(* The source may be unreachable by now.                                   *)
A2_10 ==
    RequireTypes({"OptimizationRequest"},
        {LET verified == /\ state.request_ref = DigestOf("OptimizationRequest")
                         /\ Request.approved
                         /\ Request.approval_digest = Request.fingerprint
                         /\ reachable IN
         Exec(IF verified THEN "continue" ELSE "rejected", NoUpdates,
              <<Seal(Id("A2IntakeDecision"), [verified |-> verified])>>, host)
            : reachable \in IF Request.located THEN BOOLEAN ELSE {FALSE}})

(* Mutant: the revision that was approved is not compared with the one     *)
(* that is there.                                                          *)
RevisionDiffers_Unchecked == FALSE

RevisionDiffers ==
    Request.requested_revision # 0 /\ host.head # Request.requested_revision

(* The source, and the source after a commit, if one is still to come.     *)
Commits(h) ==
    {h} \cup IF h.head # 0 /\ h.commits > 0
               THEN {[h EXCEPT !.head = @ + 1, !.commits = @ - 1]} ELSE {}

(* The revision is resolved and compared first and the files are captured  *)
(* later: a commit between the two is not noticed.  The capture raises     *)
(* when the tree changes under it or exceeds the storage budget.           *)
A2_20 ==
    RequireTypes({"OptimizationRequest", "A2IntakeDecision"},
        IF ~Body("A2IntakeDecision").verified \/ RevisionDiffers THEN Raises
        ELSE Raises
             \cup {Exec("continue", NoUpdates,
                        <<Seal(Id("SourceSnapshot"),
                               [git_revision |-> host.head, files |-> h.head])>>, h)
                    : h \in Commits(host)})

A2_30 ==
    RequireTypes({"SourceSnapshot"},
        Seals(NoUpdates,
              <<Seal(Id("RepositoryManifest"), [tool_coverage |-> host.repo.tools])>>))

(* A command, whose id is its kind for a declared or detected one.         *)
Command(kind, source) == [id |-> kind, kind |-> kind, source |-> source]

ToolOf == [unit |-> "pytest", lint |-> "ruff", type |-> "mypy", benchmark |-> "pytest_benchmark"]

(* A declared command wins over detection; a build is only declared.       *)
RepositoryCommands ==
    LET declared == Request.commands
        tools == Body("RepositoryManifest").tool_coverage IN
    {Command(k, "user_declared") : k \in declared}
    \cup {Command(k, "pyproject_toml") :
            k \in {k \in DOMAIN ToolOf \ declared : ToolOf[k] \in tools}}

ManifestOf(commands) ==
    Seals(NoUpdates, <<Seal(Id("VerificationManifest"), [commands |-> commands])>>)

(* Mutant: the model's command is taken without asking the owner.          *)
LlmFallback_Unasked ==
    UNION {ManifestOf(IF k = "none" THEN {}
                      ELSE {[id |-> "llm-suggested", kind |-> k, source |-> "llm_suggested"]})
            : k \in Proposal}

(* Nothing detected or declared: a resume command settles the proposal,    *)
(* whichever halt it answered; otherwise the model proposes a command and  *)
(* the owner is asked.                                                     *)
LlmFallback ==
    LET proposed == state.pending_command_proposal IN
    IF state.resume_command # "none"
      THEN ManifestOf(IF state.resume_command = "approve" /\ proposed # "none"
                        THEN {[id |-> "llm-suggested", kind |-> proposed,
                               source |-> "llm_suggested"]}
                        ELSE {})
      ELSE UNION {IF k = "none" THEN ManifestOf({})
                  ELSE {Exec("approval",
                             [pending_interrupt |-> [stage |-> "A2.31", digest |-> NextDigest(1)],
                              pending_command_proposal |-> k],
                             <<Seal(BranchId("Blob", "A2.31"), k)>>, host)}
                    : k \in Proposal}

A2_31 ==
    RequireTypes({"SourceSnapshot", "RepositoryManifest", "OptimizationRequest"},
        IF RepositoryCommands # {} THEN ManifestOf(RepositoryCommands) ELSE LlmFallback)

-----------------------------------------------------------------------------
(* Source types in the order sorted() gives them.                          *)
SourceOrder == <<"benchmark", "evaluator", "judge", "profiler", "source_map", "static",
                 "telemetry", "test">>
FirstSource(sources) ==
    SourceOrder[CHOOSE i \in DOMAIN SourceOrder :
        /\ SourceOrder[i] \in sources
        /\ \A j \in 1 .. i - 1 : SourceOrder[j] \notin sources]

(* The built-in collectors and the nodes that run them.                    *)
BuiltinNode == [test |-> "A2.61", benchmark |-> "A2.62", telemetry |-> "A2.63",
                source_map |-> "A2.64"]

Binding(r, source, node, capability) ==
    [req |-> r.id, metric |-> IF r.metric = "none" THEN r.criterion ELSE r.metric,
     source |-> source, node |-> node, capability |-> capability, unit |-> r.unit]

(* The first registered recipe for the metric, then the built-in collector *)
(* of the first accepted source type that has one.                         *)
ResolveBinding(r) ==
    LET metric == IF r.metric = "none" THEN r.criterion ELSE r.metric
        usable == {i \in DOMAIN Recipes : /\ metric \in Recipes[i].metrics
                                          /\ Recipes[i].source \in r.sources}
        recipe == Recipes[CHOOSE i \in usable : \A j \in usable : i <= j]
        builtin == r.sources \cap DOMAIN BuiltinNode IN
    IF usable # {} THEN {Binding(r, recipe.source, recipe.node, recipe.capability)}
    ELSE IF builtin # {}
           THEN {Binding(r, FirstSource(builtin), BuiltinNode[FirstSource(builtin)], "none")}
    ELSE {}

(* A mandatory requirement without a collector halts the case; the resumed *)
(* node comes to the same plan, whatever the owner answered.               *)
A2_40 ==
    RequireTypes({"OptimizationRequest"},
        LET bindings == UNION {ResolveBinding(r) : r \in Request.requirements}
            unresolved == {r \in Request.requirements : ResolveBinding(r) = {}}
            seals == <<Seal(Id("CollectorPlan"), [bindings |-> bindings])>> IN
        IF \A r \in unresolved : ~r.mandatory THEN Seals(NoUpdates, seals)
        ELSE {Exec("missing",
                   [pending_interrupt |-> [stage |-> "A2.40", digest |-> NextDigest(1)]],
                   seals, host)})

A2_41 ==
    RequireTypes({"OptimizationRequest"},
        Seals(NoUpdates, <<Seal(Id("EnvironmentManifest"), <<>>)>>))

-----------------------------------------------------------------------------
(* A2.50.  An action is a command, a recipe or the Compose evaluation; its *)
(* job id is derived from the case and the action's id.                    *)
Action(id, capability) == [id |-> id, capability |-> capability]

CommandAction(c) == Action(<<"command", c.id>>, c.kind)
RecipeAction(b) == Action(<<"recipe">> \o b.req, b.capability)
ComposeAction == Action(<<"compose", "evaluation">>, "compose_evaluation")

A2Actions ==
    {CommandAction(c) : c \in Body("VerificationManifest").commands}
    \cup {RecipeAction(b) : b \in Body("CollectorPlan").bindings}
    \cup IF Request.execution THEN {ComposeAction} ELSE {}

(* The built-in collectors are authorized too, without a job of their own. *)
NeedsWorker(a) == a.capability # "none"

(* An action is rejected by the policy or for want of a capability.  The   *)
(* jobs of the others are submitted even where one is rejected.            *)
A2_50 ==
    RequireTypes({"OptimizationRequest", "SourceSnapshot", "VerificationManifest",
                  "CollectorPlan", "EnvironmentManifest"},
        {LET submitted == {a.id : a \in {a \in A2Actions \ denied : a.capability \in Capabilities}}
             rejected == denied \cup {a \in A2Actions : /\ NeedsWorker(a)
                                                        /\ a.capability \notin Capabilities} IN
         Exec(IF rejected = {} THEN "continue" ELSE "rejected", NoUpdates,
              <<Seal(Id("ExecutionAuthorization"), [actions |-> submitted])>>,
              [host EXCEPT !.jobs = @ \cup submitted])
            : denied \in SUBSET A2Actions})

-----------------------------------------------------------------------------
(* What _await_worker_result observes of a job: nothing in time, what the  *)
(* job raised, or its output.  The broker forgets a job it has answered    *)
(* for, and knows nothing of one a former process submitted.               *)
Observation(status, data) == [status |-> status, data |-> data]

AwaitWorkerResult(action, outputs) ==
    {Observation("none", <<>>)}
    \cup IF action.id \notin host.jobs THEN {}
         ELSE {Observation("raise", <<>>)} \cup {Observation("done", d) : d \in outputs}

NoBinding == [req |-> NoRequirement, metric |-> "none", source |-> "none", node |-> "none",
              capability |-> "none", unit |-> "none"]

(* The built-in bindings an observation is evidence for; an observation no *)
(* requirement is bound to is kept without one.                            *)
BindingsFor(node, source) ==
    LET bound == {b \in Body("CollectorPlan").bindings :
                    b.node = node /\ b.source = source /\ b.capability = "none"} IN
    IF bound = {} THEN {NoBinding} ELSE bound

(* An evidence item; `number' tells the observations of an action apart.   *)
Item(action, number, b, metric, type, value, unit) ==
    [id |-> <<action.id, number, b.req>>, req |-> b.req, metric |-> metric, type |-> type,
     value |-> value, numeric |-> TRUE, unit |-> unit, snapshot |-> DigestOf("SourceSnapshot")]

MetricOf(b, default) == IF b = NoBinding THEN default ELSE b.metric

(* A task of a branch: its turn, the action it awaits, the outputs that    *)
(* may have, and the evidence an output is.                                *)
CommandTask(node, c, turn) ==
    LET result == c.kind \o "_command_result" IN
    [turn |-> turn,
     action |-> CommandAction(c),
     outputs |-> IF c.kind = "benchmark" THEN Rounds ELSE {<<x>> : x \in Exit},
     evidence |-> [data \in IF c.kind = "benchmark" THEN Rounds ELSE {<<x>> : x \in Exit} |->
        IF c.kind = "benchmark"
          THEN {Item(CommandAction(c), i, b, MetricOf(b, "benchmark_duration"), result,
                     data[i], "seconds")
                    : i \in DOMAIN data, b \in BindingsFor(node, "benchmark")}
          ELSE {Item(CommandAction(c), 1, b, MetricOf(b, result), result, data[1], "exit_code")
                    : b \in BindingsFor(node, IF c.kind = "unit" THEN "test" ELSE "static")}]]

(* A recipe's observations are typed by its source; an output that does    *)
(* not decode is none.                                                     *)
RecipeTask(b, turn) ==
    [turn |-> turn,
     action |-> RecipeAction(b),
     outputs |-> Observations,
     evidence |-> [data \in Observations |->
        {[Item(RecipeAction(b), i, b, b.metric, b.source, data[i].value, data[i].unit)
            EXCEPT !.numeric = data[i].numeric] : i \in DOMAIN data}]]

(* An evaluator's verdict (1 for true) as an exit code.                    *)
CanonicalMetricValue(emitted, unit) ==
    IF unit = "exit_code" /\ emitted.verdict THEN 1 - emitted.value ELSE emitted.value

(* What each attempt emitted for each requirement, in its canonical unit;  *)
(* an attempt that failed emitted nothing.                                 *)
ComposeTask ==
    [turn |-> 1,
     action |-> ComposeAction,
     outputs |-> Attempts,
     evidence |-> [data \in Attempts |->
        UNION {{Item(ComposeAction, i, [NoBinding EXCEPT !.req = r.id], r.metric,
                     FirstSource(r.sources), CanonicalMetricValue(data[i][r.metric], r.unit), r.unit)
                    : r \in {r \in Request.requirements : r.metric \in DOMAIN data[i]}}
                : i \in DOMAIN data}]]

(* The tasks of a branch: the authorized command of each kind, in order,   *)
(* then the recipes bound to the node, in whichever order the plan has.    *)
TasksOf(node, kinds) ==
    LET authorized == Body("ExecutionAuthorization").actions
        command(k) == {c \in Body("VerificationManifest").commands :
                        c.kind = k /\ CommandAction(c).id \in authorized}
        recipes == {b \in Body("CollectorPlan").bindings :
                        b.node = node /\ NeedsWorker(b) /\ RecipeAction(b).id \in authorized} IN
    UNION {{CommandTask(node, c, i) : c \in command(kinds[i])} : i \in DOMAIN kinds}
    \cup {RecipeTask(b, Len(kinds) + 1) : b \in recipes}

(* A branch awaits its tasks one after another; the first that raises ends *)
(* it.  What was not observed in time is reported as unavailable.          *)
Branch(node, tasks, more) ==
    LET observations == {AwaitWorkerResult(t.action, t.outputs) : t \in tasks}
        possible(o) == \A t \in tasks :
            /\ o[t] \in AwaitWorkerResult(t.action, t.outputs)
            /\ o[t].status = "raise" => \A u \in tasks \ {t} :
                  IF u.turn > t.turn THEN o[u].status = "none" ELSE o[u].status # "raise"
        with(o, status) == {t \in tasks : o[t].status = status} IN
    {LET left == [host EXCEPT !.jobs =
                    @ \ {t.action.id : t \in with(o, "raise") \cup with(o, "done")}]
         evidence == more \cup UNION {t.evidence[o[t].data] : t \in with(o, "done")} IN
     IF with(o, "raise") # {} THEN Exec("raise", NoUpdates, <<>>, left)
     ELSE Exec("continue", NoUpdates, <<Seal(BranchId("BranchEvidenceRefs", node), evidence)>>, left)
        : o \in {o \in [tasks -> UNION observations] : possible(o)}}

BranchTypes == {"OptimizationRequest", "SourceSnapshot", "VerificationManifest",
                "EnvironmentManifest", "ExecutionAuthorization", "CollectorPlan"}

A2_60 == RequireTypes(BranchTypes, Branch("A2.60", TasksOf("A2.60", <<"lint", "type">>), {}))

A2_61 == RequireTypes(BranchTypes, Branch("A2.61", TasksOf("A2.61", <<"unit">>), {}))

(* A Compose evaluation replaces the benchmark, and the recipes bound to   *)
(* this node with it.                                                      *)
A2_62 ==
    RequireTypes(BranchTypes,
        IF ~Request.execution THEN Branch("A2.62", TasksOf("A2.62", <<"benchmark">>), {})
        ELSE Branch("A2.62",
                    IF ComposeAction.id \in Body("ExecutionAuthorization").actions
                      THEN {ComposeTask} ELSE {}, {}))

(* Telemetry has no built-in collector: only its recipes observe anything. *)
A2_63 == RequireTypes(BranchTypes, Branch("A2.63", TasksOf("A2.63", <<>>), {}))

(* The map of the Python files that parse is evidence by itself.           *)
A2_64 ==
    RequireTypes(BranchTypes,
        Branch("A2.64", TasksOf("A2.64", <<>>),
               IF host.repo.parsed = 0 THEN {}
               ELSE {Item(Action(<<"builtin", "source-map">>, "none"), 1, b,
                          MetricOf(b, "source_files_mapped"), "source_map", host.repo.parsed,
                          IF b = NoBinding THEN "files_mapped" ELSE b.unit)
                        : b \in BindingsFor("A2.64", "source_map")}))

-----------------------------------------------------------------------------
BranchNodes == {"A2.60", "A2.61", "A2.62", "A2.63", "A2.64"}
BranchIds == {BranchId("BranchEvidenceRefs", n) : n \in BranchNodes}
Collected == UNION {Artifact(id) : id \in BranchIds}

A2_70 ==
    Require(BranchIds,
        Seals(NoUpdates,
              <<Seal(Id("RawEvidenceFanIn"), [evidence_ids |-> {e.id : e \in Collected}])>>))

(* The registered conversions, as a factor times / over.                   *)
Factor(times, over) == [times |-> times, over |-> over]
UnitFactors ==
    (<<"seconds", "ms">> :> Factor(1000, 1)) @@ (<<"s", "ms">> :> Factor(1000, 1))
    @@ (<<"milliseconds", "ms">> :> Factor(1, 1)) @@ (<<"bytes", "kb">> :> Factor(1, 1000))
    @@ (<<"bytes", "mb">> :> Factor(1, 1000000)) @@ (<<"fraction", "percent">> :> Factor(100, 1))

(* The observation in the unit of its binding, or none where it cannot be  *)
(* converted.                                                              *)
NormalizeObservation(e) ==
    LET bound == {b \in Body("CollectorPlan").bindings : b.req = e.req} IN
    IF \A b \in bound : b.unit \in {"none", e.unit} THEN {e}
    ELSE LET unit == (CHOOSE b \in bound : TRUE).unit IN
         IF ~e.numeric \/ <<e.unit, unit>> \notin DOMAIN UnitFactors THEN {}
         ELSE LET f == UnitFactors[<<e.unit, unit>>] IN
              {[e EXCEPT !.value = (@ * f.times) \div f.over, !.unit = unit]}

A2_71 ==
    Require(BranchIds,
        RequireTypes({"RawEvidenceFanIn", "CollectorPlan"},
            Seals(NoUpdates,
                  <<Seal(Id("NormalizedEvidenceSet"),
                         UNION {NormalizeObservation(e) :
                            e \in {e \in Collected :
                                    e.id \in Body("RawEvidenceFanIn").evidence_ids}})>>)))

A2_80 ==
    RequireTypes({"SourceSnapshot", "NormalizedEvidenceSet"},
        Seals(NoUpdates,
              <<Seal(Id("EvidenceBundle"),
                     [baseline_digest |-> DigestOf("SourceSnapshot"),
                      evidence |-> Body("NormalizedEvidenceSet")])>>))

-----------------------------------------------------------------------------
Matching(r) ==
    {e \in Body("EvidenceBundle").evidence :
        e.req = r.id /\ r.metric \in {"none", e.metric} /\ r.unit \in {"none", e.unit}}

(* Only a benchmark command's evidence is known to be sampled; the types   *)
(* Compose and recipe evidence carry are not in the table.                 *)
EffectiveMinimumSamples(r) ==
    IF r.aggregation = "verdict" THEN 1
    ELSE IF Matching(r) = {} THEN r.minimum
    ELSE IF \E e \in Matching(r) : e.type = "benchmark_command_result" THEN r.minimum
    ELSE 1

Satisfied(r) == Cardinality(Matching(r)) >= EffectiveMinimumSamples(r)

(* Every item has trust T2.  Evidence may have gone stale, lost its bytes  *)
(* or hold a secret (`clean').                                             *)
A2_90 ==
    Require(BranchIds,
        RequireTypes({"OptimizationRequest", "EvidenceBundle"},
            {LET covered == \A r \in Request.requirements : r.mandatory => Satisfied(r)
                 passed == clean /\ \A r \in Request.requirements : Satisfied(r) IN
             Exec(IF passed THEN "continue" ELSE IF ~covered THEN "missing" ELSE "rejected",
                  NoUpdates, <<Seal(Id("EvidenceQualityReport"), [passed |-> passed])>>, host)
                : clean \in IF Body("EvidenceBundle").evidence = {} THEN {TRUE} ELSE BOOLEAN}))

(* The workload, environment and cache state are copied from the request;  *)
(* what may differ is the snapshot the evidence was taken on.              *)
A2_91 ==
    RequireTypes({"OptimizationRequest", "SourceSnapshot", "EnvironmentManifest",
                  "EvidenceBundle"},
        LET comparable == \A e \in Body("EvidenceBundle").evidence :
                            e.snapshot = DigestOf("SourceSnapshot") IN
        {Exec(IF comparable THEN "continue" ELSE "incomparable", NoUpdates,
              <<Seal(Id("ComparabilityReport"), [comparable |-> comparable])>>, host)})

-----------------------------------------------------------------------------
(* Nearest-rank percentile of the values of a set of items.                *)
Percentile(items, p) ==
    LET atMost(v) == {e \in items : e.value <= v}
        reached == {v \in {e.value : e \in items} :
                        100 * Cardinality(atMost(v)) >= p * Cardinality(items)} IN
    CHOOSE v \in reached : \A w \in reached : v <= w

(* The numeric evidence of a requirement.                                  *)
Aggregated(evidence) ==
    {e \in evidence : /\ e.req # NoRequirement /\ e.numeric
                     /\ e.metric # "none" /\ e.unit # "none"}

Aggregates(evidence) ==
    {LET items == {e \in Aggregated(evidence) : <<e.metric, e.unit>> = key} IN
     [metric |-> key[1], unit |-> key[2], count |-> Cardinality(items),
      total |-> MapThenSumSet(LAMBDA e : e.value, items),
      maximum |-> CHOOSE v \in {e.value : e \in items} : \A e \in items : e.value <= v,
      p50 |-> Percentile(items, 50), p95 |-> Percentile(items, 95)]
        : key \in {<<e.metric, e.unit>> : e \in Aggregated(evidence)}}

A2_95 ==
    RequireTypes({"OptimizationRequest", "SourceSnapshot", "EvidenceBundle",
                  "EvidenceQualityReport", "ComparabilityReport"},
        IF ~Body("EvidenceQualityReport").passed \/ ~Body("ComparabilityReport").comparable
          THEN Raises
          ELSE Seals([baseline_ref |-> NextDigest(1)],
                     <<Seal(Id("BaselineSnapshot"),
                            [request_digest |-> DigestOf("OptimizationRequest"),
                             source_snapshot_digest |-> DigestOf("SourceSnapshot"),
                             aggregates |-> Aggregates(Body("EvidenceBundle").evidence)])>>))
=============================================================================
