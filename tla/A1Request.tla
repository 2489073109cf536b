----------------------------- MODULE A1Request -----------------------------
(***************************************************************************)
(* A1: from a manual payload to an approved, frozen OptimizationRequest.   *)
(*                                                                         *)
(* A payload's `fields' hold the structured fields that were given, as a   *)
(* partial function; a field the requester left out is not in its domain.  *)
(***************************************************************************)
EXTENDS LaneState

CONSTANTS
    Intent,         \* what the model may extract from raw text
    ReplyTokens,    \* tokens one extraction may consume
    ApprovalPolicy  \* answers of the policy port to a1.request_approval

RequiredFields == {"feature_id", "metric_id", "direction", "target", "unit",
                   "workload_id", "environment_id"}

NoIntent == [valid |-> FALSE, statement |-> FALSE, fields |-> <<>>]

(* A number the requester may leave out, and its default.                  *)
None == -1
GivenOr(value, default) == IF value = None THEN default ELSE value
Larger(m, n) == IF m > n THEN m ELSE n

Payload == Body("ManualCasePayload")

-----------------------------------------------------------------------------
(* The metric registry: the built-in definitions a case may name, and the  *)
(* fallback for a custom metric.                                           *)
Metric(unit, aggregation, sources, minimum) ==
    [unit |-> unit, aggregation |-> aggregation, sources |-> sources, minimum |-> minimum]

ResolveMetric(metric, unit) ==
    CASE metric = "p50_latency_ms" -> Metric("ms", "p50", {"benchmark", "telemetry"}, 3)
      [] metric = "p95_latency_ms" -> Metric("ms", "p95", {"benchmark", "telemetry"}, 3)
      [] metric = "p99_latency_ms" -> Metric("ms", "p99", {"benchmark", "telemetry"}, 3)
      [] metric = "throughput_rps" ->
            Metric("requests_per_second", "rate", {"benchmark", "telemetry"}, 3)
      [] metric = "peak_memory_mb" -> Metric("MiB", "maximum", {"telemetry", "profiler"}, 1)
      [] metric = "cpu_utilization_percent" ->
            Metric("percent", "p95", {"telemetry", "profiler"}, 3)
      [] metric \in {"input_tokens", "output_tokens", "total_tokens"} ->
            Metric("tokens", "sum", {"evaluator", "telemetry"}, 1)
      [] metric = "cost_usd" -> Metric("USD", "sum", {"evaluator", "telemetry"}, 1)
      [] metric = "quality_score" -> Metric("score", "mean", {"evaluator", "judge"}, 3)
      [] metric = "correctness" -> Metric("exit_code", "verdict", {"test", "evaluator"}, 1)
      [] metric = "unit_command_result" -> Metric("exit_code", "verdict", {"test"}, 1)
      [] OTHER -> Metric(unit, "mean", {"benchmark", "telemetry", "evaluator"}, 1)

-----------------------------------------------------------------------------
A1_10 ==
    RequireTypes({"ManualCasePayload"},
        IF ~Payload.actor_ok THEN Raises
        ELSE Seals(NoUpdates, <<Seal(Id("IntakeEnvelope"), [actor_role |-> Payload.role])>>))

(* One extraction: the intent, if it is valid, and the budget it leaves;   *)
(* more tokens than the budget discard the reply.                          *)
Extraction(budget) ==
    {[intent |-> IF c > budget THEN NoIntent ELSE e, left |-> budget - c] :
        e \in Intent \cup {NoIntent}, c \in ReplyTokens}

(* _extract_raw_intent: an invalid reply is asked for once more while the  *)
(* budget lasts.                                                           *)
ExtractRawIntent(p) ==
    LET budget == GivenOr(p.maximum_model_tokens, 1000) IN
    IF ~p.raw \/ budget <= 0 THEN {NoIntent}
    ELSE UNION {IF a.intent.valid \/ a.left <= 0 THEN {a.intent}
                ELSE {b.intent : b \in Extraction(a.left)}
                    : a \in Extraction(budget)}

(* The criterion of the greatest weight, the first of them.                *)
Primary(criteria) ==
    criteria[CHOOSE i \in DOMAIN criteria :
        /\ \A j \in DOMAIN criteria : criteria[j].weight <= criteria[i].weight
        /\ \A j \in 1 .. i - 1 : criteria[j].weight < criteria[i].weight]

(* The shorthand fields mirror the primary criterion.                      *)
Mirrored(criteria) ==
    IF criteria = <<>> THEN <<>>
    ELSE [f \in {"metric_id", "direction", "target", "unit"} |->
            CASE f = "metric_id" -> Primary(criteria).metric
              [] f = "direction" -> Primary(criteria).direction
              [] f = "target" -> Primary(criteria).target
              [] f = "unit" -> Primary(criteria).unit]

(* Mutant: what the model read in the raw text wins over the requester's   *)
(* structured field, and nobody is told.                                   *)
DraftFromPayload_ModelWins(p, e) ==
    LET values == (e.fields @@ p.fields) @@ Mirrored(p.criteria) IN
    [values |-> values,
     guardrail |-> IF "guardrail_metric_id" \in DOMAIN values
                     THEN values["guardrail_metric_id"] ELSE "unit_command_result",
     statement |-> e.statement \/ p.raw \/ {"feature_id", "metric_id"} \subseteq DOMAIN values,
     criteria |-> p.criteria, commands |-> p.commands,
     unresolved |-> RequiredFields \ DOMAIN values,
     conflicts |-> {}]

(* A structured field wins over an extracted one, and either over the      *)
(* mirrored criterion; only the first two are compared.                    *)
DraftFromPayload(p, e) ==
    LET values == (p.fields @@ e.fields) @@ Mirrored(p.criteria) IN
    [values |-> values,
     guardrail |-> IF "guardrail_metric_id" \in DOMAIN values
                     THEN values["guardrail_metric_id"] ELSE "unit_command_result",
     statement |-> e.statement \/ p.raw \/ {"feature_id", "metric_id"} \subseteq DOMAIN values,
     criteria |-> p.criteria, commands |-> p.commands,
     unresolved |-> RequiredFields \ DOMAIN values,
     conflicts |-> {f \in DOMAIN p.fields \cap DOMAIN e.fields : p.fields[f] # e.fields[f]}]

A1_20 ==
    RequireTypes({"ManualCasePayload"},
        UNION {Seals(NoUpdates, <<Seal(Id("RawRequestDraft"), DraftFromPayload(Payload, e))>>)
                : e \in ExtractRawIntent(Payload)})

(* The source's revision is HEAD, or none (0) where the path is not itself *)
(* the root of a repository.                                               *)
A1_30 ==
    RequireTypes({"ManualCasePayload"},
        IF ~Payload.path_ok THEN Raises
        ELSE Seals(NoUpdates, <<Seal(Id("LocalSourceIdentity"), [git_revision |-> host.head])>>))

A1_40 ==
    RequireTypes({"LocalSourceIdentity"},
        Seals(NoUpdates,
              <<Seal(Id("ProjectProfile"),
                     [truncated |-> host.repo.truncated, features |-> host.repo.features,
                      repetitions |-> host.repo.repetitions,
                      warmups |-> host.repo.warmups])>>))

(* Confidence in percent: a path matches the feature, or the requester     *)
(* named it, or neither.                                                   *)
A1_50 ==
    RequireTypes({"RawRequestDraft", "LocalSourceIdentity", "ProjectProfile"},
        LET given == "feature_id" \in DOMAIN Body("RawRequestDraft").values
            feature == IF given THEN Body("RawRequestDraft").values["feature_id"]
                                ELSE "unknown-feature" IN
        Seals(NoUpdates,
              <<Seal(Id("FeatureScope"),
                     [feature |-> feature,
                      confidence |-> IF feature \in Body("ProjectProfile").features THEN 95
                                     ELSE IF given THEN 80 ELSE 0])>>))

A1_60 ==
    RequireTypes({"RawRequestDraft", "FeatureScope"},
        LET missing ==
                {f \in {"objective_statement"} : ~Body("RawRequestDraft").statement}
                \cup {f \in {"feature_id"} : Body("FeatureScope").confidence = 0
                                              \/ Body("FeatureScope").feature = "unknown-feature"} IN
        Seals(NoUpdates,
              <<Seal(Id("CanonicalObjective"),
                     [objective |-> missing = {}, missing |-> missing])>>))

Criterion(id, d) ==
    [id |-> id, metric |-> d.metric, direction |-> d.direction, target |-> d.target,
     unit |-> d.unit, aggregation |-> ResolveMetric(d.metric, d.unit).aggregation]

(* The declared criteria, each named after its metric, or the shorthand    *)
(* one, named primary.                                                     *)
A1_61 ==
    RequireTypes({"RawRequestDraft"},
        LET declared == Body("RawRequestDraft").criteria
            v == Body("RawRequestDraft").values
            missing == IF declared # <<>> THEN {}
                       ELSE {"metric_id", "direction", "target", "unit"} \ DOMAIN v
            shorthand == [metric |-> v["metric_id"], direction |-> v["direction"],
                          target |-> v["target"], unit |-> v["unit"]] IN
        Seals(NoUpdates,
              <<Seal(Id("CriterionSet"),
                     [criteria |->
                        IF declared # <<>>
                          THEN {Criterion(declared[i].metric, declared[i]) : i \in DOMAIN declared}
                        ELSE IF missing = {} THEN {Criterion("primary", shorthand)} ELSE {},
                      missing |-> missing])>>))

A1_62 ==
    RequireTypes({"RawRequestDraft"},
        LET metric == Body("RawRequestDraft").guardrail IN
        Seals(NoUpdates,
              <<Seal(Id("GuardrailSet"),
                     {[id |-> "correctness", metric |-> metric,
                       unit |-> ResolveMetric(metric, "exit_code").unit]})>>))

A1_63 ==
    RequireTypes({"ManualCasePayload"},
        Seals(NoUpdates,
              <<Seal(Id("ExecutionBudgetArtifact"),
                     [worker_seconds |-> GivenOr(Payload.maximum_worker_seconds, 180),
                      model_tokens |-> GivenOr(Payload.maximum_model_tokens, 4000)])>>))

-----------------------------------------------------------------------------
(* The measurement protocol: the requester's numbers, or the larger of the *)
(* defaults of the metric and of the language.                             *)
Protocol(draft, profile) ==
    LET metric == IF "metric_id" \in DOMAIN draft.values THEN draft.values["metric_id"] ELSE ""
        verdict == ResolveMetric(metric, "").aggregation = "verdict" IN
    [repetitions |-> GivenOr(Payload.repetitions,
                             Larger(IF verdict THEN 1 ELSE 3, profile.repetitions)),
     warmups |-> GivenOr(Payload.warmup_runs, Larger(IF verdict THEN 0 ELSE 1, profile.warmups))]

A1_70 ==
    RequireTypes({"ManualCasePayload", "RawRequestDraft", "ProjectProfile"},
        LET draft == Body("RawRequestDraft")
            missing == {"workload_id", "environment_id"} \ DOMAIN draft.values IN
        Seals(NoUpdates,
              <<Seal(Id("WorkloadIdentity"),
                     [defined |-> missing = {},
                      protocol |-> Protocol(draft, Body("ProjectProfile")),
                      commands |-> draft.commands,
                      execution |-> missing = {} /\ Payload.compose,
                      missing |-> missing])>>))

Requirement(id, criterion, metric, sources, minimum, unit, aggregation) ==
    [id |-> id, criterion |-> criterion, metric |-> metric, sources |-> sources,
     minimum |-> minimum, unit |-> unit, aggregation |-> aggregation, mandatory |-> TRUE]

(* One requirement for each criterion, with the larger of the workload's   *)
(* repetitions and the metric's minimum, and one for each guardrail.       *)
A1_71 ==
    RequireTypes({"CriterionSet", "GuardrailSet", "WorkloadIdentity"},
        LET workload == Body("WorkloadIdentity")
            ofCriterion(c) ==
                LET m == ResolveMetric(c.metric, c.unit) IN
                Requirement(<<"evidence", c.id>>, c.id, c.metric, m.sources,
                            Larger(workload.protocol.repetitions, m.minimum),
                            m.unit, c.aggregation)
            ofGuardrail(g) ==
                Requirement(<<"guardrail", g.id>>, g.id, g.metric,
                            ResolveMetric(g.metric, g.unit).sources, 1, g.unit, "verdict") IN
        Seals(NoUpdates,
              <<Seal(Id("EvidenceRequirementSet"),
                     [requirements |->
                        IF workload.defined
                          THEN {ofCriterion(c) : c \in Body("CriterionSet").criteria}
                               \cup {ofGuardrail(g) : g \in Body("GuardrailSet")}
                          ELSE {},
                      missing |-> Body("CriterionSet").missing \cup workload.missing
                                  \cup {f \in {"workload_id"} : ~workload.defined}])>>))

-----------------------------------------------------------------------------
(* A1.80.  A criterion's requirement is looked up by criterion id; where a *)
(* guardrail has the same id its requirement, the later one, is found.     *)
RequirementOf(c, requirements) ==
    LET named == {r \in requirements : r.criterion = c.id}
        ofGuardrail == {r \in named : r.id[1] = "guardrail"} IN
    IF ofGuardrail # {} THEN ofGuardrail ELSE named

ComposeConflict(criteria, guardrails) ==
    Payload.compose
        /\ \/ ~Body("WorkloadIdentity").execution
           \/ ~Payload.compose_file_ok
           \/ ~({c.metric : c \in criteria} \cup {g.metric : g \in guardrails}
                    \subseteq Payload.emits)

BindingConflict(criteria, requirements) ==
    \E c \in criteria :
        LET found == RequirementOf(c, requirements) IN
        \/ found = {}
        \/ \E r \in found : \/ ~(r.sources \subseteq ResolveMetric(c.metric, c.unit).sources)
                            \/ r.unit # c.unit

(* The workload's concurrency is the budget's, so only the seconds count.  *)
BudgetInvalid ==
    LET workload == Body("WorkloadIdentity") IN
    /\ workload.defined
    /\ Body("ExecutionBudgetArtifact").worker_seconds
         < workload.protocol.repetitions + workload.protocol.warmups

(* The omissions, conflicts and invalid values A1.80 collects.             *)
A1Passed ==
    LET draft == Body("RawRequestDraft")
        criteria == Body("CriterionSet").criteria
        guardrails == Body("GuardrailSet")
        evidence == Body("EvidenceRequirementSet") IN
    /\ Body("CanonicalObjective").missing \cup Body("CriterionSet").missing
         \cup Body("WorkloadIdentity").missing \cup evidence.missing \cup draft.unresolved = {}
    /\ draft.conflicts = {}
    /\ Body("FeatureScope").confidence >= 70
    /\ Body("CanonicalObjective").objective
    /\ criteria # {} /\ guardrails # {}
    /\ Body("WorkloadIdentity").defined
    /\ evidence.requirements # {}
    /\ ~ComposeConflict(criteria, guardrails)
    /\ ~BindingConflict(criteria, evidence.requirements)
    /\ ~BudgetInvalid
    /\ ~Body("ProjectProfile").truncated

(* A report that does not pass halts the case for the requester.           *)
A1_80 ==
    RequireTypes({"ManualCasePayload", "CanonicalObjective", "CriterionSet", "GuardrailSet",
                  "WorkloadIdentity", "EvidenceRequirementSet", "RawRequestDraft",
                  "ProjectProfile", "FeatureScope", "ExecutionBudgetArtifact"},
        LET seals == <<Seal(Id("A1QualityReport"), [passed |-> A1Passed])>> IN
        IF A1Passed THEN Seals(NoUpdates, seals)
        ELSE {Exec("clarification",
                   [pending_interrupt |-> [stage |-> "A1.80", digest |-> NextDigest(1)]],
                   seals, host)})

-----------------------------------------------------------------------------
FingerprintTypes == {"LocalSourceIdentity", "FeatureScope", "CanonicalObjective",
                     "CriterionSet", "GuardrailSet", "WorkloadIdentity",
                     "EvidenceRequirementSet", "ExecutionBudgetArtifact"}

RequestFingerprint == [t \in FingerprintTypes |-> DigestOf(t)]

OwnerRoles == {"owner", "approver", "platform_owner"}

(* The decisions A1.90 may come to, and on whose word.  A resume command   *)
(* settles it, whatever it answered; then the quality report, the policy   *)
(* port, and the requester's role.                                         *)
ApprovalDecisions ==
    LET decision(route, by) == [route |-> route, by |-> by] IN
    IF state.resume_command # "none"
      THEN {decision(IF state.resume_command = "approve" THEN "continue" ELSE "rejected", "resume")}
    ELSE IF ~Body("A1QualityReport").passed THEN {decision("rejected", "quality")}
    ELSE {CASE answer = "unwired" -> decision(IF Payload.role \in OwnerRoles
                                                THEN "continue" ELSE "approval", Payload.role)
            [] answer = "allow" -> decision("continue", "policy")
            [] answer = "require_approval" -> decision("approval", "policy")
            [] OTHER -> decision("rejected", "policy")
            : answer \in ApprovalPolicy}

A1_90 ==
    RequireTypes(FingerprintTypes \cup {"ManualCasePayload", "A1QualityReport"},
        {Exec(d.route,
              IF d.route = "approval"
                THEN [pending_interrupt |-> [stage |-> "A1.90", digest |-> NextDigest(1)]]
                ELSE NoUpdates,
              <<Seal(Id("A1ApprovalDecision"),
                     [approved |-> d.route = "continue", fingerprint |-> RequestFingerprint,
                      by |-> d.by])>>,
              host)
            : d \in ApprovalDecisions})

A1_95 ==
    RequireTypes(FingerprintTypes \cup {"A1ApprovalDecision"},
        LET approval == Body("A1ApprovalDecision")
            workload == Body("WorkloadIdentity") IN
        IF \/ ~Body("CanonicalObjective").objective
           \/ ~workload.defined
           \/ ~approval.approved
           \/ approval.fingerprint # RequestFingerprint
          THEN Raises
          ELSE Seals([request_ref |-> NextDigest(1)],
                     <<Seal(Id("OptimizationRequest"),
                            [origin |-> "manual",
                             located |-> TRUE,
                             requested_revision |-> Body("LocalSourceIdentity").git_revision,
                             criteria |-> Body("CriterionSet").criteria,
                             guardrails |-> Body("GuardrailSet"),
                             commands |-> workload.commands,
                             execution |-> workload.execution,
                             requirements |-> Body("EvidenceRequirementSet").requirements,
                             model_tokens |-> Body("ExecutionBudgetArtifact").model_tokens,
                             approved |-> TRUE,
                             approval_digest |-> approval.fingerprint,
                             fingerprint |-> RequestFingerprint])>>))
=============================================================================
