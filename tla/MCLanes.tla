------------------------------ MODULE MCLanes ------------------------------
(***************************************************************************)
(* Small instances of Lanes: a handful of cases, each chosen for the paths *)
(* its payload and repository open up.                                     *)
(***************************************************************************)
EXTENDS Lanes

-----------------------------------------------------------------------------
(* Repositories and cases.                                                 *)

Repo == [truncated |-> FALSE, features |-> {"search"}, repetitions |-> 3, warmups |-> 1,
         tools |-> {"pytest", "pytest_benchmark"}, parsed |-> 1]
Tested(tools) == [Repo EXCEPT !.tools = tools]

NewCaseOf(entrypoint, refs, repo) ==
    [entrypoint |-> entrypoint, lane |-> IF entrypoint = "manual" THEN "manual" ELSE "automatic",
     refs |-> refs, clock |-> Cardinality(DOMAIN refs), resume_command |-> "none",
     request_ref |-> 0, signals |-> <<>>, repo |-> repo, head |-> 1]

Seed(digest, body) == [digest |-> digest, body |-> body]

Manual(payload, repo) ==
    NewCaseOf("manual", Id("ManualCasePayload") :> Seed(1, payload), repo)

(* p95 below 1.5 s: what the benchmark shows may breach it.                *)
Fields == [feature_id |-> "search", metric_id |-> "p95_latency_ms", direction |-> "minimize",
           target |-> 1500, unit |-> "ms", workload_id |-> "w", environment_id |-> "e"]

Structured ==
    [actor_ok |-> TRUE, path_ok |-> TRUE, role |-> "owner", raw |-> FALSE, fields |-> Fields,
     criteria |-> <<>>, commands |-> {}, compose |-> FALSE, compose_file_ok |-> TRUE,
     emits |-> {}, repetitions |-> None, warmup_runs |-> None,
     maximum_worker_seconds |-> None, maximum_model_tokens |-> None]

(* A requester who names the feature and the target, and leaves the rest   *)
(* to the text; the target is one the benchmark meets.                     *)
Raw ==
    [Structured EXCEPT !.raw = TRUE, !.role = "requester",
                       !.fields = [feature_id |-> "search", target |-> 5000,
                                   workload_id |-> "w", environment_id |-> "e"]]

WithMetric(metric, unit, target) ==
    [Structured EXCEPT !.fields = [Fields EXCEPT !.metric_id = metric, !.unit = unit,
                                                 !.target = target]]

Declared(metric, unit, target, weight) ==
    [metric |-> metric, direction |-> "minimize", target |-> target, unit |-> unit,
     weight |-> weight]

Compose ==
    [Structured EXCEPT
        !.criteria = <<Declared("p95_latency_ms", "ms", 1500, 1)>>,
        !.compose = TRUE, !.emits = {"p95_latency_ms", "correctness"},
        !.fields = [feature_id |-> "search", workload_id |-> "w", environment_id |-> "e",
                    guardrail_metric_id |-> "correctness"]]

Signal(id, severity) ==
    [id |-> id, metric |-> "auto-" \o id, severity |-> severity, value |-> 1, unit |-> "seconds"]

Scan(signals, sources) ==
    [NewCaseOf("discovery", SeedRegistry :> Seed(1, sources),
               Tested({"pytest_benchmark", "ruff"})) EXCEPT !.signals = signals]

(* What a scan of one signal seals, up to the opportunity it hands over.   *)
Sample(n) ==
    [id |-> <<<<"command", "benchmark">>, n, <<"evidence", "auto-latency">>>>,
     req |-> <<"evidence", "auto-latency">>, metric |-> "auto-latency",
     type |-> "benchmark_command_result", value |-> 2, numeric |-> TRUE, unit |-> "seconds",
     snapshot |-> 5]

ScannedRequest ==
    [origin |-> "automatic", located |-> TRUE, requested_revision |-> 1,
     criteria |-> {[id |-> "auto-latency", metric |-> "auto-latency", direction |-> "minimize",
                    target |-> 1, unit |-> "seconds", aggregation |-> "mean"]},
     guardrails |-> {}, commands |-> {}, execution |-> FALSE,
     requirements |-> {Requirement(<<"evidence", "auto-latency">>, "auto-latency", "none",
                                   {"benchmark", "test", "telemetry"}, 3, "none", "mean")},
     model_tokens |-> 100000, approved |-> TRUE, approval_digest |-> "self",
     fingerprint |-> "self"]

Opportunity ==
    (Id("ObservedSourceIdentity") :> Seed(1, [registered |-> TRUE, git_revision |-> 1]))
    @@ (Id("RegisteredSourceSet") :> Seed(2, {"repository"}))
    @@ (Id("DetectionReport") :> Seed(3, [signals |-> <<Signal("latency", 90)>>,
                                          source |-> [resolved |-> TRUE, git_revision |-> 1]]))
    @@ (Id("OptimizationRequest") :> Seed(4, ScannedRequest))
    @@ (Id("SourceSnapshot") :> Seed(5, [git_revision |-> 1]))
    @@ (Id("RepositoryManifest") :> Seed(6, [tool_coverage |-> Repo.tools]))
    @@ (Id("VerificationManifest") :>
            Seed(7, [commands |-> {Command("unit", "pyproject_toml"),
                                   Command("benchmark", "pyproject_toml")}]))
    @@ (Id("EvidenceBundle") :> Seed(8, [baseline_digest |-> 5,
                                         evidence |-> {Sample(n) : n \in 1 .. 3}]))
    @@ (Id("EvidenceQualityReport") :> Seed(9, [passed |-> TRUE]))
    @@ (Id("ComparabilityReport") :> Seed(10, [comparable |-> TRUE]))
    @@ (Id("BaselineSnapshot") :>
            Seed(11, [request_digest |-> 4, source_snapshot_digest |-> 5,
                      aggregates |-> {[metric |-> "auto-latency", unit |-> "seconds",
                                       count |-> 3, total |-> 6, maximum |-> 2,
                                       p50 |-> 2, p95 |-> 2]}]))
    @@ (Id("QualifiedOpportunity") :>
            Seed(12, [digests |-> ("DetectionReport" :> 3) @@ ("OptimizationRequest" :> 4)
                                  @@ ("SourceSnapshot" :> 5) @@ ("BaselineSnapshot" :> 11)
                                  @@ ("EvidenceBundle" :> 8) @@ ("ComparabilityReport" :> 10),
                      source |-> [resolved |-> TRUE, git_revision |-> 1]]))

(* A qualified case may be started with the owner's decision in its state. *)
Handover(decision) ==
    [NewCaseOf("qualified", Opportunity, Repo) EXCEPT !.resume_command = decision,
                                                      !.request_ref = 4]

MCCases ==
    [structured |-> Manual(Structured, Repo),
     raw        |-> Manual(Raw, Repo),
     untooled   |-> Manual(WithMetric("correctness", "exit_code", 0),
                           Tested({})),
     unbound    |-> Manual(WithMetric("quality_score", "score", 1), Repo),
     stranger   |-> Manual([WithMetric("quality_score", "score", 1) EXCEPT !.role = "requester"],
                           Repo),
     recipe     |-> Manual(WithMetric("cpu_utilization_percent", "percent", 150),
                           Tested({"pytest"})),
     compose    |-> Manual(Compose, Tested({"pytest"})),
     unbuilt    |-> Manual([Structured EXCEPT !.commands = {"build"}], Repo),
     nobody     |-> Manual([Structured EXCEPT !.actor_ok = FALSE], Repo),
     nowhere    |-> Manual([Structured EXCEPT !.path_ok = FALSE], Repo),
     crossed    |-> [Manual(Structured, Repo) EXCEPT !.lane = "automatic"],
     scan       |-> Scan(<<Signal("latency", 90), Signal("errors", 40)>>, {"repository"}),
     quiet      |-> Scan(<<>>, {"repository"}),
     weak       |-> Scan(<<Signal("latency", 50)>>, {"repository"}),
     twice      |-> Scan(<<Signal("latency", 90), Signal("latency", 70)>>, {"repository"}),
     unplaced   |-> Scan(<<Signal("latency", 90)>>, {}),
     proposed   |-> Handover("none"),
     approved   |-> Handover("approve"),
     sentback   |-> Handover("revise")]

(* While workers run, in a revision of A3, and as C0 looks at the clock.    *)
MCCrashPoints == {<<"structured", "A2.61">>, <<"scan", "A2.62">>, <<"untooled", "A2.61">>,
                  <<"structured", "A3.82">>, <<"proposed", "C0.50">>}
MCLossPoints == {<<"approved", "B2.31">>}

-----------------------------------------------------------------------------
(* What the model, the policy and the workers answer.                      *)

Extracted(metric, target) ==
    [valid |-> TRUE, statement |-> TRUE,
     fields |-> [metric_id |-> metric, direction |-> "minimize", target |-> target,
                 unit |-> "ms"]]

(* The second intent contradicts the target the requester gave.            *)
MCIntent == {Extracted("p95_latency_ms", 5000), Extracted("p95_latency_ms", 4000)}
MCReplyTokens == {600}

MCRecipes == <<[metrics |-> {"cpu_utilization_percent"}, source |-> "telemetry",
                node |-> "A2.63", capability |-> "telemetry"]>>
MCRounds == {<<1, 1, 2>>, <<2, 2>>}
MCAttempts ==
    LET emits(latency, verdict) ==
            ("p95_latency_ms" :> [value |-> latency, verdict |-> FALSE])
            @@ ("correctness" :> [value |-> verdict, verdict |-> TRUE]) IN
    {<<emits(1000, 1)>>, <<emits(2000, 1), <<>>>>, <<>>}
MCObservations ==
    LET reads(value, numeric) == [value |-> value, numeric |-> numeric, unit |-> "fraction"] IN
    {<<>>, <<reads(2, TRUE), reads(0, FALSE)>>}

MCFindingReply ==
    {{[id |-> "f1", cites |-> "signals", claim |-> "hypothesis"]},
     {[id |-> "f1", cites |-> "catalog", claim |-> "verified_cause"]},
     {[id |-> "f1", cites |-> "unknown", claim |-> "hypothesis"]}}

Strategy(id, tradeoffs, ordered, risk) ==
    [id |-> id, tradeoffs |-> tradeoffs, ordered |-> ordered, risk |-> risk]
MCStrategyReply ==
    {<<>>,
     <<Strategy("s1", "cache", TRUE, "configuration")>>,
     <<Strategy("s1", "cache", TRUE, "configuration"), Strategy("s2", "index", FALSE, "architecture")>>,
     <<Strategy("s2", "index", TRUE, "architecture")>>}
=============================================================================
