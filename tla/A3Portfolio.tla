---------------------------- MODULE A3Portfolio ----------------------------
(***************************************************************************)
(* A3: compare the baseline with the criteria, let the model explain what  *)
(* breaches them, judge its findings against the evidence, and revise its  *)
(* strategies until a portfolio passes.  B2.22 is the same graph, mounted  *)
(* in B2.  The analyzers (A3.30-33) only add to the model's context.       *)
(***************************************************************************)
EXTENDS A2Baseline

CONSTANTS
    FindingReply,   \* findings the generator may reply with, each citing some evidence
    Verdict,        \* what the judge may say of a finding, "invalid" for no usable reply
    StrategyReply,  \* strategies the generator may reply with
    CallTokens      \* tokens one call of the model takes

MaxRevisionAttempts == 3

StageId(type, node) == <<type, node, state.a3_revision_attempts>>
PassRef(type) == PassId(type, state.a3_revision_attempts)

Evidence == Body("EvidenceBundle").evidence

-----------------------------------------------------------------------------
(* The decision is sealed and nothing reads it.                            *)
A3_10 ==
    RequireTypes({"OptimizationRequest", "SourceSnapshot", "EvidenceBundle",
                  "EvidenceQualityReport", "ComparabilityReport", "BaselineSnapshot"},
        LET snapshot == DigestOf("SourceSnapshot")
            baseline == Body("BaselineSnapshot") IN
        Seals(NoUpdates,
              <<Seal(Id("A3IntakeDecision"),
                     [verified |-> /\ Body("EvidenceBundle").baseline_digest = snapshot
                                   /\ baseline.source_snapshot_digest = snapshot
                                   /\ baseline.request_digest = DigestOf("OptimizationRequest"),
                      gates_passed |-> /\ Body("EvidenceQualityReport").passed
                                       /\ Body("ComparabilityReport").comparable])>>))

(* The catalog files evidence under its type, not its metric.              *)
A3_11 ==
    RequireTypes({"EvidenceBundle"},
        Seals(NoUpdates,
              <<Seal(Id("EvidenceCatalog"),
                     [ids |-> {e.id : e \in Evidence},
                      by_metric |-> [t \in {e.type : e \in Evidence} |->
                                        {e.id : e \in {e \in Evidence : e.type = t}}]])>>))

(* The statistic an aggregation stands for, as a fraction.                 *)
SelectAggregateValue(agg, aggregation) ==
    CASE aggregation \in {"mean", "rate"} -> [num |-> agg.total, den |-> agg.count]
      [] aggregation = "p50" -> [num |-> agg.p50, den |-> 1]
      [] aggregation = "p95" -> [num |-> agg.p95, den |-> 1]
      [] aggregation \in {"p99", "maximum", "verdict"} -> [num |-> agg.maximum, den |-> 1]
      [] aggregation = "sum" -> [num |-> agg.total, den |-> 1]

CriterionBreached(direction, target, observed) ==
    CASE direction = "minimize" -> observed.num > target * observed.den
      [] direction = "maximize" -> observed.num < target * observed.den
      [] OTHER -> observed.num # target * observed.den

(* A guardrail asks for a value of zero.                                   *)
Objectives ==
    {[id |-> c.id, metric |-> c.metric, direction |-> c.direction, target |-> c.target,
      aggregation |-> c.aggregation] : c \in Request.criteria}
    \cup {[id |-> "guardrail-" \o g.id, metric |-> g.metric, direction |-> "target",
           target |-> 0, aggregation |-> ResolveMetric(g.metric, g.unit).aggregation]
            : g \in Request.guardrails}

SampleId(e) == <<<<"sample">> \o e.id[1], e.id[2], e.id[3]>>

(* What a signal cites: the items that breach by themselves, or what the   *)
(* catalog has under the metric's name, or the samples of the aggregate.   *)
SupportingIds(o) ==
    LET ofMetric == {e \in Evidence : e.metric = o.metric}
        precise == {e.id : e \in {e \in ofMetric : e.numeric /\
                        CriterionBreached(o.direction, o.target, [num |-> e.value, den |-> 1])}}
        filed == Body("EvidenceCatalog").by_metric IN
    IF precise # {} THEN precise
    ELSE IF o.metric \in DOMAIN filed THEN filed[o.metric]
    ELSE {SampleId(e) : e \in Aggregated(ofMetric)}

(* A metric has one aggregate, unless a recipe reported it in two units.   *)
A3_20 ==
    RequireTypes({"OptimizationRequest", "BaselineSnapshot", "EvidenceCatalog", "EvidenceBundle"},
        LET aggregates == Body("BaselineSnapshot").aggregates
            of(o) == {a \in aggregates : a.metric = o.metric}
            breached(o) == \E a \in of(o) :
                CriterionBreached(o.direction, o.target, SelectAggregateValue(a, o.aggregation)) IN
        Seals(NoUpdates,
              <<Seal(Id("ProblemSignalSet"),
                     {[id |-> o.id, metric |-> o.metric, evidence_ids |-> SupportingIds(o)]
                        : o \in {o \in Objectives : breached(o)}})>>))

(* Every signal is kept, with a score that only orders the context.        *)
A3_21 ==
    RequireTypes({"ProblemSignalSet"},
        Seals(NoUpdates, <<Seal(Id("PrioritizedSignalSet"), Body("ProblemSignalSet"))>>))

(* A3.30-33 describe code near the signals; the model reads it.            *)
Analyzer(node) ==
    RequireTypes({"SourceSnapshot", "PrioritizedSignalSet"},
        Seals(NoUpdates, <<Seal(BranchId("AnalyzerObservationBranch", node), <<>>)>>))

A3_30 == Analyzer("A3.30")
A3_31 == Analyzer("A3.31")
A3_32 == Analyzer("A3.32")
A3_33 == Analyzer("A3.33")

AnalyzerIds == {BranchId("AnalyzerObservationBranch", n) :
                    n \in {"A3.30", "A3.31", "A3.32", "A3.33"}}

-----------------------------------------------------------------------------
(* What a reply cites: all that the signals cite, the whole catalog, or an *)
(* id that is not in it.                                                   *)
UnknownId == <<<<"unknown">>, 0, NoRequirement>>
Cited(cites) ==
    CASE cites = "signals" -> UNION {s.evidence_ids : s \in Body("PrioritizedSignalSet")}
      [] cites = "catalog" -> Body("EvidenceCatalog").ids
      [] OTHER -> {UnknownId}

FindingDrafts(reply) ==
    {[id |-> d.id, claim |-> d.claim, evidence_ids |-> Cited(d.cites)] : d \in reply}

(* An id that is not in the catalog, or whose value is no number.          *)
InvalidCitation(id) ==
    \/ id \notin Body("EvidenceCatalog").ids
    \/ \E e \in Evidence : e.id = id /\ ~e.numeric

(* The drafts that may come of it, and the calls made: one repair of an    *)
(* invalid reply, one of invalid citations.  Citations that stay invalid   *)
(* are recorded and the drafts are kept.                                   *)
GenerateFindingDrafts ==
    LET drafts == {FindingDrafts(r) : r \in FindingReply}
        wrong(ds) == \E d \in ds : \E id \in d.evidence_ids : InvalidCitation(id)
        first == {[drafts |-> ds, calls |-> n] : ds \in drafts, n \in {1, 2}}
        repaired(g) == {g} \cup {[drafts |-> ds, calls |-> g.calls] : ds \in drafts} IN
    {[drafts |-> {}, calls |-> 2]}
    \cup {g \in first : ~wrong(g.drafts)}
    \cup {[g EXCEPT !.calls = @ + 1] : g \in UNION {repaired(f) : f \in {f \in first : wrong(f.drafts)}}}

A3_40 ==
    Require(AnalyzerIds,
        RequireTypes({"PrioritizedSignalSet", "EvidenceCatalog", "EvidenceBundle"},
            {Exec("continue", [a3_model_tokens_spent |-> g.calls * CallTokens],
                  <<Seal(Id("FindingDraftSet"), g.drafts)>>, host)
                : g \in IF Body("PrioritizedSignalSet") = {}
                          THEN {[drafts |-> {}, calls |-> 0]}
                          ELSE GenerateFindingDrafts}))

(* A citation supports a claim when the item is in the catalog and has a   *)
(* number other than zero.                                                 *)
Supports(id) ==
    /\ id \in Body("EvidenceCatalog").ids
    /\ \A e \in Evidence : e.id = id => e.numeric /\ e.value # 0

A3_41 ==
    RequireTypes({"FindingDraftSet", "EvidenceCatalog", "EvidenceBundle"},
        Seals(NoUpdates,
              <<Seal(Id("CitationResolutionReportSet"),
                     [f \in {d.id : d \in Body("FindingDraftSet")} |->
                        \A d \in Body("FindingDraftSet") : d.id = f =>
                            \A id \in d.evidence_ids : Supports(id)])>>))

(* One call for each draft; an unusable reply is no judgement.             *)
A3_50 ==
    RequireTypes({"FindingDraftSet", "CitationResolutionReportSet"},
        LET findings == {d.id : d \in Body("FindingDraftSet")} IN
        {Exec("continue", [a3_model_tokens_spent |-> Cardinality(findings) * CallTokens],
              <<Seal(Id("FindingJudgementSet"), judgements)>>, host)
            : judgements \in [findings -> Verdict]})

(* No finding reaches the trust (T4) a verified cause needs.               *)
ClaimOf(d) == IF d.claim = "verified_cause" THEN "hypothesis" ELSE d.claim

(* Mutant: what was found of the citations is not looked at.               *)
Findings_Unresolved ==
    {[id |-> d.id, claim |-> ClaimOf(d), evidence_ids |-> d.evidence_ids, trust |-> 1]
        : d \in {d \in Body("FindingDraftSet") : Body("FindingJudgementSet")[d.id] # "invalid"}}

(* A judged finding whose citations all resolve is kept, at T1 if the      *)
(* judge rejects it.                                                       *)
Findings ==
    LET judged(d) == Body("FindingJudgementSet")[d.id]
        trust(d) == IF judged(d) # "accept" THEN 1
                    ELSE IF Cardinality(d.evidence_ids) > 1 THEN 3 ELSE 2 IN
    {[id |-> d.id, claim |-> ClaimOf(d), evidence_ids |-> d.evidence_ids, trust |-> trust(d)]
        : d \in {d \in Body("FindingDraftSet") :
                    judged(d) # "invalid" /\ Body("CitationResolutionReportSet")[d.id]}}

A3_51 ==
    Require(AnalyzerIds,
        RequireTypes({"FindingDraftSet", "CitationResolutionReportSet", "FindingJudgementSet",
                      "EvidenceBundle"},
            IF Findings = {} THEN Routes("rejected", NoUpdates)
            ELSE Seals(NoUpdates,
                       <<Seal(Id("FindingSet"),
                              [evidence_bundle_digest |-> DigestOf("EvidenceBundle"),
                               findings |-> Findings])>>)))

-----------------------------------------------------------------------------
(* A revision keeps the strategies the latest directive does not target.   *)
(* The model is asked again once where its reply is invalid, and may give  *)
(* no strategy at all.                                                     *)
CarriedForward ==
    LET n == state.a3_revision_attempts
        previous == Artifact(PassId("SolutionStrategySet", n - 1))
        targeted == Artifact(PassId("RevisionDirective", n - 1)).strategies IN
    IF n = 0 THEN <<>> ELSE SelectSeq(previous, LAMBDA s : s.id \notin targeted)

Draft(d) == [id |-> d.id, tradeoffs |-> d.tradeoffs, ordered |-> d.ordered, risk |-> d.risk,
             eligible |-> TRUE]

A3_60 ==
    RequireTypes({"FindingSet", "OptimizationRequest", "VerificationManifest"},
        {Exec("continue", [a3_model_tokens_spent |-> calls * CallTokens],
              <<Seal(StageId("StrategyDraftSet", "A3.60"),
                     CarriedForward \o [i \in DOMAIN reply |-> Draft(reply[i])])>>, host)
            : reply \in StrategyReply, calls \in {1, 2}})

(* The strategies as the stage named left them.                            *)
Drafts(stage) == Artifact(StageId("StrategyDraftSet", stage))

(* A gate passes the drafts of the stage before it on; the ones outside    *)
(* the passing positions are no longer eligible.                           *)
Gate(node, from, passing) ==
    Require({StageId("StrategyDraftSet", from)},
        Seals(NoUpdates,
              <<Seal(StageId("StrategyDraftSet", node),
                     [i \in DOMAIN Drafts(from) |->
                        [Drafts(from)[i] EXCEPT !.eligible = @ /\ i \in passing]])>>))

A3_61 == Gate("A3.61", "A3.60", {i \in DOMAIN Drafts("A3.60") : Drafts("A3.60")[i].ordered})

A3_62 == RequireTypes({"OptimizationRequest"},
                      Gate("A3.62", "A3.61", DOMAIN Drafts("A3.61")))

(* A repeated strategy text is a duplicate of the first.                   *)
A3_63 ==
    LET drafts == Drafts("A3.62") IN
    Gate("A3.63", "A3.62",
         {i \in DOMAIN drafts : \A j \in 1 .. i - 1 : drafts[j].tradeoffs # drafts[i].tradeoffs})

(* A strategy is validated by the Compose evaluations and the repository's *)
(* commands; without any it has no plan.  A carried-forward plan names the *)
(* same commands.                                                          *)
A3_64 ==
    RequireTypes({"VerificationManifest", "OptimizationRequest"},
        Gate("A3.64", "A3.63",
             {i \in DOMAIN Drafts("A3.63") :
                Request.execution \/ Body("VerificationManifest").commands # {}}))

(* A path that is not in the snapshot is proposed for creation, so every   *)
(* scope resolves.                                                         *)
A3_70 == RequireTypes({"SourceSnapshot"}, Gate("A3.70", "A3.64", DOMAIN Drafts("A3.64")))

A3_80 ==
    Require({StageId("StrategyDraftSet", "A3.70")},
        Seals(NoUpdates,
              <<Seal(PassRef("SolutionStrategySet"),
                     Drafts("A3.70"))>>))

-----------------------------------------------------------------------------
Strategies == Artifact(PassRef("SolutionStrategySet"))
Eligible(strategies) == {i \in DOMAIN strategies : strategies[i].eligible}

TokensExhausted == state.a3_model_tokens_spent >= Request.model_tokens

(* Mutant: an ineligible strategy among eligible ones is no failure.       *)
A3Passed_OneEligible ==
    Eligible(Strategies) # {}

(* Every finding cites evidence and claims no more than its trust allows;  *)
(* every strategy is eligible, there is one, and no two are the same.      *)
A3Passed ==
    /\ \A f \in Body("FindingSet").findings :
            f.evidence_ids # {} /\ (f.claim = "verified_cause" => f.trust = 4)
    /\ Eligible(Strategies) = DOMAIN Strategies
    /\ Eligible(Strategies) # {}
    /\ \A i, j \in Eligible(Strategies) :
            i # j => Strategies[i].tradeoffs # Strategies[j].tradeoffs

A3_81 ==
    RequireTypes({"FindingSet", "OptimizationRequest"},
        Require({PassRef("SolutionStrategySet")},
            {Exec(IF A3Passed THEN "continue"
                  ELSE IF state.a3_revision_attempts >= MaxRevisionAttempts \/ TokensExhausted
                    THEN "rejected" ELSE "revision",
                  NoUpdates,
                  <<Seal(PassRef("A3QualityReport"),
                         [finding_set_digest |-> DigestOf("FindingSet"),
                          strategy_set_digest |-> Digest(PassRef("SolutionStrategySet")),
                          passed |-> A3Passed])>>, host)}))

RevisionExhausted(next) == next >= MaxRevisionAttempts \/ TokensExhausted

A3_82 ==
    RequireTypes({"OptimizationRequest"},
        Require({PassRef("SolutionStrategySet"), PassRef("A3QualityReport")},
            LET next == state.a3_revision_attempts + 1
                targeted == {s.id : s \in {Strategies[i] :
                                            i \in DOMAIN Strategies \ Eligible(Strategies)}}
                rejected == RevisionExhausted(next) \/ targeted = {} IN
            {Exec(IF rejected THEN "rejected" ELSE "continue", [a3_revision_attempts |-> next],
                  <<Seal(PassRef("RevisionDirective"),
                         [strategies |-> IF rejected THEN {} ELSE targeted])>>, host)}))

A3_90 ==
    RequireTypes({"FindingSet"},
        Require({PassRef("SolutionStrategySet"), PassRef("A3QualityReport")},
            Seals([solution_portfolio_ref |-> NextDigest(1)],
                  <<Seal(Id("SolutionPortfolio"),
                         [finding_set_digest |-> DigestOf("FindingSet"),
                          strategies |-> Strategies,
                          quality_report_digest |-> Digest(PassRef("A3QualityReport"))])>>)))
=============================================================================
