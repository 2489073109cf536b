----------------------------- MODULE C0Converge -----------------------------
(***************************************************************************)
(* C0: both lanes hand their artifacts to one gate, which checks their     *)
(* schemas, digest chain, equivalence and freshness and seals the          *)
(* ConvergedCase.                                                          *)
(***************************************************************************)
EXTENDS A3Portfolio

ConvergeTypes == {"OptimizationRequest", "SourceSnapshot", "BaselineSnapshot", "EvidenceBundle",
                  "FindingSet", "SolutionPortfolio", "A3QualityReport"}

Origin == IF state.lane = "manual" THEN "manual" ELSE "automatic"

C0_10 ==
    RequireTypes({"OptimizationRequest"},
        IF Request.origin # Origin THEN Raises ELSE Returns(NoUpdates))

(* What was sealed parses again.                                           *)
C0_20 == RequireTypes(ConvergeTypes, Returns([c0_schema_results |-> TRUE]))

(* The first report of its type is A3's first pass, whichever pass the     *)
(* portfolio was sealed on.                                                *)
DigestLinks ==
    /\ Body("BaselineSnapshot").request_digest = DigestOf("OptimizationRequest")
    /\ Body("BaselineSnapshot").source_snapshot_digest = DigestOf("SourceSnapshot")
    /\ Body("EvidenceBundle").baseline_digest = DigestOf("SourceSnapshot")
    /\ Body("FindingSet").evidence_bundle_digest = DigestOf("EvidenceBundle")
    /\ Body("SolutionPortfolio").finding_set_digest = DigestOf("FindingSet")
    /\ Body("SolutionPortfolio").quality_report_digest = DigestOf("A3QualityReport")
    /\ Body("A3QualityReport").finding_set_digest = DigestOf("FindingSet")

C0_30 == RequireTypes(ConvergeTypes, Returns([c0_digest_chain |-> DigestLinks]))

(* The baseline copies the request's workload and environment, so only the *)
(* quality report can differ.                                              *)
C0_40 ==
    RequireTypes({"OptimizationRequest", "BaselineSnapshot", "A3QualityReport"},
        Returns([c0_equivalence_verdicts |-> Body("A3QualityReport").passed]))

(* The source compared is A2's own copy of the tree, which no commit       *)
(* changes; the evidence may have aged past the window.                    *)
C0_50 ==
    RequireTypes({"SourceSnapshot", "EvidenceBundle"},
        UNION {Returns([c0_freshness_checks |-> fresh])
                : fresh \in IF Evidence = {} THEN {TRUE} ELSE BOOLEAN})

Converged ==
    /\ state.c0_schema_results
    /\ state.c0_digest_chain
    /\ state.c0_equivalence_verdicts
    /\ state.c0_freshness_checks
    /\ Eligible(Body("SolutionPortfolio").strategies) # {}

C0_60 ==
    RequireTypes({"SolutionPortfolio"},
        {Exec(IF Converged THEN "continue" ELSE "rejected", NoUpdates,
              <<Seal(Id("ConvergenceDecision"), [converged |-> Converged])>>, host)})

HandoffTypes == {"OptimizationRequest", "SourceSnapshot", "BaselineSnapshot", "EvidenceBundle",
                 "SolutionPortfolio", "ConvergenceDecision"}

C0_70 ==
    RequireTypes(HandoffTypes,
        Seals([convergence_ref |-> NextDigest(1), status |-> "converged"],
              <<Seal(Id("ConvergedCase"),
                     [origin |-> Origin, digests |-> [t \in HandoffTypes |-> DigestOf(t)]])>>))
=============================================================================
