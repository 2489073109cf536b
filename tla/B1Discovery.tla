---------------------------- MODULE B1Discovery ----------------------------
(***************************************************************************)
(* B1: an automatic scan qualifies a signal, writes the request a person   *)
(* would have made, and has A2 (B1.95) measure its baseline.               *)
(*                                                                         *)
(* No query adapter exists, so the branches (B1.32-35) find no evidence    *)
(* and the detectors (B1.50-53) no signal; signals come with the case.     *)
(* Severity is in percent.                                                 *)
(***************************************************************************)
EXTENDS A2Baseline

CONSTANTS
    ReadPolicy,     \* answers of the policy to automatic_discovery_read: allowed or not
    IntakePolicy    \* answers of the policy to automatic_intake

QualificationThreshold == 6000

SeedRegistry == <<"RegisteredSourceSet", "seed", 0>>

B1_10 == Seals(NoUpdates, <<Seal(Id("DiscoveryScanContext"), <<>>)>>)

(* The sources a scan may consider come with the case.                     *)
B1_20 ==
    Require({SeedRegistry},
        Seals(NoUpdates, <<Seal(Id("RegisteredSourceSet"), Artifact(SeedRegistry))>>))

(* The first registered source, at HEAD; none of them is "none".           *)
B1_21 ==
    Require({Id("RegisteredSourceSet")},
        LET registered == Artifact(Id("RegisteredSourceSet")) # {} IN
        Seals(NoUpdates,
              <<Seal(Id("ObservedSourceIdentity"),
                     [registered |-> registered,
                      git_revision |-> IF registered THEN host.head ELSE 0])>>))

B1_30 ==
    Require({Id("RegisteredSourceSet")},
        Seals(NoUpdates, <<Seal(Id("HistoricalSourceInventory"), <<>>)>>))

B1_31 ==
    UNION {Seals(NoUpdates, <<Seal(Id("ReadAuthorization"), [allowed |-> allowed])>>)
            : allowed \in ReadPolicy}

QueryBranch(node) ==
    RequireTypes({"ReadAuthorization"},
        Seals(NoUpdates, <<Seal(BranchId("HistoricalEvidenceBranch", node), <<>>)>>))

B1_32 == QueryBranch("B1.32")
B1_33 == QueryBranch("B1.33")
B1_34 == QueryBranch("B1.34")
B1_35 == QueryBranch("B1.35")

QueryBranchIds == {BranchId("HistoricalEvidenceBranch", n) :
                    n \in {"B1.32", "B1.33", "B1.34", "B1.35"}}

(* No evidence makes no run group.                                         *)
B1_40 == Require(QueryBranchIds, Returns(NoUpdates))

B1_41 == Returns(NoUpdates)

(* b1_signals is an adding channel: a detector without a signal adds none. *)
Detector == Returns(NoUpdates)

B1_50 == Detector
B1_51 == Detector
B1_52 == Detector
B1_53 == Detector

(* No feature is ever resolved, and no owner.                              *)
B1_60 == Returns(NoUpdates)

B1_61 ==
    IF state.b1_signals = <<>> THEN Returns([b1_source |-> NoSource])
    ELSE RequireTypes({"ObservedSourceIdentity"},
            LET identity == Body("ObservedSourceIdentity") IN
            Returns([b1_source |-> [resolved |-> identity.registered,
                                    git_revision |-> identity.git_revision]]))

B1_62 == Returns(NoUpdates)

(* 70% severity and a constant 15%, in units of 0.0001.                    *)
B1_70 ==
    Returns([b1_scores |-> [i \in DOMAIN state.b1_signals |->
                                70 * state.b1_signals[i].severity + 1500]])

Qualified == \E i \in DOMAIN state.b1_scores : state.b1_scores[i] >= QualificationThreshold

(* A quarantine needs an ownership conflict, which B1.62 never reports.    *)
B1_71 ==
    {Exec(IF Qualified THEN "continue" ELSE "rejected",
          [b1_qualified |-> IF Qualified THEN "yes" ELSE "no"], <<>>, host)}

(* Two signals of one metric are merged, which ends the scan.              *)
B1_80 ==
    LET signals == state.b1_signals IN
    Routes(IF \E i, j \in DOMAIN signals : i # j /\ signals[i].metric = signals[j].metric
             THEN "merged" ELSE "continue", NoUpdates)

B1_81 ==
    IF state.b1_qualified # "yes" THEN Routes("closed", NoUpdates)
    ELSE RequireTypes({"DiscoveryScanContext"},
            Seals(NoUpdates,
                  <<Seal(Id("DetectionReport"),
                         [signals |-> state.b1_signals, source |-> state.b1_source])>>))

(* The first signal of the greatest severity.                              *)
TopSignal(signals) ==
    signals[CHOOSE i \in DOMAIN signals :
        /\ \A j \in DOMAIN signals : signals[j].severity <= signals[i].severity
        /\ \A j \in 1 .. i - 1 : signals[j].severity < signals[i].severity]

(* The request approves itself.  Its requirement names no metric, so the   *)
(* collectors are bound to the criterion's id in its place.                *)
B1_90 ==
    Require({Id("RegisteredSourceSet")},
        RequireTypes({"DetectionReport"},
            LET report == Body("DetectionReport")
                top == TopSignal(report.signals)
                criterion == "auto-" \o top.id IN
            Seals([request_ref |-> NextDigest(1)],
                  <<Seal(Id("OptimizationRequest"),
                         [origin |-> "automatic",
                          located |-> Artifact(Id("RegisteredSourceSet")) # {},
                          requested_revision |-> report.source.git_revision,
                          criteria |-> {[id |-> criterion, metric |-> top.metric,
                                         direction |-> "minimize", target |-> top.value,
                                         unit |-> top.unit, aggregation |-> "mean"]},
                          guardrails |-> {},
                          commands |-> {},
                          execution |-> FALSE,
                          requirements |->
                            {Requirement(<<"evidence", criterion>>, criterion, "none",
                                         {"benchmark", "test", "telemetry"}, 3, "none", "mean")},
                          model_tokens |-> 100000,
                          approved |-> TRUE,
                          approval_digest |-> "self",
                          fingerprint |-> "self"])>>)))

(* The approval route asks nobody: no interrupt is set.                    *)
B1_91 ==
    RequireTypes({"OptimizationRequest"},
        UNION {Routes(CASE answer = "allow" -> "continue"
                        [] answer = "deny" -> "rejected"
                        [] OTHER -> "approval", NoUpdates)
                : answer \in IntakePolicy})

OpportunityTypes == {"DetectionReport", "OptimizationRequest", "SourceSnapshot",
                     "BaselineSnapshot", "EvidenceBundle", "ComparabilityReport"}

B1_96 ==
    RequireTypes(OpportunityTypes,
        Seals(NoUpdates,
              <<Seal(Id("QualifiedOpportunity"),
                     [digests |-> [t \in OpportunityTypes |-> DigestOf(t)],
                      source |-> Body("DetectionReport").source])>>))
=============================================================================
