----------------------------- MODULE S07Report -----------------------------
(***************************************************************************)
(* S07, Report: check the digest chain of the final pass, reconstruct the  *)
(* earlier passes, and seal the OptimizationReport.                        *)
(***************************************************************************)
EXTENDS S06Decide

(* The chain from the selected solution to the decision.                   *)
Chain ==
    {Selected, ExecutionPlan, TaskList, BaselineSnapshot}
        \cup {Current(t) : t \in {"PatchArtifact", "ExecutionProvenance",
                                  "VerificationReport", "Measurement", "Decision"}}

Intact ==
    LET plan == Digest(ExecutionPlan)
        patch == Digest(Current("PatchArtifact"))
        provenance == Digest(Current("ExecutionProvenance"))
        Of(type) == Artifact(Current(type)) IN
    /\ Artifact(ExecutionPlan).selected = Digest(Selected)
    /\ Artifact(TaskList).plan = plan
    /\ Of("PatchArtifact").plan = plan
    /\ Of("PatchArtifact").provenance = provenance
    /\ Of("ExecutionProvenance").plan = plan
    /\ Of("VerificationReport").patch = patch
    /\ Of("VerificationReport").provenance = provenance
    /\ Of("Measurement").patch = patch
    /\ Of("Measurement").baseline = Digest(BaselineSnapshot)
    /\ Of("Decision").measurement = Digest(Current("Measurement"))
    /\ Of("Decision").verification = Digest(Current("VerificationReport"))

S07_10 ==
    Require(Chain, Routes(IF Intact THEN "continue" ELSE "rejected", NoUpdates))

S07_20 == Returns(NoUpdates)

(* Mutant: the earlier passes are left out.                                *)
RepairPasses_None == {}

RepairPasses == 0 .. LoopPass - 1

(* The assertion on the final decision raises.                             *)
S07_30 ==
    LET decision == Current("Decision") IN
    IF decision \in DOMAIN state.artifact_refs /\ Artifact(decision).outcome = "KEEP"
      THEN Returns([s07_outcomes |-> [repaired |-> RepairPasses, criteria |-> Criterion]])
      ELSE Raises

S07_40 ==
    Require({Current(t) : t \in {"StatisticalReport", "ComparabilityReport", "Decision"}},
        Returns(NoUpdates))

S07_50 ==
    LET apply == Current("RepositoryApplyResult") IN
    Require({Current("PatchArtifact"), ExecutionPlan, apply},
        Returns([s07_applied |-> Artifact(apply).applied]))

S07_60 == Returns(NoUpdates)

(* The narrative falls back to the facts; the provider may still raise.    *)
S07_70 == Returns(NoUpdates) \cup Raises

(* The report's id has the phase, and 0 for the pass.                      *)
OptimizationReport == Staged("OptimizationReport", state.s03_active_phase, 0)

S07_80 ==
    LET decision == Current("Decision") IN
    Require({decision},
        Seals(NoUpdates,
            <<Seal(OptimizationReport,
                   [decision |-> Digest(decision), outcomes |-> state.s07_outcomes,
                    applied |-> state.s07_applied])>>))

S07_90 ==
    Require({OptimizationReport},
        LET outcomes == Artifact(OptimizationReport).outcomes IN
        Routes(IF /\ Criterion \subseteq outcomes.criteria
                  /\ RepairPasses \subseteq outcomes.repaired
                 THEN "continue" ELSE "rejected", NoUpdates))
=============================================================================
