----------------------------- MODULE S06Decide -----------------------------
(***************************************************************************)
(* S06, Decide: judge targets and guardrails, decide KEEP, FIX_ONE_PART or *)
(* REVERT, verify a revert's rollback, seal the Decision, and on KEEP      *)
(* apply the patch to the real repository as a branch.                     *)
(*                                                                         *)
(* host.branches maps a phase whose branch exists to the patch committed   *)
(* on it and whether a left-over worktree still has it checked out.        *)
(***************************************************************************)
EXTENDS S05Remeasure

CONSTANTS
    Direction,      \* criterion -> "minimize", "maximize" or "target"
    Target,         \* criterion -> target value
    Guardrail       \* guardrails, as [metric, operator, threshold] records

S06_10 ==
    LET verification == Current("VerificationReport")
        statistical == Current("StatisticalReport") IN
    Require({verification, Current("Measurement"), statistical},
        Routes(IF /\ Artifact(verification).passed
                  /\ Criterion \subseteq DOMAIN Artifact(statistical).effects
                 THEN "continue" ELSE "rejected", NoUpdates))

Met(c, value) ==
    CASE Direction[c] = "minimize" -> value <= Target[c]
      [] Direction[c] = "maximize" -> value >= Target[c]
      [] OTHER -> value = Target[c]

S06_20 ==
    LET statistical == Current("StatisticalReport") IN
    Require({statistical},
        LET effects == Artifact(statistical).effects IN
        Returns([s06_met |-> {c \in Criterion \cap DOMAIN effects : Met(c, effects[c])}]))

ApplyOperator(value, op, threshold) ==
    CASE op = "lt" -> value < threshold
      [] op = "lte" -> value <= threshold
      [] op = "eq" -> value = threshold
      [] op = "gte" -> value >= threshold
      [] op = "gt" -> value > threshold

(* Effects first (of the last criterion with the metric), then exit codes, *)
(* and no evidence fails the guardrail.                                    *)
GuardrailPassed(g, effects, checks) ==
    LET criteria == {c \in DOMAIN effects : MetricKind[c] = g.metric}
        ran == {r \in checks : r.kind = g.metric} IN
    IF criteria # {}
      THEN ApplyOperator(effects[Max(criteria)], g.operator, g.threshold)
      ELSE \E r \in ran :
              ApplyOperator(IF r.passed THEN 0 ELSE 1, g.operator, g.threshold)

S06_30 ==
    LET verification == Current("VerificationReport")
        statistical == Current("StatisticalReport") IN
    Require({verification, statistical},
        Returns([s06_guardrails |->
            \A g \in Guardrail : GuardrailPassed(g, Artifact(statistical).effects,
                                                 Artifact(verification).checks)]))

(* Every criterion has an evaluation.                                      *)
S06_40 ==
    Returns([s06_attribution |->
        IF Criterion = {} THEN "no_evidence"
        ELSE IF state.s06_met = Criterion THEN "all_targets_met"
        ELSE IF state.s06_met = {} THEN "wrong_direction"
        ELSE "repairable"])

(* Mutant: the decision table ignores guardrails.                          *)
Decided_NoGuardrails ==
    CASE state.s06_attribution = "all_targets_met" -> "KEEP"
      [] state.s06_attribution = "repairable" -> "FIX_ONE_PART"
      [] OTHER -> "REVERT"

Decided ==
    CASE ~state.s06_guardrails -> "REVERT"
      [] state.s06_guardrails /\ state.s06_attribution = "all_targets_met" -> "KEEP"
      [] state.s06_guardrails /\ state.s06_attribution = "repairable" -> "FIX_ONE_PART"
      [] OTHER -> "REVERT"

S06_50 == Returns([s06_decision |-> Decided])

(* A revert verifies that the original repository is untouched.            *)
S06_60 ==
    LET patch == Current("PatchArtifact") IN
    IF state.s06_decision # "REVERT" THEN Returns([s06_rollback_verified |-> TRUE])
    ELSE Require({patch},
            UNION {Seals([s06_rollback_verified |-> untouched],
                         <<Seal(Current("RollbackReport"),
                                [patch |-> Digest(patch), untouched |-> untouched])>>)
                    : untouched \in BOOLEAN})

S06_70 ==
    Returns([s06_decision |->
        IF state.s06_decision = "REVERT" /\ ~state.s06_rollback_verified
          THEN "ESCALATE" ELSE state.s06_decision])

(* Mutant: FIX_ONE_PART does not count an attempt.                         *)
DecisionUpdates_Uncounted ==
    IF state.s06_decision = "REVERT"
      THEN [s01_excluded |-> state.s01_excluded \cup {Artifact(Selected).strategy}]
      ELSE NoUpdates

DecisionUpdates ==
    CASE state.s06_decision = "FIX_ONE_PART" -> [s03_revision_attempts |-> LoopPass + 1]
      [] state.s06_decision = "REVERT" ->
            [s01_excluded |-> state.s01_excluded \cup {Artifact(Selected).strategy}]
      [] OTHER -> NoUpdates

S06_80 ==
    LET verification == Current("VerificationReport")
        measurement == Current("Measurement")
        revert == state.s06_decision = "REVERT" IN
    Require({verification, measurement}
              \cup (IF revert THEN {Current("RollbackReport"), Selected} ELSE {}),
        Seals(DecisionUpdates,
            <<Seal(Current("Decision"),
                   [outcome |-> state.s06_decision, met |-> state.s06_met,
                    guardrails |-> state.s06_guardrails,
                    verification |-> Digest(verification),
                    measurement |-> Digest(measurement)])>>))

-----------------------------------------------------------------------------
(* S06.90 runs after S06.80.                                               *)

ApplyResult(applied, approval, h) ==
    {Exec("continue", [s06_applied |-> applied],
          <<Seal(Current("RepositoryApplyResult"),
                 [patch |-> Digest(Current("PatchArtifact")), applied |-> applied,
                  approval |-> approval])>>, h)}

(* The branch of this phase; 0 is the base revision, without the patch.    *)
WithBranch(patch, checkedOut) ==
    [host EXCEPT !.branches =
        [ph \in DOMAIN @ \cup {state.s03_active_phase} |->
            IF ph = state.s03_active_phase
              THEN [patch |-> patch, checked_out |-> checkedOut] ELSE @[ph]]]

(* `git branch -D' refuses a branch that is checked out.                   *)
WithoutBranch ==
    [host EXCEPT !.branches =
        [ph \in {q \in DOMAIN @ : q # state.s03_active_phase \/ @[q].checked_out} |-> @[ph]]]

(* What a failed attempt leaves: nothing, or, as the cleanup is best       *)
(* effort, the branch: as it was made, or with the commit if only the last *)
(* rev-parse failed; still checked out if `worktree remove' failed.        *)
Leftovers ==
    {host} \cup {WithBranch(patch, checkedOut)
                    : patch \in {0, Digest(Current("PatchArtifact"))}, checkedOut \in BOOLEAN}

(* Mutant: the outcome of the git steps is not looked at.                  *)
ApplyPatchToRealRepo_Unchecked(approval) ==
    UNION {ApplyResult(TRUE, approval, h) : h \in Leftovers}

(* HEAD has moved; the branch exists already, so that it cannot be made    *)
(* and may be deleted; a git step fails; or the commit is made.            *)
ApplyPatchToRealRepo(approval) ==
    ApplyResult(FALSE, approval, host)
      \cup IF state.s03_active_phase \in DOMAIN host.branches
             THEN ApplyResult(FALSE, approval, WithoutBranch)
             ELSE UNION {ApplyResult(FALSE, approval, h) : h \in Leftovers}
                  \cup UNION {ApplyResult(TRUE, approval,
                                         WithBranch(Digest(Current("PatchArtifact")), checkedOut))
                                : checkedOut \in BOOLEAN}

(* Mutant: the decision is not consulted.                                  *)
Kept_Always == TRUE

Kept == state.s06_decision = "KEEP"

(* No resume command: the policy denies, allows, or asks for approval.     *)
S06_90 ==
    LET patch == Current("PatchArtifact") IN
    IF ~Kept THEN Returns([s06_applied |-> FALSE])
    ELSE Require({patch},
        IF state.resume_command = "none"
          THEN ApplyResult(FALSE, "denied", host)
                 \cup ApplyPatchToRealRepo("auto_allowed")
                 \cup Routes("approval",
                        [pending_interrupt |-> [stage |-> "S06.90", digest |-> Digest(patch)],
                         s06_applied |-> FALSE])
        ELSE IF state.resume_command = "approve" THEN ApplyPatchToRealRepo("approved")
        ELSE ApplyResult(FALSE, "rejected", host))
=============================================================================
