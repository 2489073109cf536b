----------------------------- MODULE CaseState -----------------------------
(***************************************************************************)
(* The state of one case in the shared workflow (contracts/state.py).  The *)
(* host it works on holds the workspaces and git branches of the machine.  *)
(* An artifact id is <<artifact_type, phase, pass>>, with 0 where the id   *)
(* has no such part.                                                       *)
(***************************************************************************)
EXTENDS NodeExecution

CONSTANTS
    Portfolio,      \* the SolutionPortfolios a converged case may carry
    Criterion,      \* criteria of the OptimizationRequest, numbered in its order
    Weight,         \* criterion -> weight
    Commands        \* command kinds the RepositoryManifest detected

(* A request lists finitely many criteria: some of them have a last one.   *)
ASSUME CriterionAssumption ==
    /\ Criterion \subseteq Nat
    /\ \A some \in SUBSET Criterion :
          some # {} => \E c \in some : \A d \in some : d <= c

SolutionPortfolio == <<"SolutionPortfolio", 0, 0>>
BaselineSnapshot == <<"BaselineSnapshot", 0, 0>>
ExecutionPlan == <<"ExecutionPlan", 0, 0>>
TaskList == <<"TaskList", 0, 0>>
RankingResult(n) == <<"RankingResult", 0, n>>
SelectedSolution(n) == <<"SelectedSolution", 0, n>>
PlanQualityReport(n) == <<"PlanQualityReport", 0, n>>

(* Mutant: the ids of the phase loop carry no pass number.                 *)
Staged_Unscoped(type, ph, n) == <<type, ph, 0>>

(* The artifact ids of one pass over one phase.                            *)
Staged(type, ph, n) == <<type, ph, n>>

(* `_s01_pass_number': S01's pass is the number of strategies S06.80 has   *)
(* excluded; the phase loop's is s03_revision_attempts.                    *)
S01Pass == Cardinality(state.s01_excluded)
LoopPass == state.s03_revision_attempts

(* This pass's artifact of the active phase.                               *)
Current(type) == Staged(type, state.s03_active_phase, LoopPass)
Selected == SelectedSolution(S01Pass)
Strategy == Artifact(SolutionPortfolio)[Artifact(Selected).strategy]

-----------------------------------------------------------------------------
NoInterrupt == [stage |-> "none", digest |-> 0]
NoDraft == [phases |-> <<>>, tasks |-> {}, phase_failures |-> FALSE,
            task_failures |-> FALSE, path_repairs |-> FALSE,
            covered |-> FALSE, rollback_ok |-> FALSE]

(* What C0.70 hands over for portfolio p.                                  *)
ConvergedCase(p) ==
    [artifact_refs |->
        [id \in {SolutionPortfolio, BaselineSnapshot} |->
            IF id = SolutionPortfolio THEN [digest |-> 1, body |-> p]
                                      ELSE [digest |-> 2, body |-> <<>>]],
     completed_nodes |-> {},
     pending_interrupt |-> NoInterrupt,
     resume_command |-> "none",
     resume_attempts |-> 0,
     resume_target_node |-> "none",
     s01_excluded |-> {},
     s01_eligible |-> {},
     s01_factors |-> <<>>,
     s01_scores |-> <<>>,
     s01_ranked |-> <<>>,
     s01_flags |-> {},
     s01_routing |-> [needs_approval |-> FALSE, winner |-> 0],
     s01_approval |-> "none",
     s02_draft |-> NoDraft,
     s02_critic_approved |-> FALSE,
     s02_approval |-> "none",
     s02_revision_attempts |-> 0,
     s03_completed |-> {},
     s03_implemented |-> {},
     s03_revision_attempts |-> 0,
     s03_active_phase |-> 0,
     s03_workspace |-> 0,
     s03_executor |-> "none",
     s04_gate |-> "unset",
     s04_kinds |-> {},
     s04_results |-> {},
     s04_regressions |-> {},
     s05_isolated |-> FALSE,
     s05_measured |-> <<>>,
     s05_quality |-> FALSE,
     s06_met |-> {},
     s06_guardrails |-> FALSE,
     s06_attribution |-> "none",
     s06_decision |-> "none",
     s06_rollback_verified |-> FALSE,
     s06_applied |-> FALSE,
     s07_outcomes |-> [repaired |-> {}, criteria |-> {}],
     s07_applied |-> FALSE]
=============================================================================
