----------------------------- MODULE S04Verify -----------------------------
(***************************************************************************)
(* S04, Verify: run the repository's own checks in S03's workspace, gate   *)
(* on them, seal the VerificationReport, and either promote the phase's    *)
(* tasks or count a repair attempt.                                        *)
(***************************************************************************)
EXTENDS S03Implement

CONSTANT BaselineMean   \* command kinds with a baseline aggregate -> its mean

StaticKinds == {"build", "lint", "type"}
MandatoryKinds == StaticKinds \cup {"unit"}

WorkspaceExists == state.s03_workspace \in DOMAIN host.workspaces

(* Starts a new s04_manifest: no gate until S04.80 sets one.               *)
S04_10 ==
    Require({ExecutionPlan, Current("PatchArtifact")},
        Routes(IF WorkspaceExists THEN "continue" ELSE "rejected",
               [s04_gate |-> "unset", s04_kinds |-> {},
                s04_results |-> {}, s04_regressions |-> {}]))

S04_20 == Returns([s04_kinds |-> Commands \ {"benchmark"}])

(* A job that is refused, is not answered in time or finds no workspace is *)
(* a failed check; what the job itself raises, reconcile raises again.     *)
RunChecks(kinds) ==
    (IF kinds = {} THEN {} ELSE Raises) \cup
    UNION {Returns([s04_results |->
                state.s04_results \cup {[kind |-> k, passed |-> k \in green] : k \in kinds}])
            : green \in IF WorkspaceExists THEN SUBSET kinds ELSE {{}}}

S04_30 == RunChecks(state.s04_kinds \cap StaticKinds)
S04_40 == RunChecks(state.s04_kinds \cap {"unit"})
S04_50 == RunChecks(state.s04_kinds \cap {"integration", "security"})

S04_60 == Require({Current("PatchArtifact")}, Returns(NoUpdates))

BaselineFailing == {k \in DOMAIN BaselineMean : BaselineMean[k] # 0}

S04_70 ==
    Returns([s04_regressions |->
        {r.kind : r \in {x \in state.s04_results :
                            ~x.passed /\ x.kind \notin BaselineFailing}}])

Passed ==
    /\ \E r \in state.s04_results : r.kind \in MandatoryKinds
    /\ \A r \in state.s04_results : r.passed

S04_80 ==
    Routes(IF Passed THEN "continue" ELSE "revision",
           [s04_gate |-> IF Passed THEN "passed" ELSE "failed"])

(* Mutant: the tasks are promoted whatever the verdict.                    *)
Verdict_AlwaysPromotes(passed) ==
    [s03_completed |-> state.s03_completed \cup PhaseTasks(state.s03_active_phase),
     s03_revision_attempts |-> IF passed THEN LoopPass ELSE LoopPass + 1]

(* A pass completes the phase's tasks, a failure counts an attempt.        *)
Verdict(passed) ==
    IF passed
      THEN [s03_completed |-> state.s03_completed \cup PhaseTasks(state.s03_active_phase)]
      ELSE [s03_revision_attempts |-> LoopPass + 1]

(* A phase for which no check was resolved is reported as one failed check.*)
CheckResults ==
    IF state.s04_results = {} THEN {[kind |-> "integration", passed |-> FALSE]}
    ELSE state.s04_results

S04_90 ==
    LET patch == Current("PatchArtifact")
        provenance == Current("ExecutionProvenance") IN
    Require({patch, provenance, TaskList},
        Seals(Verdict(Passed),
              <<Seal(Current("VerificationReport"),
                     [patch |-> Digest(patch), provenance |-> Digest(provenance),
                      checks |-> CheckResults, passed |-> Passed])>>))
=============================================================================
