------------------------------ MODULE S02Plan ------------------------------
(***************************************************************************)
(* S02, Plan & Task List: a model drafts phases and tasks, deterministic   *)
(* checks and a critic judge the draft, S02.81 seals it or asks for        *)
(* another one, S02.90 is the owner's approval.                            *)
(*                                                                         *)
(* A phase is its sequence number.  A draft's phase says whether it        *)
(* validates, its kind, tier (-1 if undeclared), the criteria it affects,  *)
(* those its done_criteria cover, and whether it has a rollback command;   *)
(* a task its phase, dependencies and how its path resolves.               *)
(***************************************************************************)
EXTENDS S01RankSelect

CONSTANTS
    Draft,              \* drafts the generator model may return
    MaxS02Revisions     \* _MAX_S02_REVISIONS

ASSUME MaxS02RevisionsAssumption == MaxS02Revisions \in Nat

(* Its route, rejected if the scope no longer resolves on disk, has no     *)
(* conditional edge to read it, and s02_resolution_ok has no reader.       *)
S02_10 == Require({Selected}, Returns(NoUpdates))

S02_20 == Require({Selected}, Returns(NoUpdates))

(* The model may fail to give a schema-valid reply, even after one repair, *)
(* and the provider may raise.                                             *)
S02_30 ==
    Require({Selected},
        Raises \cup
        UNION {Returns([s02_draft |-> [NoDraft EXCEPT !.phases = d.phases, !.tasks = d.tasks]])
                : d \in Draft \cup {NoDraft}})

(* Only missing or invalid metadata is filled in.                          *)
Completed(phase) ==
    [phase EXCEPT !.tier = IF @ = -1 THEN Strategy.tier ELSE @,
                  !.affects = IF @ = {} THEN Strategy.impacts ELSE @]

S02_40 ==
    LET draft == state.s02_draft
        valid(phase) == phase.valid IN
    Require({Selected},
        Returns([s02_draft |->
            [draft EXCEPT
                !.phases = SelectSeq([i \in DOMAIN @ |-> Completed(@[i])], valid),
                !.phase_failures = \E i \in DOMAIN draft.phases : ~draft.phases[i].valid]]))

Known(draft) == {draft.phases[i].id : i \in DOMAIN draft.phases}

S02_50 ==
    LET draft == state.s02_draft
        kept == {t \in draft.tasks : t.valid /\ t.phase \in Known(draft)} IN
    Returns([s02_draft |->
        [draft EXCEPT !.tasks = kept,
                      !.task_failures = kept # draft.tasks,
                      !.path_repairs = \E t \in draft.tasks : t.path = "near"]])

(* _criterion_coverage, for every criterion the strategy has an impact on. *)
S02_60 ==
    LET draft == state.s02_draft
        covers(i, c) == c \in draft.phases[i].affects \cap draft.phases[i].done IN
    Require({Selected},
        Returns([s02_draft |->
            [draft EXCEPT !.covered =
                /\ Strategy.impacts # {}
                /\ \A c \in Strategy.impacts : \E i \in DOMAIN draft.phases : covers(i, c)]]))

S02_70 ==
    LET draft == state.s02_draft IN
    Returns([s02_draft |->
        [draft EXCEPT !.rollback_ok =
            \A i \in DOMAIN draft.phases :
                draft.phases[i].kind = "implementation" => draft.phases[i].rollback]])

(* The critic's own verdict, whatever grounding keeps of its reasons.      *)
S02_80 ==
    Raises \cup UNION {Returns([s02_critic_approved |-> verdict]) : verdict \in BOOLEAN}

-----------------------------------------------------------------------------
(* _check_acyclic: no set of tasks in which each depends on another.       *)
Acyclic(tasks) ==
    \A cycle \in SUBSET tasks \ {{}} :
        \E t \in cycle : \A u \in cycle : u.id \notin t.deps

(* _check_phase_risk_order and _check_risk_ladder_order.                   *)
Before(phases, i, j) == phases[i].id < phases[j].id

RiskOrdered(phases) ==
    \A i, j \in DOMAIN phases :
        phases[i].kind = "diagnostic" /\ phases[j].kind = "implementation"
            => Before(phases, i, j)

LadderOrdered(phases) ==
    \A i, j \in DOMAIN phases :
        Before(phases, i, j) => phases[i].tier <= phases[j].tier

(* The ten dimensions of PlanQualityReport; a repaired path is its own.    *)
Sound(draft) ==
    /\ draft.phases # <<>> /\ ~draft.phase_failures
    /\ draft.tasks # {} /\ ~draft.task_failures
    /\ Acyclic(draft.tasks)
    /\ RiskOrdered(draft.phases)
    /\ LadderOrdered(draft.phases)
    /\ \A t \in draft.tasks : t.path = "missing" => t.creates
    /\ ~draft.path_repairs
    /\ draft.covered
    /\ draft.rollback_ok
    /\ state.s02_critic_approved

RedraftRoute(n) == IF n < MaxS02Revisions THEN "revision" ELSE "rejected"

S02_81 ==
    LET draft == state.s02_draft
        n == state.s02_revision_attempts
        report(plan) == Seal(PlanQualityReport(n), [passed |-> plan # 0, plan |-> plan])
        counted == [s02_revision_attempts |-> n + 1] IN
    Require({Selected},
        IF Sound(draft)
          THEN Seals(counted,
                 <<Seal(ExecutionPlan, [selected |-> Digest(Selected),
                                        phases |-> Known(draft)]),
                   Seal(TaskList, [plan |-> clock + 1,
                                   tasks |-> {[id |-> t.id, phase |-> t.phase]
                                                : t \in draft.tasks}]),
                   report(clock + 1)>>)
          ELSE {Exec(RedraftRoute(n), counted, <<report(0)>>, host)})

S02_90 ==
    Require({Selected, ExecutionPlan},
        IF Strategy.tier \notin ApprovalTiers
          THEN Returns([s02_approval |-> "auto_approved"])
        ELSE IF state.resume_command = "none"
          THEN Routes("approval",
                 [pending_interrupt |-> [stage |-> "S02.90", digest |-> Digest(ExecutionPlan)],
                  s02_approval |-> "pending"])
        ELSE IF state.resume_command = "approve"
          THEN Returns([s02_approval |-> "approved"])
        ELSE Routes("rejected", [s02_approval |-> "rejected"]))
=============================================================================
