------------------------- MODULE MCSharedWorkflow -------------------------
(* Small instances of SharedWorkflow.                                      *)
EXTENDS SharedWorkflow

MCCriterion == {1, 2}
MCWeight == [c \in MCCriterion |-> c]
MCCommands == {"unit", "benchmark"}
MCCommandsLint == {"lint", "unit", "benchmark"}
MCMetricKind == <<"unit", "benchmark">>
MCBaselineMean == [k \in {"unit", "benchmark"} |-> 1]
MCMinSamples == <<1, 2>>
MCValue == {0, 1, 2}
MCDirection == <<"minimize", "maximize">>
MCTarget == <<0, 1>>
MCGuardrail == {[metric |-> "benchmark", operator |-> "lt", threshold |-> 2],
                [metric |-> "unit", operator |-> "lte", threshold |-> 0]}

(* Strategies: a reversible configuration change, and a code change that   *)
(* needs the owner's approval.                                             *)
Config == [eligible |-> TRUE, reversible |-> TRUE, resolved |-> TRUE, tier |-> 0,
           impacts |-> {1}, benefit |-> [c \in {1} |-> 16],
           effort |-> 20, reversibility |-> 20, uncertainty |-> 2]
Code == [eligible |-> TRUE, reversible |-> TRUE, resolved |-> TRUE, tier |-> 2,
         impacts |-> {1, 2}, benefit |-> [c \in {1, 2} |-> 18],
         effort |-> 12, reversibility |-> 15, uncertainty |-> 4]
Unresolved == [Code EXCEPT !.resolved = FALSE]

MCPortfolio == {<<Config, Unresolved>>, <<Config, Code>>, <<Unresolved>>}

Phase(n, kind, tier) ==
    [id |-> n, valid |-> TRUE, kind |-> kind, tier |-> tier, affects |-> {1, 2},
     done |-> {1, 2}, rollback |-> TRUE]
Task(n, ph, deps, path) ==
    [id |-> n, phase |-> ph, valid |-> TRUE, deps |-> deps, path |-> path, creates |-> FALSE]

OnePhase ==
    [phases |-> <<Phase(1, "implementation", -1)>>, tasks |-> {Task(1, 1, {}, "exact")}]
TwoPhases ==
    [phases |-> <<Phase(1, "diagnostic", 0), Phase(2, "implementation", 2)>>,
     tasks |-> {Task(1, 1, {}, "exact"), Task(2, 2, {1}, "exact")}]
Cyclic == [TwoPhases EXCEPT !.tasks = {Task(1, 1, {2}, "exact"), Task(2, 2, {1}, "exact")}]

MCDraft == {OnePhase, TwoPhases, Cyclic}
MCDraftTwoPhases == {TwoPhases}
=============================================================================
