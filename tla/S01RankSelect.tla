--------------------------- MODULE S01RankSelect ---------------------------
(***************************************************************************)
(* S01, Rank & Select: score the portfolio's eligible strategies, rank     *)
(* them, and select the winner, by policy or by the owner's decision.      *)
(*                                                                         *)
(* A strategy is its index in the portfolio.  Confidences, effort,         *)
(* reversibility and uncertainty count twentieths; a total score counts    *)
(* 1/(400 * TotalWeight), which makes every term of the formula whole.     *)
(***************************************************************************)
EXTENDS CaseState, FiniteSetsExt

ApprovalTiers == {2, 3}     \* code, architecture, above experiment_config, prompt

TotalWeight == MapThenSumSet(LAMBDA c : Weight[c], Criterion)
TieMargin == 20 * TotalWeight
LowConfidence == 10

S01_10 == Returns(NoUpdates)

S01_20 ==
    LET strategies == Artifact(SolutionPortfolio)
        eligible == {i \in DOMAIN strategies \ state.s01_excluded :
                        /\ strategies[i].eligible
                        /\ strategies[i].reversible
                        /\ strategies[i].resolved} IN
    Routes(IF eligible # {} THEN "continue" ELSE "rejected", [s01_eligible |-> eligible])

S01_30 ==
    LET strategies == Artifact(SolutionPortfolio) IN
    Returns([s01_factors |->
        [i \in state.s01_eligible |->
            [benefit |-> strategies[i].benefit,
             effort |-> strategies[i].effort,
             reversibility |-> strategies[i].reversibility,
             risk |-> strategies[i].uncertainty]]])

S01_40 ==
    LET strategies == Artifact(SolutionPortfolio)
        weight(c) == IF c \in Criterion THEN Weight[c] ELSE 0
        contribution(f) == [c \in DOMAIN f.benefit |-> f.benefit[c] * weight(c)]
        total(f) ==
            11 * MapThenSumSet(LAMBDA c : contribution(f)[c], DOMAIN f.benefit)
              + TotalWeight * (4 * f.effort + 3 * f.reversibility - 2 * f.risk) IN
    Returns([s01_scores |->
        [i \in DOMAIN state.s01_factors |->
            [tier |-> strategies[i].tier,
             contribution |-> contribution(state.s01_factors[i]),
             total |-> total(state.s01_factors[i])]]])

(* The next strategy `_rank' takes: of those within the tie margin of the  *)
(* best, the lowest tier; then the higher score, then portfolio order.     *)
Winner(scores, remaining) ==
    LET top == Max({scores[i].total : i \in remaining})
        tied == {i \in remaining : top - scores[i].total <= TieMargin} IN
    CHOOSE i \in tied : \A j \in tied \ {i} :
        \/ scores[i].tier < scores[j].tier
        \/ /\ scores[i].tier = scores[j].tier
           /\ \/ scores[i].total > scores[j].total
              \/ scores[i].total = scores[j].total /\ i < j

Rank(scores) ==
    LET from[remaining \in SUBSET DOMAIN scores] ==
            IF remaining = {} THEN <<>>
            ELSE LET w == Winner(scores, remaining) IN <<w>> \o from[remaining \ {w}]
    IN  from[DOMAIN scores]

S01_50 == Returns([s01_ranked |-> Rank(state.s01_scores)])

(* _perturb_score adds half of the criterion's contribution to the total.  *)
Perturbed(scores, c) ==
    [i \in DOMAIN scores |->
        IF c \in DOMAIN scores[i].contribution
          THEN [scores[i] EXCEPT !.total = @ + 10 * scores[i].contribution[c]]
          ELSE scores[i]]

S01_60 ==
    Returns([s01_flags |->
        IF state.s01_ranked = <<>> THEN {}
        ELSE {c \in Criterion :
                Rank(Perturbed(state.s01_scores, c))[1] # state.s01_ranked[1]}])

S01_70 ==
    LET winner == state.s01_ranked[1]
        strategy == Artifact(SolutionPortfolio)[winner]
        improving == DOMAIN strategy.benefit IN
    Returns([s01_routing |->
        [winner |-> winner,
         needs_approval |->
            \/ strategy.tier \in ApprovalTiers
            \/ state.s01_flags # {}
            \/ MapThenSumSet(LAMBDA c : strategy.benefit[c], improving)
                 < LowConfidence * Cardinality(improving)
            \/ improving = {}]])

(* A halt keeps the default route, continue.                               *)
S01_80 ==
    LET ranking == <<Seal(RankingResult(S01Pass), [ranked |-> state.s01_ranked])>>
        decided(route, approval) ==
            {Exec(route, [s01_approval |-> approval], ranking, host)} IN
    IF ~state.s01_routing.needs_approval THEN decided("continue", "auto_selected")
    ELSE IF state.resume_command = "none"
      THEN Seals([pending_interrupt |-> [stage |-> "S01.80", digest |-> clock + 1],
                  s01_approval |-> "pending"], ranking)
    ELSE IF state.resume_command = "approve" THEN decided("continue", "approved")
    ELSE decided("rejected", "rejected")

(* A rejected approval returns the undeclared route REJECTED, which        *)
(* _validate_execution refuses.                                            *)
S01_90 ==
    Require({RankingResult(S01Pass)},
        IF state.s01_approval \in {"none", "rejected"} THEN Raises
        ELSE Seals(NoUpdates,
                <<Seal(Selected, [ranking |-> Digest(RankingResult(S01Pass)),
                                  strategy |-> state.s01_routing.winner,
                                  approval |-> state.s01_approval])>>))
=============================================================================
