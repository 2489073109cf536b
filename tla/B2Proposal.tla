----------------------------- MODULE B2Proposal -----------------------------
(***************************************************************************)
(* B2: take a qualified opportunity through A3 (B2.22), refuse it when its *)
(* source moved on, and route what touches code to its owner.              *)
(***************************************************************************)
EXTENDS C0Converge

B2_10 == RequireTypes({"QualifiedOpportunity"}, Returns(NoUpdates))

(* The analyzers and the model's context are chosen, and nothing reads     *)
(* them again.                                                             *)
B2_20 == RequireTypes({"RepositoryManifest"}, Returns(NoUpdates))

B2_21 == RequireTypes({"EvidenceBundle", "OptimizationRequest"}, Returns(NoUpdates))

B2_30 == RequireTypes({"QualifiedOpportunity"}, Returns(NoUpdates))

(* Mutant: the revision is not compared.                                   *)
SourceMoved_Unchecked == FALSE

(* Only where the scan's source is known, and git answers there now, can   *)
(* it be found stale.                                                      *)
SourceMoved ==
    /\ host.readable
    /\ Has("ObservedSourceIdentity") /\ Has("RegisteredSourceSet")
    /\ Body("ObservedSourceIdentity").registered
    /\ Body("ObservedSourceIdentity").git_revision \notin {0, host.head}

B2_31 ==
    IF SourceMoved THEN Routes("refresh", [b2_staleness |-> "stale"])
    ELSE Returns([b2_staleness |-> "current"])

B2_40 ==
    RequireTypes({"QualifiedOpportunity", "FindingSet", "SolutionPortfolio", "A3QualityReport"},
        Returns(NoUpdates))

B2_41 == RequireTypes({"SolutionPortfolio"}, Returns(NoUpdates))

(* Any strategy counts, eligible or not.                                   *)
NeedsReview(strategies) ==
    \E i \in DOMAIN strategies : strategies[i].risk \in {"code", "architecture"}

B2_50 ==
    RequireTypes({"SolutionPortfolio"},
        IF NeedsReview(Body("SolutionPortfolio").strategies)
          THEN Routes("approval", [b2_routing |-> "owner_review"])
          ELSE Returns([b2_routing |-> "auto_forward"]))

(* Whatever decision a resume left in the state; nothing is asked here.    *)
B2_51 ==
    Returns([b2_approval |-> CASE state.resume_command = "approve" -> "approved"
                               [] state.resume_command = "reject" -> "rejected"
                               [] state.resume_command = "revise" -> "revision_requested"
                               [] OTHER -> "pending"])

B2_52 ==
    Routes(CASE state.b2_approval = "approved" -> "continue"
             [] state.b2_approval = "revision_requested" -> "revision"
             [] OTHER -> "rejected", NoUpdates)

ProposalTypes == {"QualifiedOpportunity", "FindingSet", "SolutionPortfolio", "A3QualityReport"}

(* Without a review the system approves.                                   *)
B2_60 ==
    RequireTypes(ProposalTypes,
        IF state.b2_routing = "none" THEN Raises
        ELSE Seals(NoUpdates,
                   <<Seal(Id("ProposalEnvelope"),
                          [digests |-> [t \in ProposalTypes |-> DigestOf(t)],
                           routing |-> state.b2_routing,
                           approval |-> IF state.b2_approval = "none" THEN "approved"
                                        ELSE state.b2_approval,
                           staleness |-> IF state.b2_staleness = "none" THEN "current"
                                         ELSE state.b2_staleness])>>))
=============================================================================
