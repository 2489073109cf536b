------------------------------- MODULE Lanes -------------------------------
(***************************************************************************)
(* The root graph: lane A takes a manual case through A1, A2, A3 and C0;   *)
(* lane B a scan through B1 (with A2 mounted in it), or a qualified        *)
(* opportunity through B2 (with A3 mounted in it) and C0.  NodeRuntime     *)
(* runs every node, on a graph without a checkpointer: a caller that       *)
(* resumes an interrupt, or restarts after an exception or a crash,        *)
(* invokes the graph from START again and the intent ledger replays what   *)
(* was completed.                                                          *)
(*                                                                         *)
(* One node execution is one step.  The branches of a fan-out read what    *)
(* came before it and write artifacts of their own, so their order does    *)
(* not matter and they run in the order of their ids.                      *)
(***************************************************************************)
EXTENDS B1Discovery, B2Proposal

CONSTANTS
    MaxResumes,     \* bound on the resumes of one invocation
    MaxRestarts,    \* bound on invocations after the first
    CrashPoints,    \* the <<case, node>> before which the process may die
    LossPoints,     \* the <<case, node>> before which the source may be lost
    MaxCommits,     \* bound on commits to the source repository
    MaxTokens       \* bound on the tokens a case is charged, laps of a circle included

VARIABLES
    case,           \* the name of the case
    pc,             \* the next node, "initialize", "end", "raised" or "conflict"
    intents,        \* idempotency key -> the execution recorded for it
    node_routes,    \* node -> its RouteHistory
    restarts,
    answers         \* history: the <<stage, decision>> the owner has given

vars == <<state, host, clock, case, pc, intents, node_routes, restarts, answers>>

Route == INSTANCE RouteHistory WITH Continue <- "continue"

-----------------------------------------------------------------------------
(* Edges (orchestration/subgraphs).                                        *)

Nodes ==
    [A1 |-> <<"A1.10", "A1.20", "A1.30", "A1.40", "A1.50", "A1.60", "A1.61", "A1.62",
              "A1.63", "A1.70", "A1.71", "A1.80", "A1.90", "A1.95">>,
     A2 |-> <<"A2.10", "A2.20", "A2.30", "A2.31", "A2.40", "A2.41", "A2.50", "A2.60",
              "A2.61", "A2.62", "A2.63", "A2.64", "A2.70", "A2.71", "A2.80", "A2.90",
              "A2.91", "A2.95">>,
     A3 |-> <<"A3.10", "A3.11", "A3.20", "A3.21", "A3.30", "A3.31", "A3.32", "A3.33",
              "A3.40", "A3.41", "A3.50", "A3.51", "A3.60", "A3.61", "A3.62", "A3.63",
              "A3.64", "A3.70", "A3.80", "A3.81", "A3.82", "A3.90">>,
     B1 |-> <<"B1.10", "B1.20", "B1.21", "B1.30", "B1.31", "B1.32", "B1.33", "B1.34",
              "B1.35", "B1.40", "B1.41", "B1.50", "B1.51", "B1.52", "B1.53", "B1.60",
              "B1.61", "B1.62", "B1.70", "B1.71", "B1.80", "B1.81", "B1.90", "B1.91",
              "B1.96">>,
     B2 |-> <<"B2.10", "B2.20", "B2.21", "B2.30", "B2.31", "B2.40", "B2.41", "B2.50",
              "B2.51", "B2.52", "B2.60">>,
     C0 |-> <<"C0.10", "C0.20", "C0.30", "C0.40", "C0.50", "C0.60", "C0.70">>]

Stage == DOMAIN Nodes

(* The nodes with conditional edges.                                       *)
RouteRead == {"A1.80", "A1.90", "A2.10", "A2.31", "A2.40", "A2.50", "A2.90", "A2.91",
              "A3.51", "A3.81", "A3.82", "B1.71", "B1.80", "B1.81", "B1.91",
              "B2.31", "B2.50", "B2.52", "C0.60"}

(* The edges that do not lead to the next node in the list; B1.91 leads    *)
(* into the mounted A2, B2.21 and B2.52 into the mounted A3.               *)
Jumps ==
    (<<"A3.81", "continue">> :> "A3.90") @@ (<<"A3.81", "revision">> :> "A3.82")
    @@ (<<"A3.82", "continue">> :> "A3.60") @@ (<<"B1.91", "continue">> :> "A2.10")
    @@ (<<"B2.21", "continue">> :> "A3.10") @@ (<<"B2.50", "continue">> :> "B2.60")
    @@ (<<"B2.50", "approval">> :> "B2.51") @@ (<<"B2.52", "revision">> :> "A3.10")

(* Only the plain key of A2.50 is read.                                    *)
RouteOf(n, routes) ==
    CASE n \notin RouteRead -> "continue"
      [] n = "A2.50" -> routes[n][1]
      [] OTHER -> Route!RouteFor(routes[n])

(* Mutant: a node that did not continue is run again.                      *)
InnerEdge_Again(s, i, routes) ==
    LET n == Nodes[s][i]
        route == RouteOf(n, routes) IN
    IF <<n, route>> \in DOMAIN Jumps THEN Jumps[<<n, route>>]
    ELSE IF route # "continue" THEN n
    ELSE IF i = Len(Nodes[s]) THEN "END"
    ELSE Nodes[s][i + 1]

InnerEdge(s, i, routes) ==
    LET n == Nodes[s][i]
        route == RouteOf(n, routes) IN
    IF <<n, route>> \in DOMAIN Jumps THEN Jumps[<<n, route>>]
    ELSE IF route # "continue" \/ i = Len(Nodes[s]) THEN "END"
    ELSE Nodes[s][i + 1]

(* What follows a graph that ended, in the graph it is mounted in.         *)
OuterEdge(s, st) ==
    LET completed(n, next) == IF n \in st.completed_nodes THEN next ELSE "end"
        manual == st.lane = "manual" IN
    CASE s = "A1" -> completed("A1.95", "A2.10")
      [] s = "A2" -> completed("A2.95", IF manual THEN "A3.10" ELSE "B1.96")
      [] s = "A3" -> completed("A3.90", IF manual THEN "C0.10" ELSE "B2.30")
      [] s = "B2" -> completed("B2.60", "C0.10")
      [] OTHER -> "end"

AfterNode(s, i, st, routes) ==
    LET next == InnerEdge(s, i, routes) IN
    IF next # "END" THEN next ELSE OuterEdge(s, st)

-----------------------------------------------------------------------------
(* NodeRuntime.                                                            *)

IdempotencyKey(s, n) ==
    <<n, IF s = "A3" THEN state.a3_revision_attempts ELSE 0,
      IF state.resume_target_node = n THEN state.resume_attempts ELSE 0>>

(* _commit, the reducers and the edges, for a recorded execution r.        *)
Commit(s, i, r) ==
    LET n == Nodes[s][i]
        st == [Merge(state, r.updates) EXCEPT
                 !.artifact_refs = MergeArtifactRefs(@, r.refs),
                 !.completed_nodes = @ \cup {n}]
        routes == IF n \notin RouteRead THEN node_routes
                  ELSE [node_routes EXCEPT ![n] =
                          Route!MergeNodeRoutes(@, Route!NextRouteKey(@, r.route), r.route)]
    IN  IF RefConflict(state.artifact_refs, r.refs)
          THEN pc' = "conflict" /\ UNCHANGED <<state, node_routes>>
          ELSE /\ state' = st
               /\ node_routes' = routes
               /\ pc' = AfterNode(s, i, st, routes)

(* A COMPLETED intent is replayed, whatever the state is now.              *)
Replay(s, i) ==
    LET key == IdempotencyKey(s, Nodes[s][i]) IN
    /\ key \in DOMAIN intents
    /\ Commit(s, i, intents[key])
    /\ UNCHANGED <<host, clock, intents>>

Execute(s, i, execs) ==
    LET key == IdempotencyKey(s, Nodes[s][i]) IN
    /\ key \notin DOMAIN intents
    /\ \E x \in execs :
        LET r == [route |-> x.route, updates |-> x.updates, refs |-> RefsOf(x)] IN
        /\ host' = x.host
        /\ clock' = clock + Len(x.seals)
        /\ IF x.route = "raise"
              THEN pc' = "raised" /\ UNCHANGED <<state, node_routes, intents>>
              ELSE intents' = (key :> r) @@ intents /\ Commit(s, i, r)

Node(s, i, execs) ==
    /\ pc = Nodes[s][i]
    /\ state.a3_model_tokens_spent < MaxTokens
    /\ Replay(s, i) \/ Execute(s, i, execs)
    /\ UNCHANGED <<case, restarts, answers>>

-----------------------------------------------------------------------------
A1 ==
    \/ Node("A1", 1, A1_10) \/ Node("A1", 2, A1_20) \/ Node("A1", 3, A1_30)
    \/ Node("A1", 4, A1_40) \/ Node("A1", 5, A1_50) \/ Node("A1", 6, A1_60)
    \/ Node("A1", 7, A1_61) \/ Node("A1", 8, A1_62) \/ Node("A1", 9, A1_63)
    \/ Node("A1", 10, A1_70) \/ Node("A1", 11, A1_71) \/ Node("A1", 12, A1_80)
    \/ Node("A1", 13, A1_90) \/ Node("A1", 14, A1_95)

A2 ==
    \/ Node("A2", 1, A2_10) \/ Node("A2", 2, A2_20) \/ Node("A2", 3, A2_30)
    \/ Node("A2", 4, A2_31) \/ Node("A2", 5, A2_40) \/ Node("A2", 6, A2_41)
    \/ Node("A2", 7, A2_50) \/ Node("A2", 8, A2_60) \/ Node("A2", 9, A2_61)
    \/ Node("A2", 10, A2_62) \/ Node("A2", 11, A2_63) \/ Node("A2", 12, A2_64)
    \/ Node("A2", 13, A2_70) \/ Node("A2", 14, A2_71) \/ Node("A2", 15, A2_80)
    \/ Node("A2", 16, A2_90) \/ Node("A2", 17, A2_91) \/ Node("A2", 18, A2_95)

A3 ==
    \/ Node("A3", 1, A3_10) \/ Node("A3", 2, A3_11) \/ Node("A3", 3, A3_20)
    \/ Node("A3", 4, A3_21)
    \/ Node("A3", 5, A3_30) \/ Node("A3", 6, A3_31) \/ Node("A3", 7, A3_32)
    \/ Node("A3", 8, A3_33)
    \/ Node("A3", 9, A3_40) \/ Node("A3", 10, A3_41) \/ Node("A3", 11, A3_50)
    \/ Node("A3", 12, A3_51) \/ Node("A3", 13, A3_60) \/ Node("A3", 14, A3_61)
    \/ Node("A3", 15, A3_62) \/ Node("A3", 16, A3_63) \/ Node("A3", 17, A3_64)
    \/ Node("A3", 18, A3_70) \/ Node("A3", 19, A3_80) \/ Node("A3", 20, A3_81)
    \/ Node("A3", 21, A3_82) \/ Node("A3", 22, A3_90)

B1 ==
    \/ Node("B1", 1, B1_10) \/ Node("B1", 2, B1_20) \/ Node("B1", 3, B1_21)
    \/ Node("B1", 4, B1_30) \/ Node("B1", 5, B1_31)
    \/ Node("B1", 6, B1_32) \/ Node("B1", 7, B1_33) \/ Node("B1", 8, B1_34)
    \/ Node("B1", 9, B1_35)
    \/ Node("B1", 10, B1_40) \/ Node("B1", 11, B1_41)
    \/ Node("B1", 12, B1_50) \/ Node("B1", 13, B1_51) \/ Node("B1", 14, B1_52)
    \/ Node("B1", 15, B1_53)
    \/ Node("B1", 16, B1_60) \/ Node("B1", 17, B1_61) \/ Node("B1", 18, B1_62)
    \/ Node("B1", 19, B1_70) \/ Node("B1", 20, B1_71) \/ Node("B1", 21, B1_80)
    \/ Node("B1", 22, B1_81) \/ Node("B1", 23, B1_90) \/ Node("B1", 24, B1_91)
    \/ Node("B1", 25, B1_96)

B2 ==
    \/ Node("B2", 1, B2_10) \/ Node("B2", 2, B2_20) \/ Node("B2", 3, B2_21)
    \/ Node("B2", 4, B2_30) \/ Node("B2", 5, B2_31) \/ Node("B2", 6, B2_40)
    \/ Node("B2", 7, B2_41) \/ Node("B2", 8, B2_50) \/ Node("B2", 9, B2_51)
    \/ Node("B2", 10, B2_52) \/ Node("B2", 11, B2_60)

C0 ==
    \/ Node("C0", 1, C0_10) \/ Node("C0", 2, C0_20) \/ Node("C0", 3, C0_30)
    \/ Node("C0", 4, C0_40) \/ Node("C0", 5, C0_50) \/ Node("C0", 6, C0_60)
    \/ Node("C0", 7, C0_70)

-----------------------------------------------------------------------------
(* The root graph's own node, its callers and the environment.             *)

FirstNode == [manual |-> "A1.10", discovery |-> "B1.10", qualified |-> "B2.10"]

(* What A3, B2 and C0 seal.                                                *)
ProposedTypes ==
    {"A3IntakeDecision", "EvidenceCatalog", "ProblemSignalSet", "PrioritizedSignalSet",
     "AnalyzerObservationBranch", "FindingDraftSet", "CitationResolutionReportSet",
     "FindingJudgementSet", "FindingSet", "StrategyDraftSet", "SolutionStrategySet",
     "A3QualityReport", "RevisionDirective", "SolutionPortfolio", "ProposalEnvelope",
     "ConvergenceDecision", "ConvergedCase"}

(* A case starts with the payload of its command and no decision           *)
(* (StartWorkflowCommand.initial_state); a qualified one with what its     *)
(* scan left, and perhaps the owner's decision.                            *)
ASSUME CasesAssumption ==
    \A name \in DOMAIN Cases :
        LET c == Cases[name] IN
        /\ c.entrypoint \in {"manual", "discovery", "qualified"}
        /\ c.clock \in Nat
        /\ \A id \in DOMAIN c.refs : c.refs[id].digest \in 1 .. c.clock
        /\ c.entrypoint = "manual" =>
              DOMAIN c.refs = {Id("ManualCasePayload")} /\ c.resume_command = "none"
        /\ c.entrypoint = "discovery" =>
              DOMAIN c.refs = {SeedRegistry} /\ c.resume_command = "none"
        /\ c.entrypoint = "qualified" =>
              \A id \in DOMAIN c.refs : id[1] \notin ProposedTypes

(* The lane has to fit the entrypoint.                                     *)
InitializeCase ==
    /\ pc = "initialize"
    /\ IF state.lane # (IF state.entrypoint = "manual" THEN "manual" ELSE "automatic")
         THEN pc' = "raised" /\ UNCHANGED state
         ELSE /\ state' = [state EXCEPT !.status = "running"]
              /\ pc' = FirstNode[state.entrypoint]
    /\ UNCHANGED <<host, clock, case, intents, node_routes, restarts, answers>>

Pending == state.pending_interrupt # NoInterrupt

AllowedDecisions ==
    [n \in {"A1.80", "A1.90", "A2.31", "A2.40"} |->
        IF n \in {"A1.90", "A2.31"} THEN {"approve", "reject"} ELSE {"revise", "reject"}]

(* Mutant: the halted node's artifact stays in the state.                  *)
WithoutInterrupted_Kept(refs, digest) == refs

(* The refs without what the halted node sealed.                           *)
WithoutInterrupted(refs, digest) ==
    [id \in {id \in DOMAIN refs : refs[id].digest # digest} |-> refs[id]]

(* resume_case without a checkpoint: the state the graph ended with goes   *)
(* through it from START again.  Only the plain key of the halted node's   *)
(* route is dropped.                                                       *)
Resume(decision) ==
    LET interrupt == state.pending_interrupt IN
    /\ pc = "end" /\ Pending
    /\ state.resume_attempts < MaxResumes
    /\ decision \in AllowedDecisions[interrupt.stage]
    /\ state' = [state EXCEPT !.artifact_refs = WithoutInterrupted(@, interrupt.digest),
                              !.resume_command = decision,
                              !.resume_attempts = @ + 1,
                              !.resume_target_node = interrupt.stage,
                              !.pending_interrupt = NoInterrupt]
    /\ node_routes' = [node_routes EXCEPT ![interrupt.stage] =
                          [slot \in DOMAIN @ \ {1} |-> @[slot]]]
    /\ answers' = answers \cup {<<interrupt.stage, decision>>}
    /\ pc' = "initialize"
    /\ UNCHANGED <<host, clock, case, intents, restarts>>

(* A new invocation with the state the case began with; a new process has  *)
(* a new local broker.                                                     *)
Invoke(jobs) ==
    /\ restarts < MaxRestarts
    /\ state' = NewCase(Cases[case])
    /\ node_routes' = [n \in RouteRead |-> <<>>]
    /\ host' = [host EXCEPT !.jobs = jobs]
    /\ pc' = "initialize"
    /\ restarts' = restarts + 1
    /\ UNCHANGED <<clock, case, intents, answers>>

(* The caller tries again after an exception.                              *)
Retry == pc = "raised" /\ Invoke(host.jobs)

(* The process dies and the case is run again.                             *)
Crash == <<case, pc>> \in CrashPoints /\ Invoke({})

(* Somebody commits to the source before it is compared with a revision.   *)
CommitToSource ==
    /\ pc \in {"A2.20", "B2.31"}
    /\ host' \in Commits(host) \ {host}
    /\ UNCHANGED <<state, clock, case, pc, intents, node_routes, restarts, answers>>

(* The source's directory is gone, or git fails there or takes too long,   *)
(* by the time it is looked at again.                                      *)
LoseSource ==
    /\ <<case, pc>> \in LossPoints /\ host.readable
    /\ host' = [host EXCEPT !.readable = FALSE]
    /\ UNCHANGED <<state, clock, case, pc, intents, node_routes, restarts, answers>>

Stopped ==
    \/ pc = "conflict"
    \/ state.a3_model_tokens_spent >= MaxTokens
    \/ pc = "end" /\ (Pending => state.resume_attempts >= MaxResumes)
    \/ pc = "raised" /\ restarts >= MaxRestarts

Init ==
    /\ case \in DOMAIN Cases
    /\ state = NewCase(Cases[case])
    /\ host = [head |-> Cases[case].head, commits |-> MaxCommits, readable |-> TRUE,
               repo |-> Cases[case].repo, jobs |-> {}]
    /\ clock = Cases[case].clock
    /\ pc = "initialize"
    /\ intents = <<>>
    /\ node_routes = [n \in RouteRead |-> <<>>]
    /\ restarts = 0 /\ answers = {}

Invocation == InitializeCase \/ A1 \/ A2 \/ A3 \/ B1 \/ B2 \/ C0

Next ==
    \/ Invocation
    \/ \E decision \in {"approve", "reject", "revise"} : Resume(decision)
    \/ Retry
    \/ Crash
    \/ CommitToSource
    \/ LoseSource
    \/ Stopped /\ UNCHANGED vars

(* The graph goes on while it can; nobody has to resume or retry it.       *)
Spec == Init /\ [][Next]_vars /\ WF_vars(Invocation)

-----------------------------------------------------------------------------
(* Properties.                                                             *)

Refs == state.artifact_refs

(* The owner sent the proposal back: B2.52 leads into A3 again.            *)
SentBack == state.entrypoint = "qualified" /\ state.resume_command = "revise"

(* A case is lost to merge_artifact_refs only on a second resume of one    *)
(* invocation, or when a proposal is sent back to A3: neither a restart    *)
(* from the ledger, nor a revision of A3's own, nor a first resume, which  *)
(* runs the halted node again and replays the others, offers a second      *)
(* digest for an artifact the state holds.                                 *)
FirstResumeIsSafe == pc = "conflict" => state.resume_attempts > 1 \/ SentBack

(* A manual request is the requester's own.  Its quality report passed,    *)
(* the approval covers the artifacts it was built from, as they are now,   *)
(* and came from an owner, the policy, or an answer to A1.90's interrupt;  *)
(* and what the requester stated in structured fields was not replaced by  *)
(* what the model read in the raw text (A1.20, A1.80, A1.90, A1.95).       *)
RequestIsTheRequesters ==
    state.lane = "manual" /\ Has("OptimizationRequest") =>
        LET stated == Payload.fields
            given(f, value) == f \in DOMAIN stated => stated[f] = value
            approval == Body("A1ApprovalDecision") IN
        /\ Body("A1QualityReport").passed /\ Body("RawRequestDraft").conflicts = {}
        /\ approval.approved
        /\ approval.fingerprint = RequestFingerprint
        /\ \/ approval.by \in OwnerRoles \cup {"policy"}
           \/ approval.by = "resume" /\ <<"A1.90", "approve">> \in answers
        /\ Payload.criteria = <<>> =>
              \A c \in Request.criteria :
                  /\ given("metric_id", c.metric) /\ given("direction", c.direction)
                  /\ given("target", c.target) /\ given("unit", c.unit)

(* A baseline measured in this case (A2.95) is grounded in it: taken on a  *)
(* snapshot of the revision that was approved, linked to the request and   *)
(* the snapshot in the state, with evidence for every mandatory            *)
(* requirement and, where a benchmark command contributed to it, the       *)
(* samples it asked for; an observation keeps its quantity through the     *)
(* conversion of its unit; and what no requirement asked for is not        *)
(* aggregated.                                                             *)
BaselineIsGrounded ==
    "A2.95" \in state.completed_nodes =>
        LET baseline == Body("BaselineSnapshot")
            items(r) == {e \in Evidence : e.req = r.id}
            sampled(r) == \E e \in items(r) : e.type = "benchmark_command_result" IN
        /\ baseline.request_digest = DigestOf("OptimizationRequest")
        /\ baseline.source_snapshot_digest = DigestOf("SourceSnapshot")
        /\ Request.requested_revision \in {0, Body("SourceSnapshot").git_revision}
        /\ \A r \in Request.requirements :
              r.mandatory => items(r) # {} /\ (sampled(r) => Cardinality(items(r)) >= r.minimum)
        /\ \A e \in Evidence : \E raw \in Collected :
              /\ raw.id = e.id
              /\ IF raw.unit = e.unit THEN raw.value = e.value
                 ELSE e.value * UnitFactors[<<raw.unit, e.unit>>].over
                        = raw.value * UnitFactors[<<raw.unit, e.unit>>].times
        /\ \A a \in baseline.aggregates : \E r \in Request.requirements :
              a.metric \in {r.metric, r.criterion}

(* Evidence comes only from what was authorized: every item a branch       *)
(* collected (A2.60-64) is of an action A2.50 submitted, or of the source  *)
(* map A2.64 builds itself; and a command the model proposed (A2.31) is in *)
(* the manifest only once the owner has approved one.  What a scan handed  *)
(* over was authorized in the scan.                                        *)
EvidenceIsAuthorized ==
    LET sealed == DOMAIN Refs \ DOMAIN Cases[case].refs IN
    /\ \A id \in {id \in sealed : id[1] = "BranchEvidenceRefs"} : \A e \in Artifact(id) :
          \/ e.id[1] = <<"builtin", "source-map">>
          \/ e.id[1] \in Body("ExecutionAuthorization").actions
    /\ Id("VerificationManifest") \in sealed =>
          \A c \in Body("VerificationManifest").commands :
              c.source = "llm_suggested" => <<"A2.31", "approve">> \in answers

(* A portfolio (A3.90) was judged.  The quality report it names passed on  *)
(* the very strategies it holds; every finding was judged and rests on     *)
(* numbers in the bundle, and none claims a verified cause.  It took at    *)
(* most three passes, and no revision was begun once the model's budget    *)
(* was spent.                                                              *)
PortfolioIsJudged ==
    Has("SolutionPortfolio") =>
        LET portfolio == Body("SolutionPortfolio") IN
        /\ \E n \in 0 .. MaxRevisionAttempts - 1 :
              LET report == PassId("A3QualityReport", n)
                  drafted == PassId("SolutionStrategySet", n) IN
              /\ {report, drafted} \subseteq DOMAIN Refs
              /\ portfolio.quality_report_digest = Digest(report)
              /\ Artifact(report).passed
              /\ Artifact(report).strategy_set_digest = Digest(drafted)
              /\ portfolio.strategies = Artifact(drafted)
        /\ \A f \in Body("FindingSet").findings :
              /\ f.claim # "verified_cause"
              /\ Body("FindingJudgementSet")[f.id] # "invalid"
              /\ f.evidence_ids # {}
              /\ \A cited \in f.evidence_ids : \E e \in Evidence :
                    e.id = cited /\ e.numeric
        /\ state.a3_revision_attempts > 0 =>
              state.a3_model_tokens_spent < Request.model_tokens + 2 * CallTokens

(* A proposal (B2.60) was routed by its risk and by its source: where a    *)
(* strategy touches code or architecture the owner approved it; and, in a  *)
(* case that ran through without a restart and whose source B2.31 could    *)
(* read, the source was still at the revision the scan observed.           *)
ProposalIsReviewed ==
    Has("ProposalEnvelope") =>
        LET observed == Body("ObservedSourceIdentity").git_revision
            strategies == Body("SolutionPortfolio").strategies IN
        /\ (\E i \in DOMAIN strategies : strategies[i].risk \in {"code", "architecture"})
              => Body("ProposalEnvelope").routing = "owner_review"
                 /\ state.resume_command = "approve"
        /\ Has("ObservedSourceIdentity") /\ restarts = 0 /\ host.readable
              => observed \in {0, host.head}

(* What converges (C0.70) is whole: one origin, a portfolio of eligible    *)
(* strategies only, passed by the report C0 read, on evidence C0 found     *)
(* fresh; an automatic case comes with a proposal, and the opportunity it  *)
(* was made for names the request, snapshot, baseline and evidence that    *)
(* converge.                                                               *)
ConvergedIsSound ==
    Has("ConvergedCase") =>
        LET converged == Body("ConvergedCase")
            strategies == Body("SolutionPortfolio").strategies IN
        /\ converged.origin = Request.origin
        /\ strategies # <<>> /\ Eligible(strategies) = DOMAIN strategies
        /\ Body("SolutionPortfolio").quality_report_digest = DigestOf("A3QualityReport")
        /\ Body("A3QualityReport").passed
        /\ state.c0_freshness_checks
        /\ state.lane = "automatic" =>
              /\ Has("ProposalEnvelope")
              /\ \A t \in OpportunityTypes \cap HandoffTypes :
                    Body("QualifiedOpportunity").digests[t] = converged.digests[t]

(* Every invocation ends, whatever the models, workers and policies        *)
(* answer: the revisions of A3 are bounded, and a replay from the ledger   *)
(* never goes round in a circle, unless the proposal is sent back.         *)
InvocationEnds ==
    pc = "initialize" /\ ~SentBack ~> pc \in {"end", "raised", "conflict"}

-----------------------------------------------------------------------------
(* What the code's documentation says, and the model refutes.              *)

(* shared.py of c0_handlers: the seven types C0 reads are "stable,         *)
(* non-revision-pass-scoped", so that a portfolio whose own report passed, *)
(* with fresh evidence, converges.                                         *)
PassedPortfolioConverges ==
    Has("ConvergenceDecision") /\ state.c0_freshness_checks =>
        Body("ConvergenceDecision").converged

(* resume_case: "Every node already completed before the halt still        *)
(* cache-hits unchanged", so that no resumed case conflicts.               *)
ResumeCacheHits == pc = "conflict" => state.resume_attempts = 0
=============================================================================
