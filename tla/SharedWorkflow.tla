--------------------------- MODULE SharedWorkflow ---------------------------
(***************************************************************************)
(* The shared workflow graph, S01 -> S02 -> (S03 <-> S04 <-> S05 <-> S06)  *)
(* -> S07, run by NodeRuntime on a checkpointed graph that pauses after    *)
(* S01 and S02, and the driver that proceeds past a pause or resumes an    *)
(* interrupt.                                                              *)
(*                                                                         *)
(* One node execution is one step: its execution, or the cached one of its *)
(* idempotency key, committed through the channels' reducers, and the      *)
(* edges followed to the next node.  NodeRuntime.tla opens that step up.   *)
(***************************************************************************)
EXTENDS S07Report

CONSTANTS
    MaxPhaseRepairAttempts,     \* _MAX_PHASE_REPAIR_ATTEMPTS
    MaxCrashes,                 \* bound on crashes of the process
    MaxLosses,                  \* bound on workspaces lost from the temp dir
    Decision                    \* decisions an interrupt may be resumed with

(* At least one attempt is made; the bounds are numbers.                   *)
ASSUME BoundsAssumption ==
    /\ MaxPhaseRepairAttempts \in Nat \ {0}
    /\ MaxCrashes \in Nat /\ MaxLosses \in Nat /\ MaxLeaks \in Nat

VARIABLES
    pc,             \* the next node, "paused", "end", "raised" or "conflict"
    intents,        \* idempotency key -> the execution recorded for it
    node_routes,    \* node -> its RouteHistory
    last,           \* the top-level stage that ran last
    legs,           \* plain invoke(None) calls the driver has left
    crashes, losses

vars == <<state, host, clock, pc, intents, node_routes, last, legs, crashes, losses>>

Route == INSTANCE RouteHistory WITH Continue <- "continue"

-----------------------------------------------------------------------------
(* Edges inside a stage (orchestration/subgraphs).                         *)

Nodes ==
    [S01 |-> <<"S01.10", "S01.20", "S01.30", "S01.40", "S01.50", "S01.60", "S01.70",
               "S01.80", "S01.90">>,
     S02 |-> <<"S02.10", "S02.20", "S02.30", "S02.40", "S02.50", "S02.60", "S02.70",
               "S02.80", "S02.81", "S02.90">>,
     S03 |-> <<"S03.10", "S03.20", "S03.30", "S03.40", "S03.50", "S03.60", "S03.70",
               "S03.80", "S03.90">>,
     S04 |-> <<"S04.10", "S04.20", "S04.30", "S04.40", "S04.50", "S04.60", "S04.70",
               "S04.80", "S04.90">>,
     S05 |-> <<"S05.10", "S05.20", "S05.30", "S05.40", "S05.50", "S05.60", "S05.70",
               "S05.80", "S05.90">>,
     S06 |-> <<"S06.10", "S06.20", "S06.30", "S06.40", "S06.50", "S06.60", "S06.70",
               "S06.80", "S06.90">>,
     S07 |-> <<"S07.10", "S07.20", "S07.30", "S07.40", "S07.50", "S07.60", "S07.70",
               "S07.80", "S07.90">>]

Stage == DOMAIN Nodes

(* Nodes whose rejection ends the stage early.                             *)
Gates == {"S01.20", "S01.80", "S02.81", "S03.10", "S03.60", "S03.70", "S04.10",
          "S05.30", "S05.70", "S06.10", "S07.10"}

(* The routes the graph reads back, through route_for.                     *)
RouteRead == Gates \cup {"S06.90"}

(* The node after stage s's i-th, given the routes; "END" of the stage.    *)
InnerEdge(s, i, routes) ==
    LET n == Nodes[s][i]
        halts == n \in Gates /\ Route!RouteFor(routes[n]) # "continue" IN
    IF halts THEN IF Route!RouteFor(routes[n]) = "revision" THEN "S02.30" ELSE "END"
    ELSE IF i = Len(Nodes[s]) THEN "END" ELSE Nodes[s][i + 1]

-----------------------------------------------------------------------------
(* Edges between stages (orchestration/shared_workflow.py), in state st    *)
(* with the given routes.                                                  *)

Completed90(st, node, next) == IF node \in st.completed_nodes THEN next ELSE "end"

(* Mutant: the cap counts from the wrong side.                             *)
Exhausted_OffByOne(st) == st.s03_revision_attempts > MaxPhaseRepairAttempts

Exhausted(st) == st.s03_revision_attempts >= MaxPhaseRepairAttempts

VerificationOutcome(st) ==
    CASE "S04.90" \notin st.completed_nodes -> "end"
      [] "S04.90" \in st.completed_nodes /\ st.s04_gate = "passed" -> "S05.10"
      [] OTHER -> IF Exhausted(st) THEN "end" ELSE "S03.10"

(* Mutant: gated on membership in completed_nodes, not on the route.       *)
AppliedOrDeclined_Membership(routes) == TRUE

AppliedOrDeclined(routes) ==
    Route!RouteFor(routes["S06.90"]) = "continue"

PolicyOutcome(st, routes) ==
    IF ~AppliedOrDeclined(routes) THEN "end"
    ELSE CASE st.s06_decision = "KEEP" -> "S07.10"
           [] st.s06_decision = "FIX_ONE_PART" -> IF Exhausted(st) THEN "end" ELSE "S03.10"
           [] st.s06_decision = "REVERT" -> "S01.10"
           [] OTHER -> "end"

OuterEdge(s, st, routes) ==
    CASE s = "S01" -> Completed90(st, "S01.90", "S02.10")
      [] s = "S02" -> Completed90(st, "S02.90", "S03.10")
      [] s = "S03" -> Completed90(st, "S03.90", "S04.10")
      [] s = "S04" -> VerificationOutcome(st)
      [] s = "S05" -> Completed90(st, "S05.90", "S06.10")
      [] s = "S06" -> PolicyOutcome(st, routes)
      [] s = "S07" -> "end"

(* Where the case goes after stage s's i-th node: interrupt_after pauses   *)
(* it when S01 or S02 is done.                                             *)
AfterNode(s, i, st, routes) ==
    LET next == InnerEdge(s, i, routes)
        outer == OuterEdge(s, st, routes) IN
    IF next # "END" THEN next
    ELSE IF s \in {"S01", "S02"} /\ outer # "end" THEN "paused"
    ELSE outer

-----------------------------------------------------------------------------
(* NodeRuntime.                                                            *)

Revision(s) ==
    CASE s = "S02" -> state.s02_revision_attempts
      [] s \in {"S03", "S04", "S05", "S06"} -> state.s03_revision_attempts
      [] OTHER -> 0

IdempotencyKey(s, n) ==
    <<n, Revision(s), IF state.resume_target_node = n THEN state.resume_attempts ELSE 0>>

(* _commit, the reducers and the edges, for a recorded execution r.        *)
Commit(s, i, r) ==
    LET n == Nodes[s][i]
        history == node_routes[n]
        slot == Route!NextRouteKey(history, r.route)
        st == [Override(state, r.updates) EXCEPT
                 !.artifact_refs = MergeArtifactRefs(@, r.refs),
                 !.completed_nodes = @ \cup {n}]
        routes == IF n \notin RouteRead THEN node_routes
                  ELSE [node_routes EXCEPT ![n] = Route!MergeNodeRoutes(@, slot, r.route)]
    IN  IF RefConflict(state.artifact_refs, r.refs)
          THEN pc' = "conflict" /\ UNCHANGED <<state, node_routes, last>>
          ELSE /\ state' = st
               /\ node_routes' = routes
               /\ last' = s
               /\ pc' = AfterNode(s, i, st, routes)

(* A COMPLETED intent is replayed, whatever the state is now.              *)
Replay(s, i) ==
    LET key == IdempotencyKey(s, Nodes[s][i]) IN
    /\ key \in DOMAIN intents
    /\ Commit(s, i, intents[key])
    /\ UNCHANGED <<host, clock, intents, legs, crashes, losses>>

(* An exception leaves the host changed and the graph stopped.             *)
Execute(s, i, execs) ==
    LET key == IdempotencyKey(s, Nodes[s][i]) IN
    /\ key \notin DOMAIN intents
    /\ \E x \in execs :
        LET r == [route |-> x.route, updates |-> x.updates, refs |-> RefsOf(x)] IN
        /\ host' = x.host
        /\ clock' = clock + Len(x.seals)
        /\ IF x.route = "raise"
              THEN pc' = "raised" /\ UNCHANGED <<state, node_routes, intents, last>>
              ELSE /\ intents' = [k \in DOMAIN intents \cup {key} |->
                                    IF k = key THEN r ELSE intents[k]]
                   /\ Commit(s, i, r)
    /\ UNCHANGED <<legs, crashes, losses>>

(* The process dies after an effect of the handler's and before the intent *)
(* is completed; the restarted graph runs the node again.                  *)
Crash(s, i, execs) ==
    /\ crashes < MaxCrashes
    /\ IdempotencyKey(s, Nodes[s][i]) \notin DOMAIN intents
    /\ \E x \in execs : host' = x.host
    /\ host' # host
    /\ crashes' = crashes + 1
    /\ UNCHANGED <<state, clock, pc, intents, node_routes, last, legs, losses>>

Node(s, i, execs) ==
    /\ pc = Nodes[s][i]
    /\ \/ Replay(s, i)
       \/ Execute(s, i, execs)
       \/ Crash(s, i, execs)

-----------------------------------------------------------------------------
S01 ==
    \/ Node("S01", 1, S01_10) \/ Node("S01", 2, S01_20) \/ Node("S01", 3, S01_30)
    \/ Node("S01", 4, S01_40) \/ Node("S01", 5, S01_50) \/ Node("S01", 6, S01_60)
    \/ Node("S01", 7, S01_70) \/ Node("S01", 8, S01_80) \/ Node("S01", 9, S01_90)

S02 ==
    \/ Node("S02", 1, S02_10) \/ Node("S02", 2, S02_20) \/ Node("S02", 3, S02_30)
    \/ Node("S02", 4, S02_40) \/ Node("S02", 5, S02_50) \/ Node("S02", 6, S02_60)
    \/ Node("S02", 7, S02_70) \/ Node("S02", 8, S02_80) \/ Node("S02", 9, S02_81)
    \/ Node("S02", 10, S02_90)

S03 ==
    \/ Node("S03", 1, S03_10) \/ Node("S03", 2, S03_20) \/ Node("S03", 3, S03_30)
    \/ Node("S03", 4, S03_40) \/ Node("S03", 5, S03_50) \/ Node("S03", 6, S03_60)
    \/ Node("S03", 7, S03_70) \/ Node("S03", 8, S03_80) \/ Node("S03", 9, S03_90)

S04 ==
    \/ Node("S04", 1, S04_10) \/ Node("S04", 2, S04_20) \/ Node("S04", 3, S04_30)
    \/ Node("S04", 4, S04_40) \/ Node("S04", 5, S04_50) \/ Node("S04", 6, S04_60)
    \/ Node("S04", 7, S04_70) \/ Node("S04", 8, S04_80) \/ Node("S04", 9, S04_90)

S05 ==
    \/ Node("S05", 1, S05_10) \/ Node("S05", 2, S05_20) \/ Node("S05", 3, S05_30)
    \/ Node("S05", 4, S05_40) \/ Node("S05", 5, S05_50) \/ Node("S05", 6, S05_60)
    \/ Node("S05", 7, S05_70) \/ Node("S05", 8, S05_80) \/ Node("S05", 9, S05_90)

S06 ==
    \/ Node("S06", 1, S06_10) \/ Node("S06", 2, S06_20) \/ Node("S06", 3, S06_30)
    \/ Node("S06", 4, S06_40) \/ Node("S06", 5, S06_50) \/ Node("S06", 6, S06_60)
    \/ Node("S06", 7, S06_70) \/ Node("S06", 8, S06_80) \/ Node("S06", 9, S06_90)

S07 ==
    \/ Node("S07", 1, S07_10) \/ Node("S07", 2, S07_20) \/ Node("S07", 3, S07_30)
    \/ Node("S07", 4, S07_40) \/ Node("S07", 5, S07_50) \/ Node("S07", 6, S07_60)
    \/ Node("S07", 7, S07_70) \/ Node("S07", 8, S07_80) \/ Node("S07", 9, S07_90)

-----------------------------------------------------------------------------
(* The driver and the environment.                                         *)

Pending == state.pending_interrupt # NoInterrupt

(* invoke(None) past an interrupt_after pause; the driver has two.         *)
Proceed ==
    /\ pc = "paused" /\ ~Pending /\ legs > 0
    /\ pc' = OuterEdge(last, state, node_routes)
    /\ legs' = legs - 1
    /\ UNCHANGED <<state, host, clock, intents, node_routes, last, crashes, losses>>

(* resume_case on the checkpointed graph.  update_state merges through the *)
(* reducers, so dropping the halted node's ref and route has no effect; it *)
(* evaluates the edge of the last stage again, and invoke(None) follows    *)
(* it.  The node that halted does not run again.                           *)
Resume(decision) ==
    /\ pc \in {"paused", "end"} /\ Pending
    /\ state' = [state EXCEPT !.resume_command = decision,
                              !.resume_attempts = @ + 1,
                              !.resume_target_node = state.pending_interrupt.stage,
                              !.pending_interrupt = NoInterrupt]
    /\ pc' = OuterEdge(last, state, node_routes)
    /\ UNCHANGED <<host, clock, intents, node_routes, last, legs, crashes, losses>>

(* The workspace, in the temporary directory, disappears before one of the *)
(* two stages that look for it.                                            *)
LoseWorkspace ==
    /\ pc \in {"S04.10", "S05.10"} /\ losses < MaxLosses
    /\ DOMAIN host.workspaces # {}
    /\ host' = CleanedUp(host, state.s03_workspace)
    /\ losses' = losses + 1
    /\ UNCHANGED <<state, clock, pc, intents, node_routes, last, legs, crashes>>

Stopped ==
    \/ pc \in {"raised", "conflict"}
    \/ pc = "end" /\ ~Pending
    \/ pc = "paused" /\ ~Pending /\ legs = 0

Init ==
    /\ \E p \in Portfolio : state = ConvergedCase(p)
    /\ host = [workspaces |-> <<>>, made |-> 0, leaks |-> 0, branches |-> <<>>]
    /\ clock = 2
    /\ pc = "S01.10" /\ last = "S01"
    /\ intents = <<>>
    /\ node_routes = [n \in RouteRead |-> <<>>]
    /\ legs = 2 /\ crashes = 0 /\ losses = 0

Progress ==
    \/ S01 \/ S02 \/ S03 \/ S04 \/ S05 \/ S06 \/ S07
    \/ Proceed
    \/ \E decision \in Decision : Resume(decision)

Next ==
    \/ Progress
    \/ LoseWorkspace
    \/ Stopped /\ UNCHANGED vars

(* The runtime and the driver keep going while they can.                   *)
Spec == Init /\ [][Next]_vars /\ WF_vars(Progress)

-----------------------------------------------------------------------------
(* Properties.                                                             *)

NodeIds == UNION {{Nodes[s][i] : i \in DOMAIN Nodes[s]} : s \in Stage}

Refs == state.artifact_refs

(* The ids of the sealed artifacts of a type.                              *)
SealedIds(type) == {id \in DOMAIN Refs : id[1] = type}

(* The artifact of another type sealed in the same phase and pass.         *)
Beside(id, type) == Staged(type, id[2], id[3])

(* The control state is one of the graph's nodes or a stop; every digest   *)
(* was issued by the clock; every intent is keyed by a node of the graph;  *)
(* workspaces and branches are ones the handlers made.                     *)
TypeOK ==
    /\ pc \in NodeIds \cup {"paused", "end", "raised", "conflict"}
    /\ last \in Stage
    /\ \A id \in DOMAIN Refs : Refs[id].digest \in 1 .. clock
    /\ DOMAIN intents \subseteq NodeIds \X Nat \X Nat
    /\ state.completed_nodes \subseteq NodeIds
    /\ DOMAIN host.workspaces \subseteq 1 .. host.made
    /\ \A ph \in DOMAIN host.branches : host.branches[ph].patch \in 0 .. clock
    /\ host.leaks \in 0 .. MaxLeaks
    /\ legs \in 0 .. 2 /\ crashes \in 0 .. MaxCrashes /\ losses \in 0 .. MaxLosses

(* Neither repair loop goes past its cap: the attempts shared by S04.90's  *)
(* failures and S06.80's FIX_ONE_PART stay within                          *)
(* _MAX_PHASE_REPAIR_ATTEMPTS, S02.81's redrafts within _MAX_S02_REVISIONS *)
(* (its counter also counts the first draft).                              *)
LoopsBounded ==
    /\ state.s03_revision_attempts <= MaxPhaseRepairAttempts
    /\ state.s02_revision_attempts <= MaxS02Revisions + 1

(* A KEEP decision rests on its own pass: the sealed verification of that  *)
(* phase and pass passed, with a mandatory check in it, its comparability  *)
(* report is positive, every criterion's sealed effect meets its target    *)
(* and every guardrail passes on the sealed evidence.                      *)
KeepIsEarned ==
    \A id \in SealedIds("Decision") :
        Artifact(id).outcome = "KEEP" =>
            LET verification == Beside(id, "VerificationReport")
                comparability == Beside(id, "ComparabilityReport")
                effects == Artifact(Beside(id, "StatisticalReport")).effects IN
            /\ Artifact(id).verification = Digest(verification)
            /\ Artifact(verification).passed
            /\ \A r \in Artifact(verification).checks : r.passed
            /\ \E r \in Artifact(verification).checks : r.kind \in MandatoryKinds
            /\ Artifact(comparability).comparable
            /\ \A c \in Criterion : c \in DOMAIN effects /\ Met(c, effects[c])
            /\ \A g \in Guardrail :
                  \/ \E c \in DOMAIN effects :
                        MetricKind[c] = g.metric /\ ApplyOperator(effects[c], g.operator, g.threshold)
                  \/ \E r \in Artifact(verification).checks :
                        r.kind = g.metric /\ ApplyOperator(0, g.operator, g.threshold)

(* A branch in the user's repository was made for a patch that a KEEP      *)
(* decision of the same phase and pass accepted, and holds that patch or   *)
(* nothing new, whichever step of S06.90 failed or crashed.                *)
BranchWasKept ==
    \A ph \in DOMAIN host.branches :
        \E id \in SealedIds("PatchArtifact") :
            /\ id[2] = ph
            /\ host.branches[ph].patch \in {0, Digest(id)}
            /\ Beside(id, "Decision") \in DOMAIN Refs
            /\ Artifact(Beside(id, "Decision")).outcome = "KEEP"

(* The sealed apply results and the repository agree: a result that says   *)
(* applied has the branch with its patch; and a branch is there only with  *)
(* a sealed result that was allowed to make it, so that none is left by an *)
(* apply that was denied or rejected.  (Removing a branch that a failed    *)
(* apply made is best effort: it may still be there.)                      *)
ApplyResultIsTrue ==
    /\ \A id \in SealedIds("RepositoryApplyResult") :
          Artifact(id).applied =>
              id[2] \in DOMAIN host.branches /\ host.branches[id[2]].patch = Artifact(id).patch
    /\ \A ph \in DOMAIN host.branches :
          \E id \in SealedIds("RepositoryApplyResult") :
              /\ id[2] = ph
              /\ Artifact(id).approval \in {"auto_allowed", "approved"}
              /\ host.branches[ph].patch \in {0, Artifact(id).patch}

(* No reducer conflict: however often the loops revisit a node, no         *)
(* artifact id is sealed twice with different digests in one case.         *)
NoRefConflict == pc # "conflict"

(* A task counts as completed, so that S03.10 passes its phase over, only  *)
(* if some pass over its phase sealed a passing VerificationReport.        *)
CompletedIsVerified ==
    \A t \in state.s03_completed :
        \E id \in SealedIds("VerificationReport") :
            t \in PhaseTasks(id[2]) /\ Artifact(id).passed

(* A retry replaces the workspace of the attempt before it: the only       *)
(* workspace is the one the state records, but for those with a failure of *)
(* their own to blame: a crash or an exception of S03.20 after mkdtemp and *)
(* before the path is recorded, or a cleanup that could not remove one.    *)
OneWorkspace ==
    LET failures == crashes + host.leaks + IF pc = "raised" THEN 1 ELSE 0 IN
    pc # "S03.20" =>
        \E blame \in [DOMAIN host.workspaces \ {state.s03_workspace} -> 1 .. failures] :
            \A v, w \in DOMAIN blame : blame[v] = blame[w] => v = w

(* A sealed patch holds an edit that passed scope and sanitation.          *)
PatchIsClean ==
    \A id \in SealedIds("PatchArtifact") : Artifact(id).diff = "clean"

(* While S06.90 waits for the approval to apply, the case does not go on   *)
(* to S07 as if the change had been applied or declined.                   *)
PendingApplyHalts ==
    state.pending_interrupt.stage = "S06.90" => pc = "end"

(* A report tells the whole story: its decision is a sealed KEEP, its      *)
(* applied flag is the sealed apply result's, and it lists every earlier   *)
(* pass over the phase.                                                    *)
ReportIsComplete ==
    \A id \in SealedIds("OptimizationReport") :
        \E d \in SealedIds("Decision") :
            LET apply == Beside(d, "RepositoryApplyResult") IN
            /\ d[2] = id[2]
            /\ Digest(d) = Artifact(id).decision
            /\ Artifact(d).outcome = "KEEP"
            /\ apply \in DOMAIN Refs
            /\ Artifact(apply).applied = Artifact(id).applied
            /\ Artifact(id).outcomes.repaired = 0 .. d[3] - 1

(* Every case stops: at the end of the graph, at a pause the driver does   *)
(* not go past, or with an exception.                                      *)
Terminates == <>Stopped

-----------------------------------------------------------------------------
(* What the code's documentation says, and the model refutes.              *)

(* S06.90's approval is one of its own, not S01.80's or S02.90's: a patch  *)
(* is applied as approved only after its own interrupt was resumed.        *)
ApplyHasOwnApproval ==
    \A id \in SealedIds("RepositoryApplyResult") :
        Artifact(id).approval = "approved" => state.resume_target_node = "S06.90"

(* A REVERT falls back on another solution: when S01 is done again and the *)
(* portfolio has a usable strategy that was not reverted, one is selected. *)
RevertReselects ==
    LET strategies == Artifact(SolutionPortfolio)
        usable == {i \in DOMAIN strategies \ state.s01_excluded :
                      strategies[i].eligible /\ strategies[i].reversible
                        /\ strategies[i].resolved} IN
    pc = "paused" /\ last = "S01" /\ usable # {} =>
        /\ Selected \in DOMAIN Refs
        /\ Artifact(Selected).strategy \notin state.s01_excluded

(* S06.90 is a no-op only on a pass whose own decision was not KEEP: a     *)
(* case goes on to its report with this pass's apply result sealed.        *)
KeepIsActedOn ==
    pc = "S07.10" => Current("RepositoryApplyResult") \in DOMAIN Refs
=============================================================================
