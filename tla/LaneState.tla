----------------------------- MODULE LaneState -----------------------------
(***************************************************************************)
(* The state of one case in lane A (manual) or lane B (automatic)          *)
(* (contracts/state.py), from its intake to its convergence.               *)
(*                                                                         *)
(* An artifact id is <<artifact_type, node, pass>>, with "" and 0 where    *)
(* the id has no such part.  The host is the source repository: what is in *)
(* it, whether git answers there, the revision that is checked out now and *)
(* the commits still to come; and the worker jobs the process's broker     *)
(* holds.                                                                  *)
(***************************************************************************)
EXTENDS NodeExecution, TLC

CONSTANTS
    Cases,          \* name -> a case: its identity, seed artifacts and repository
    Capabilities    \* command kinds and recipes the worker broker can run

Id(type) == <<type, "", 0>>
BranchId(type, node) == <<type, node, 0>>
PassId(type, n) == <<type, "", n>>

(* _require_ref: the first ref of a type in the refs' order, which is the  *)
(* order of their ids: of the ones A3 seals on every pass, the first pass. *)
First(type) ==
    LET passes == {id[3] : id \in {i \in DOMAIN state.artifact_refs : i[1] = type}} IN
    PassId(type, CHOOSE n \in passes : \A m \in passes : n <= m)

Has(type) == \E id \in DOMAIN state.artifact_refs : id[1] = type

RequireTypes(types, execs) == IF \A t \in types : Has(t) THEN execs ELSE Raises

Body(type) == Artifact(First(type))
DigestOf(type) == Digest(First(type))

NoSource == [resolved |-> FALSE, git_revision |-> 0]

NoInterrupt == [stage |-> "none", digest |-> 0]

(* The digest the i-th artifact an execution seals will have.              *)
NextDigest(i) == clock + i

-----------------------------------------------------------------------------
(* The state a caller invokes the root graph with.                         *)
NewCase(c) ==
    [entrypoint |-> c.entrypoint,
     lane |-> c.lane,
     artifact_refs |-> c.refs,
     completed_nodes |-> {},
     pending_interrupt |-> NoInterrupt,
     resume_command |-> c.resume_command,
     resume_attempts |-> 0,
     resume_target_node |-> "none",
     request_ref |-> c.request_ref,
     baseline_ref |-> 0,
     solution_portfolio_ref |-> 0,
     convergence_ref |-> 0,
     status |-> "none",
     a3_revision_attempts |-> 0,
     a3_model_tokens_spent |-> 0,
     pending_command_proposal |-> "none",
     b1_signals |-> c.signals,
     b1_source |-> NoSource,
     b1_scores |-> <<>>,
     b1_qualified |-> "none",
     b2_staleness |-> "none",
     b2_routing |-> "none",
     b2_approval |-> "none",
     c0_schema_results |-> FALSE,
     c0_digest_chain |-> FALSE,
     c0_equivalence_verdicts |-> FALSE,
     c0_freshness_checks |-> FALSE]

(* a3_model_tokens_spent is an adding channel.  So are the b1_ lists, but  *)
(* each is written once before it is read: only their last value matters.  *)
Merge(s, updates) ==
    [Override(s, updates) EXCEPT
        !.a3_model_tokens_spent =
            IF "a3_model_tokens_spent" \in DOMAIN updates
              THEN s.a3_model_tokens_spent + updates.a3_model_tokens_spent
              ELSE @]
=============================================================================
