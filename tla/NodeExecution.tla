--------------------------- MODULE NodeExecution ---------------------------
(***************************************************************************)
(* What a node handler returns (NodeExecution), and the reducers that      *)
(* merge it into the state of a case (contracts/state.py).                 *)
(*                                                                         *)
(* A sealed artifact carries its created_at, so sealing again, even the    *)
(* same content, gives another digest.  `clock' numbers the seals and the  *)
(* number stands for the digest.                                           *)
(***************************************************************************)
EXTENDS Integers, Sequences, FiniteSets

VARIABLES
    state,          \* OptimizationState
    host,           \* what the handlers change outside the state
    clock           \* number of artifacts sealed so far

Artifact(id) == state.artifact_refs[id].body
Digest(id) == state.artifact_refs[id].digest

-----------------------------------------------------------------------------
(* A NodeExecution, with the artifacts it seals (a sequence of             *)
(* [id, body], the i-th gets digest clock + i) and the host it leaves.     *)
Exec(route, updates, seals, h) ==
    [route |-> route, updates |-> updates, seals |-> seals, host |-> h]

NoUpdates == [f \in {} |-> 0]
Seal(id, body) == [id |-> id, body |-> body]

(* Handlers are sets of the executions they may return.                    *)
Returns(updates) == {Exec("continue", updates, <<>>, host)}
Routes(route, updates) == {Exec(route, updates, <<>>, host)}
Seals(updates, seals) == {Exec("continue", updates, seals, host)}
Raises == {Exec("raise", NoUpdates, <<>>, host)}

(* _require_ref and its like raise for a missing artifact.                 *)
Require(ids, execs) ==
    IF ids \subseteq DOMAIN state.artifact_refs THEN execs ELSE Raises

(* Mutant: a ref carries the digest of the artifact sealed after it.       *)
RefsOf_OffByOne(x) ==
    [id \in {x.seals[i].id : i \in DOMAIN x.seals} |->
        LET i == CHOOSE j \in DOMAIN x.seals : x.seals[j].id = id IN
        [digest |-> clock + i + 1, body |-> x.seals[i].body]]

(* The refs an execution adds.                                             *)
RefsOf(x) ==
    [id \in {x.seals[i].id : i \in DOMAIN x.seals} |->
        LET i == CHOOSE j \in DOMAIN x.seals : x.seals[j].id = id IN
        [digest |-> clock + i, body |-> x.seals[i].body]]

(* merge_artifact_refs raises on a second digest for an artifact id.       *)
RefConflict(left, right) ==
    \E id \in DOMAIN left \cap DOMAIN right : left[id].digest # right[id].digest

MergeArtifactRefs(left, right) ==
    [id \in DOMAIN left \cup DOMAIN right |->
        IF id \in DOMAIN left THEN left[id] ELSE right[id]]

(* Last-value channels.                                                    *)
Override(s, updates) ==
    [f \in DOMAIN s |-> IF f \in DOMAIN updates THEN updates[f] ELSE s[f]]
=============================================================================
