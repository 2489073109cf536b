---------------------------- MODULE NodeRuntime ----------------------------
(***************************************************************************)
(* NodeRuntime._execute_idempotent over the PostgreSQL intent ledger and   *)
(* the S3 artifact store.  Each database statement or object-store call is *)
(* one step, so a process can stop, and others can run, between any two.   *)
(*                                                                         *)
(* An executor is one call of NodeRuntime.execute in some process.  A key  *)
(* is the pair (tenant_id, idempotency_key).  An output is the canonical   *)
(* JSON of a NodeExecution; the artifact store addresses it by its digest, *)
(* so the content stands for its own ArtifactRef.                          *)
(***************************************************************************)
EXTENDS Naturals

CONSTANTS
    Executor,   \* concurrent calls of NodeRuntime.execute
    Key,        \* (tenant_id, idempotency_key)
    Shared,     \* the keys of cases that several processes may run at once
    Output,     \* contents a handler can return
    Undeclared, \* those _validate_execution refuses
    NoOutput,   \* a NULL output_ref
    NoKey,      \* an executor between calls
    MaxCalls    \* bound on the calls made for one key

ASSUME RuntimeAssumption ==
    /\ Shared \subseteq Key
    /\ Undeclared \subseteq Output
    /\ NoOutput \notin Output
    /\ NoKey \notin Key
    /\ MaxCalls \in Nat

VARIABLES
    ledger,     \* optimizer_control.node_intents: key -> [status, ref]
    store,      \* objects in the bucket
    pc,         \* where each executor is
    key,        \* the key each executor derived
    out,        \* the NodeExecution each executor holds
    calls,      \* calls made per key
    effects,    \* handler runs that took effect, per key
    returned    \* executions _commit handed to the graph, per key

vars == <<ledger, store, pc, key, out, calls, effects, returned>>
local == <<pc, key, out>>

Status == {"absent", "pending", "unknown", "completed"}

Line == {"idle", "get", "read", "prepare", "handler", "mark_unknown",
         "put_json", "complete", "commit"}

(* A row is absent, pending, unknown or completed: the runtime never       *)
(* writes the `failed' the table also admits.  Its output is none or one a *)
(* handler returned, and each executor is at a line of the code.           *)
TypeOK ==
    /\ ledger \in [Key -> [status : Status, ref : Output \cup {NoOutput}]]
    /\ store \subseteq Output
    /\ pc \in [Executor -> Line]
    /\ key \in [Executor -> Key \cup {NoKey}]
    /\ out \in [Executor -> Output \cup {NoOutput}]
    /\ calls \in [Key -> Nat]
    /\ effects \in [Key -> Nat]
    /\ returned \in [Key -> SUBSET Output]

Init ==
    /\ ledger = [k \in Key |-> [status |-> "absent", ref |-> NoOutput]]
    /\ store = {}
    /\ pc = [e \in Executor |-> "idle"]
    /\ key = [e \in Executor |-> NoKey]
    /\ out = [e \in Executor |-> NoOutput]
    /\ calls = [k \in Key |-> 0]
    /\ effects = [k \in Key |-> 0]
    /\ returned = [k \in Key |-> {}]

-----------------------------------------------------------------------------
Goto(e, line) == pc' = [pc EXCEPT ![e] = line]

(* The call is over, by return or by exception: its locals are gone.       *)
Finish(e) ==
    /\ Goto(e, "idle")
    /\ key' = [key EXCEPT ![e] = NoKey]
    /\ out' = [out EXCEPT ![e] = NoOutput]

(* execute() with a registered, non-PURE node: the key is derived.  For a  *)
(* key that is not shared there is one graph invocation at a time, the way *)
(* scripts/run.py drives a case: it is called again only after its last    *)
(* call ended or died.                                                     *)
Execute(e, k) ==
    /\ pc[e] = "idle"
    /\ k \in Shared \/ \A f \in Executor : key[f] # k
    /\ calls[k] < MaxCalls
    /\ calls' = [calls EXCEPT ![k] = @ + 1]
    /\ key' = [key EXCEPT ![e] = k]
    /\ Goto(e, "get")
    /\ UNCHANGED <<ledger, store, out, effects, returned>>

(* Mutant: the handler runs with no intent prepared.                       *)
Get_Unprepared(e) ==
    /\ pc[e] = "get"
    /\ Goto(e, "handler")
    /\ UNCHANGED <<ledger, store, key, out, calls, effects, returned>>

(* Mutant: a completed intent is not looked for.                           *)
Get_NoReplay(e) ==
    /\ pc[e] = "get"
    /\ Goto(e, "prepare")
    /\ UNCHANGED <<ledger, store, key, out, calls, effects, returned>>

(* intents.get, and the branch on what it returned.                        *)
Get(e) ==
    LET row == ledger[key[e]] IN
    /\ pc[e] = "get"
    /\ IF row.status = "completed" /\ row.ref # NoOutput
         THEN Goto(e, "read") /\ out' = [out EXCEPT ![e] = row.ref]
         ELSE Goto(e, "prepare") /\ UNCHANGED out
    /\ UNCHANGED <<ledger, store, key, calls, effects, returned>>

(* artifacts.read of the recorded output, then _load_execution.  A missing *)
(* object makes get_object raise.                                          *)
Read(e) ==
    /\ pc[e] = "read"
    /\ IF out[e] \in store
         THEN Goto(e, "commit") /\ UNCHANGED <<key, out>>
         ELSE Finish(e)
    /\ UNCHANGED <<ledger, store, calls, effects, returned>>

(* Mutant: the upsert without its WHERE status <> 'completed'.             *)
Prepare_Unguarded(e) ==
    /\ pc[e] = "prepare"
    /\ ledger' = [ledger EXCEPT ![key[e]].status = "pending"]
    /\ Goto(e, "handler")
    /\ UNCHANGED <<store, key, out, calls, effects, returned>>

(* Mutant: an insert that does nothing when the row exists.                *)
Prepare_InsertOnly(e) ==
    /\ pc[e] = "prepare"
    /\ ledger' = [ledger EXCEPT ![key[e]].status =
                    IF @ = "absent" THEN "pending" ELSE @]
    /\ Goto(e, "handler")
    /\ UNCHANGED <<store, key, out, calls, effects, returned>>

(* intents.prepare: an upsert whose conflict arm spares completed rows and *)
(* never touches the output columns.  The row it returns is not looked at. *)
Prepare(e) ==
    /\ pc[e] = "prepare"
    /\ ledger' = [ledger EXCEPT ![key[e]].status =
                    IF @ = "completed" THEN @ ELSE "pending"]
    /\ Goto(e, "handler")
    /\ UNCHANGED <<store, key, out, calls, effects, returned>>

(* registration.handler returns: its side effect has happened.             *)
HandlerReturns(e, o) ==
    /\ pc[e] = "handler"
    /\ effects' = [effects EXCEPT ![key[e]] = @ + 1]
    /\ IF o \in Undeclared
         THEN Finish(e)               \* _validate_execution raises: still pending
         ELSE /\ Goto(e, "put_json")
              /\ out' = [out EXCEPT ![e] = o]
              /\ UNCHANGED key
    /\ UNCHANGED <<ledger, store, calls, returned>>

(* registration.handler raises, before or after taking effect.             *)
HandlerRaises(e) ==
    /\ pc[e] = "handler"
    /\ \/ effects' = [effects EXCEPT ![key[e]] = @ + 1]
       \/ UNCHANGED effects
    /\ Goto(e, "mark_unknown")
    /\ UNCHANGED <<ledger, store, key, out, calls, returned>>

(* Mutant: an error is recorded as failed.                                 *)
MarkUnknown_Failed(e) ==
    /\ pc[e] = "mark_unknown"
    /\ ledger' = [ledger EXCEPT ![key[e]].status = "failed"]
    /\ Finish(e)
    /\ UNCHANGED <<store, calls, effects, returned>>

(* intents.mark_unknown: only a pending row changes.  On any other row it  *)
(* raises ValueError, which replaces the handler's own exception.          *)
MarkUnknown(e) ==
    /\ pc[e] = "mark_unknown"
    /\ ledger' = [ledger EXCEPT ![key[e]].status =
                    IF @ = "pending" THEN "unknown" ELSE @]
    /\ Finish(e)
    /\ UNCHANGED <<store, calls, effects, returned>>

(* Mutant: the intent is completed although the output was never stored.   *)
PutJson_Skipped(e) ==
    /\ pc[e] = "put_json"
    /\ Goto(e, "complete")
    /\ UNCHANGED <<ledger, store, key, out, calls, effects, returned>>

(* Mutant: the updates are committed without completing the intent.        *)
PutJson_Uncompleted(e) ==
    /\ pc[e] = "put_json"
    /\ store' = store \cup {out[e]}
    /\ Goto(e, "commit")
    /\ UNCHANGED <<ledger, key, out, calls, effects, returned>>

(* artifacts.put_json: written unless an object of that digest exists.     *)
PutJson(e) ==
    /\ pc[e] = "put_json"
    /\ store' = store \cup {out[e]}
    /\ Goto(e, "complete")
    /\ UNCHANGED <<ledger, key, out, calls, effects, returned>>

(* intents.complete: the UPDATE has no condition on the row's status.      *)
Complete(e) ==
    /\ pc[e] = "complete"
    /\ IF ledger[key[e]].status # "absent"
         THEN /\ ledger' = [ledger EXCEPT ![key[e]] =
                              [status |-> "completed", ref |-> out[e]]]
              /\ Goto(e, "commit")
              /\ UNCHANGED <<key, out>>
         ELSE Finish(e) /\ UNCHANGED ledger
    /\ UNCHANGED <<store, calls, effects, returned>>

(* _commit: the updates go back to the graph.                              *)
Commit(e) ==
    /\ pc[e] = "commit"
    /\ returned' = [returned EXCEPT ![key[e]] = @ \cup {out[e]}]
    /\ Finish(e)
    /\ UNCHANGED <<ledger, store, calls, effects>>

(* The process dies, or a port raises, with the call in flight.  While the *)
(* handler runs, its effect may already have happened.                     *)
Crash(e) ==
    /\ pc[e] # "idle"
    /\ \/ UNCHANGED effects
       \/ /\ pc[e] = "handler"
          /\ effects' = [effects EXCEPT ![key[e]] = @ + 1]
    /\ Finish(e)
    /\ UNCHANGED <<ledger, store, calls, returned>>

Step(e) ==
    \/ Get(e)
    \/ Read(e)
    \/ Prepare(e)
    \/ \E o \in Output : HandlerReturns(e, o)
    \/ HandlerRaises(e)
    \/ MarkUnknown(e)
    \/ PutJson(e)
    \/ Complete(e)
    \/ Commit(e)
    \/ Crash(e)

Next == \E e \in Executor : (\E k \in Key : Execute(e, k)) \/ Step(e)

Spec == Init /\ [][Next]_vars

-----------------------------------------------------------------------------
(***************************************************************************)
(* Of every key, with any number of concurrent executors.                  *)
(***************************************************************************)

(* A completed intent names an output that can be read back: a crash at    *)
(* any point never leaves a cache entry whose replay would raise.          *)
CompletedReadable ==
    \A k \in Key : ledger[k].status = "completed" => ledger[k].ref \in store

(* No effect without a durable intent: once a handler has had an effect    *)
(* for a key, the ledger holds a row for it, whatever crashed since.       *)
IntentPrecedesEffect ==
    \A k \in Key : effects[k] > 0 => ledger[k].status # "absent"

(* The graph is handed updates only for a completed intent, so a restart   *)
(* can never see a committed transition that it would run again.           *)
CommittedIsCompleted ==
    \A k \in Key : returned[k] # {} => ledger[k].status = "completed"

(* A retry, a late mark_unknown or a second executor never takes a         *)
(* completed intent back to pending or unknown.                            *)
NeverDowngraded ==
    [][\A k \in Key : ledger[k].status = "completed"
                        => ledger'[k].status = "completed"]_vars

(***************************************************************************)
(* Of the keys that one executor at a time is called for.                  *)
(***************************************************************************)

Exclusive == Key \ Shared

(* A completed key's handler never takes effect again.                     *)
NoEffectAfterCompletion ==
    [][\A k \in Exclusive : ledger[k].status = "completed"
                              => effects'[k] = effects[k]]_vars

(* mark_unknown finds the pending row it needs, so the exception that      *)
(* leaves execute() is the handler's own.                                  *)
UnknownFindsPending ==
    \A e \in Executor : pc[e] = "mark_unknown" /\ key[e] \in Exclusive
                          => ledger[key[e]].status = "pending"

(* Callers of a key are all handed the one execution the ledger records.   *)
Promise == INSTANCE OnceOnly WITH Key <- Exclusive,
                                  chosen <- [k \in Exclusive |-> ledger[k].ref],
                                  returned <- [k \in Exclusive |-> returned[k]]

ImplementsOnceOnly == Promise!Spec
=============================================================================
