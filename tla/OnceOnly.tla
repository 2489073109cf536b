------------------------------ MODULE OnceOnly ------------------------------
(***************************************************************************)
(* What idempotent node execution promises to the graph, with no ledger,   *)
(* no artifact store and no processes: for each idempotency key at most    *)
(* one node execution is ever chosen, and that execution is the only one   *)
(* the key's callers are ever handed.                                      *)
(***************************************************************************)
CONSTANTS
    Key,        \* idempotency keys
    Output,     \* node executions (a route and its state updates)
    NoOutput    \* no execution chosen yet

VARIABLES
    chosen,     \* the execution a key stands for
    returned    \* the executions callers of a key have been handed

vars == <<chosen, returned>>

Init ==
    /\ chosen = [k \in Key |-> NoOutput]
    /\ returned = [k \in Key |-> {}]

Choose(k, o) ==
    /\ chosen[k] = NoOutput
    /\ chosen' = [chosen EXCEPT ![k] = o]
    /\ UNCHANGED returned

Return(k) ==
    /\ chosen[k] # NoOutput
    /\ returned' = [returned EXCEPT ![k] = @ \cup {chosen[k]}]
    /\ UNCHANGED chosen

Next ==
    \E k \in Key :
        \/ \E o \in Output : Choose(k, o)
        \/ Return(k)

Spec == Init /\ [][Next]_vars
=============================================================================
