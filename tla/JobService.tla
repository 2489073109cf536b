------------------------------ MODULE JobService ------------------------------
(***************************************************************************)
(* What the WorkerBroker port promises its callers, whichever broker       *)
(* stands behind it: a result reconcile() hands to the caller of a job is  *)
(* an output that some run of that very job produced.                      *)
(***************************************************************************)
CONSTANTS Job, Output

VARIABLES produced,   \* the outputs the runs of each job have produced
          answered    \* the outputs reconcile() has handed to its callers

vars == <<produced, answered>>

Init ==
    /\ produced = [j \in Job |-> {}]
    /\ answered = [j \in Job |-> {}]

(* A run of job j ends with the output o. *)
Produce(j, o) ==
    /\ produced' = [produced EXCEPT ![j] = @ \cup {o}]
    /\ UNCHANGED answered

(* reconcile() returns o to a caller that waits for j. *)
Answer(j, o) ==
    /\ o \in produced[j]
    /\ answered' = [answered EXCEPT ![j] = @ \cup {o}]
    /\ UNCHANGED produced

Next == \E j \in Job, o \in Output : Produce(j, o) \/ Answer(j, o)

Spec == Init /\ [][Next]_vars
=============================================================================
