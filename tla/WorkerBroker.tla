----------------------------- MODULE WorkerBroker -----------------------------
(***************************************************************************)
(* The two brokers behind the WorkerBroker port, and the node handlers     *)
(* that use it: A2.50 submits a job, A2.60 to A2.64 poll for its result    *)
(* until a deadline.  LocalWorkerBroker runs a job on a thread of this     *)
(* process and remembers its future by job id; KubernetesWorkerBroker      *)
(* creates a Job object whose name is the truncated job id.  Both keep one *)
(* entry per slot; they differ in what a slot is, in what submit() does    *)
(* when the slot is taken, and in what reconcile() checks and forgets.     *)
(***************************************************************************)
EXTENDS Integers, Sequences, FiniteSets

CONSTANTS Job,         \* job ids; every caller's idempotency_key = job_id
          JobName,     \* [Job -> names], what _job_name leaves of an id
          Supported,   \* the jobs whose capability the local broker has
          MaxWorkers,  \* max_workers, the local broker's shared pool
          MaxRuns,     \* bound: runs started in all
          MaxRetries   \* bound: how often a caller starts over

ASSUME NamesAssumption == JobName \in [Job -> STRING]
ASSUME BoundsAssumption == MaxRuns \in Nat /\ MaxRetries \in Nat /\ MaxWorkers \in Nat

VARIABLES kind,       \* which broker the composition root has built
          held,       \* [slot -> the run its entry stands for, 0 for none]
          runs,       \* every run started: [job, status]
          caller,     \* what the handler that wants each job is doing
          answered,   \* the runs whose output a caller of the job was given
          forgotten,  \* history: how often the entry of a job was dropped
          retries

vars == <<kind, held, runs, caller, answered, forgotten, retries>>

Kinds == {"local", "kubernetes"}
Callers == {"idle", "waiting", "answered", "raised", "rejected", "unavailable"}
Statuses == {"queued", "active", "succeeded", "unlabelled", "failed", "timedout",
             "cancelled", "lost"}
Names == {JobName[j] : j \in Job}

Slot(j) == IF kind = "local" THEN <<"id", j>> ELSE <<"name", JobName[j]>>
Slots == {<<"id", j>> : j \in Job} \cup {<<"name", n>> : n \in Names}
Entry(j) == held[Slot(j)]

Init ==
    /\ kind \in Kinds
    /\ held = [s \in Slots |-> 0]
    /\ runs = <<>>
    /\ caller = [j \in Job |-> "idle"]
    /\ answered = [j \in Job |-> {}]
    /\ forgotten = [j \in Job |-> 0]
    /\ retries = 0

-----------------------------------------------------------------------------
(* submit *)

(* A run of j begins and takes the slot, whatever the slot held before. *)
Begin(j, status) ==
    /\ Len(runs) < MaxRuns
    /\ runs' = Append(runs, [job |-> j, status |-> status])
    /\ held' = [held EXCEPT ![Slot(j)] = Len(runs) + 1]
    /\ caller' = [caller EXCEPT ![j] = "waiting"]

(* LocalWorkerBroker.submit: an unknown capability is not accepted; else a *)
(* wrapper is queued and its future replaces any earlier one of the job.   *)
SubmitLocal(j) ==
    /\ kind = "local" /\ caller[j] = "idle"
    /\ IF j \in Supported
         THEN Begin(j, "queued")
         ELSE caller' = [caller EXCEPT ![j] = "rejected"] /\ UNCHANGED <<runs, held>>
    /\ UNCHANGED <<kind, answered, forgotten, retries>>

(* Mutant: whatever Job has the name is taken for this one. *)
KeyMatches_Unchecked(j) == TRUE

(* The taken name's Job carries the idempotency key, here the id, of j. *)
KeyMatches(j) == runs[Entry(j)].job = j

(* Mutant: the existing Job is replaced. *)
Conflict_Recreated(j) == Begin(j, "active")

(* What submit() does when create_namespaced_job answers 409: it accepts an *)
(* existing Job that carries this idempotency key and raises otherwise.     *)
Conflict(j) ==
    /\ caller' = [caller EXCEPT ![j] =
                     IF KeyMatches(j) THEN "waiting" ELSE "raised"]
    /\ UNCHANGED <<runs, held>>

SubmitKubernetes(j) ==
    /\ kind = "kubernetes" /\ caller[j] = "idle"
    /\ IF Entry(j) = 0 THEN Begin(j, "active") ELSE Conflict(j)
    /\ UNCHANGED <<kind, answered, forgotten, retries>>

(* Any other answer of the API server raises out of submit() or reconcile(), *)
(* a 404 for the Job that was there when create answered 409 included.       *)
ApiException(j) ==
    /\ kind = "kubernetes" /\ caller[j] \in {"idle", "waiting"}
    /\ caller' = [caller EXCEPT ![j] = "raised"]
    /\ UNCHANGED <<kind, held, runs, answered, forgotten, retries>>

-----------------------------------------------------------------------------
(* the runs *)

Holding == {r \in DOMAIN runs : runs[r].status = "active"}

(* A wrapper leaves the queue once the shared pool has a free thread. *)
StartLocal(r) ==
    /\ kind = "local" /\ runs[r].status = "queued"
    /\ Cardinality(Holding) < MaxWorkers
    /\ runs' = [runs EXCEPT ![r].status = "active"]
    /\ UNCHANGED <<kind, held, caller, answered, forgotten, retries>>

(* How a run may end.  A local one returns, raises, or is cut off by      *)
(* result(timeout=...); a Job succeeds with or without the annotations    *)
(* that name its output, or fails (its active deadline included).         *)
Outcomes ==
    IF kind = "local" THEN {"succeeded", "failed", "timedout"}
                      ELSE {"succeeded", "unlabelled", "failed"}

Finish(r) ==
    /\ runs[r].status = "active"
    /\ \E s \in Outcomes : runs' = [runs EXCEPT ![r].status = s]
    /\ UNCHANGED <<kind, held, caller, answered, forgotten, retries>>

Dropped(s) ==
    /\ held' = [held EXCEPT ![s] = 0]
    /\ forgotten' = [forgotten EXCEPT ![runs[held[s]].job] = @ + 1]

(* The cluster deletes a finished Job after ttl_seconds_after_finished. *)
Expire(s) ==
    /\ kind = "kubernetes" /\ held[s] # 0
    /\ runs[held[s]].status \notin {"queued", "active"}
    /\ Dropped(s)
    /\ UNCHANGED <<kind, runs, caller, answered, retries>>

(* cancel: the entry goes.  Only a wrapper still in the queue is stopped;  *)
(* a thread runs on, and so may the pod of a Job deleted in the background. *)
Cancel(j) ==
    /\ Entry(j) # 0
    /\ Dropped(Slot(j))
    /\ runs' = [runs EXCEPT ![Entry(j)].status = IF @ = "queued" THEN "cancelled" ELSE @]
    /\ UNCHANGED <<kind, caller, answered, retries>>

-----------------------------------------------------------------------------
(* reconcile, as _await_worker_result calls it in its loop *)

(* The future of a finished wrapper is popped, then returned or raised. *)
ReconcileLocal(j) ==
    /\ kind = "local" /\ caller[j] = "waiting" /\ Entry(j) # 0
    /\ runs[Entry(j)].status \in {"succeeded", "failed", "timedout"}
    /\ Dropped(Slot(j))
    /\ IF runs[Entry(j)].status = "succeeded"
         THEN /\ answered' = [answered EXCEPT ![j] = @ \cup {Entry(j)}]
              /\ caller' = [caller EXCEPT ![j] = "answered"]
         ELSE /\ caller' = [caller EXCEPT ![j] = "raised"]
              /\ UNCHANGED answered
    /\ UNCHANGED <<kind, runs, retries>>

ReconcileKubernetes(j) ==
    /\ kind = "kubernetes" /\ caller[j] = "waiting" /\ Entry(j) # 0
    /\ KeyMatches(j) => runs[Entry(j)].status # "active"
    /\ IF KeyMatches(j) /\ runs[Entry(j)].status = "succeeded"
         THEN /\ answered' = [answered EXCEPT ![j] = @ \cup {Entry(j)}]
              /\ caller' = [caller EXCEPT ![j] = "answered"]
         ELSE /\ caller' = [caller EXCEPT ![j] = "raised"]
              /\ UNCHANGED answered
    /\ UNCHANGED <<kind, held, runs, forgotten, retries>>

(* reconcile() kept returning None until the deadline of the wait. *)
GiveUp(j) ==
    /\ caller[j] = "waiting"
    /\ caller' = [caller EXCEPT ![j] = "unavailable"]
    /\ UNCHANGED <<kind, held, runs, answered, forgotten, retries>>

-----------------------------------------------------------------------------
(* faults *)

(* The caller dies before its node is recorded and starts over in the same *)
(* process: at submit(), or, where A2.50 is replayed, straight at the wait. *)
Retry(j) ==
    /\ retries < MaxRetries
    /\ caller[j] # "idle"
    /\ \E again \in {"idle", "waiting"} : caller' = [caller EXCEPT ![j] = again]
    /\ retries' = retries + 1
    /\ UNCHANGED <<kind, held, runs, answered, forgotten>>

(* The whole process restarts: the local broker's futures and threads are *)
(* gone, the cluster's Jobs are not.                                      *)
Restart ==
    /\ retries < MaxRetries
    /\ retries' = retries + 1
    /\ caller' = [j \in Job |-> "idle"]
    /\ IF kind = "local"
         THEN /\ held' = [s \in Slots |-> 0]
              /\ runs' = [r \in DOMAIN runs |->
                            IF runs[r].status \in {"queued", "active"}
                              THEN [runs[r] EXCEPT !.status = "lost"] ELSE runs[r]]
         ELSE UNCHANGED <<held, runs>>
    /\ UNCHANGED <<kind, answered, forgotten>>

Next ==
    \/ \E j \in Job : \/ SubmitLocal(j) \/ SubmitKubernetes(j) \/ ApiException(j)
                      \/ Cancel(j)
                      \/ ReconcileLocal(j) \/ ReconcileKubernetes(j)
                      \/ GiveUp(j) \/ Retry(j)
    \/ \E r \in DOMAIN runs : StartLocal(r) \/ Finish(r)
    \/ \E s \in Slots : Expire(s)
    \/ Restart

Spec == Init /\ [][Next]_vars

-----------------------------------------------------------------------------
Produced == [j \in Job |->
                {r \in DOMAIN runs : runs[r].job = j /\ runs[r].status = "succeeded"}]

Service == INSTANCE JobService WITH Output <- 1..MaxRuns, produced <- Produced

(* The result a caller is handed is always an output of a run of the job it *)
(* asked about: with either broker, whatever names collide, entries are     *)
(* overwritten, cancelled, expired or lost, and callers start over.         *)
ImplementsJobService == Service!Spec

(* On Kubernetes a job is run again only after the cluster forgot the       *)
(* previous run: submit() after a crash, or a late retry, adopts the Job    *)
(* that is still there instead of doing the work twice.                     *)
RunsOncePerEntry ==
    kind = "kubernetes" =>
        \A j \in Job :
            Cardinality({r \in DOMAIN runs : runs[r].job = j}) <= 1 + forgotten[j]
=============================================================================
