-------------------------- MODULE WorkerBrokerProofs --------------------------
(***************************************************************************)
(* For any jobs, any collisions of their names and any number of faults:   *)
(* both brokers implement JobService, and the Kubernetes broker runs a job *)
(* again only after the cluster forgot it.                                 *)
(***************************************************************************)
EXTENDS WorkerBroker, FiniteSetTheorems, TLAPS

Run == [job : Job, status : Statuses]

TypeOK ==
    /\ kind \in Kinds
    /\ runs \in Seq(Run)
    /\ Len(runs) <= MaxRuns
    /\ held \in [Slots -> 0..Len(runs)]
    /\ answered \in [Job -> SUBSET (1..MaxRuns)]
    /\ forgotten \in [Job -> Nat]

(* A local future is stored under the id of the job it runs. *)
FuturesAreOwn ==
    kind = "local" =>
        \A j \in Job : held[<<"id", j>>] # 0 => runs[held[<<"id", j>>]].job = j

RunsOf(j) == {r \in DOMAIN runs : runs[r].job = j}

(* One when the Job object of that name is a run of j. *)
Kept(j) ==
    LET r == held[<<"name", JobName[j]>>]
    IN  IF r # 0 /\ runs[r].job = j THEN 1 ELSE 0

(* Every run of a job but the one whose Job object is still there has been *)
(* forgotten once.                                                         *)
RunsAreAccounted ==
    kind = "kubernetes" =>
        \A j \in Job : /\ IsFiniteSet(RunsOf(j))
                       /\ Cardinality(RunsOf(j)) <= forgotten[j] + Kept(j)

IInv == TypeOK /\ FuturesAreOwn /\ RunsAreAccounted

-----------------------------------------------------------------------------
(* The slot a broker uses for a job is one of the table's. *)
LEMMA SlotType == \A j \in Job : Slot(j) \in Slots
BY DEF Slot, Slots, Names

(* What a step that only changes the status of runs does to the invariant:  *)
(* the statuses of runs decide neither whose future it is nor who is kept.  *)
LEMMA StatusStep ==
    ASSUME IInv,
           runs' \in Seq(Run), Len(runs') = Len(runs),
           \A r \in 1..Len(runs) : runs'[r].job = runs[r].job,
           UNCHANGED <<kind, held, answered, forgotten>>
    PROVE  IInv'
<1>1. TypeOK'
    BY DEF IInv, TypeOK
<1>2. DOMAIN runs' = 1..Len(runs) /\ DOMAIN runs = 1..Len(runs)
    BY DEF IInv, TypeOK
<1>3. \A j \in Job : held[<<"id", j>>] \in 0..Len(runs)
    BY DEF IInv, TypeOK, Slots
<1>4. \A j \in Job : held[<<"name", JobName[j]>>] \in 0..Len(runs)
    BY DEF IInv, TypeOK, Slots, Names
<1>5. FuturesAreOwn'
    BY <1>3 DEF IInv, FuturesAreOwn
<1>6. \A j \in Job : RunsOf(j)' = RunsOf(j)
    BY <1>2 DEF RunsOf
<1>7. \A j \in Job : Kept(j)' = Kept(j)
    BY <1>4 DEF Kept
<1>8. RunsAreAccounted'
    BY <1>6, <1>7 DEF IInv, RunsAreAccounted
<1> QED
    BY <1>1, <1>5, <1>8 DEF IInv

(* One run's status changes: the shape StatusStep needs. *)
LEMMA StatusChange ==
    ASSUME runs \in Seq(Run), NEW r \in DOMAIN runs, NEW s \in Statuses,
           runs' = [runs EXCEPT ![r].status = s]
    PROVE  /\ runs' \in Seq(Run)
           /\ Len(runs') = Len(runs)
           /\ \A q \in 1..Len(runs) : runs'[q].job = runs[q].job
           /\ \A q \in 1..Len(runs) : q # r => runs'[q] = runs[q]
           /\ runs'[r].status = s
<1>0. runs[r] \in Run
    OBVIOUS
<1>1. [runs[r] EXCEPT !.status = s] \in Run
    BY <1>0 DEF Run
<1>2. [runs[r] EXCEPT !.status = s].job = runs[r].job
    BY <1>0 DEF Run
<1>3. [runs[r] EXCEPT !.status = s].status = s
    BY <1>0 DEF Run
<1> DEFINE x == [runs[r] EXCEPT !.status = s]
<1>4. runs' = [runs EXCEPT ![r] = x]
    OBVIOUS
<1> HIDE DEF x
<1>5. runs' \in Seq(Run) /\ Len(runs') = Len(runs)
    BY <1>1, <1>4 DEF x
<1>6. \A q \in 1..Len(runs) : runs'[q] = IF q = r THEN x ELSE runs[q]
    BY <1>4
<1>7. r \in 1..Len(runs)
    OBVIOUS
<1> QED
    BY <1>2, <1>3, <1>5, <1>6, <1>7 DEF x

(* A slot is dropped: one more run of its job is forgotten. *)
LEMMA DropStep ==
    ASSUME IInv, NEW s \in Slots, held[s] # 0, Dropped(s), UNCHANGED kind,
           runs' \in Seq(Run), Len(runs') = Len(runs),
           \A r \in 1..Len(runs) : runs'[r].job = runs[r].job,
           answered' \in [Job -> SUBSET (1..MaxRuns)]
    PROVE  IInv'
<1> DEFINE k == runs[held[s]].job
<1>1. held[s] \in 1..Len(runs) /\ runs[held[s]] \in Run
    BY DEF IInv, TypeOK
<1>2. k \in Job
    BY <1>1 DEF Run
<1>3. /\ held' = [held EXCEPT ![s] = 0]
      /\ forgotten' = [forgotten EXCEPT ![k] = @ + 1]
    BY DEF Dropped
<1>4. \A q \in Slots : held'[q] = IF q = s THEN 0 ELSE held[q]
    BY <1>3 DEF IInv, TypeOK
<1>5. \A j \in Job : forgotten'[j] = IF j = k THEN forgotten[j] + 1 ELSE forgotten[j]
    BY <1>2, <1>3 DEF IInv, TypeOK
<1>6. TypeOK'
    <2>1. held' \in [Slots -> 0..Len(runs)]
        BY <1>3 DEF IInv, TypeOK
    <2>2. forgotten' \in [Job -> Nat]
        BY <1>2, <1>3 DEF IInv, TypeOK
    <2> QED
        BY <2>1, <2>2 DEF IInv, TypeOK
<1>7. FuturesAreOwn'
    <2>1. \A j \in Job : <<"id", j>> \in Slots /\ held[<<"id", j>>] \in 0..Len(runs)
        BY DEF IInv, TypeOK, Slots
    <2> QED
        BY <2>1, <1>4 DEF IInv, FuturesAreOwn
<1>8. ASSUME NEW j \in Job PROVE forgotten[j] + Kept(j) <= forgotten'[j] + Kept(j)'
    <2>1. /\ <<"name", JobName[j]>> \in Slots /\ forgotten[j] \in Nat
          /\ held[<<"name", JobName[j]>>] \in 0..Len(runs)
        BY DEF IInv, TypeOK, Slots, Names
    <2>2. CASE <<"name", JobName[j]>> = s
        BY <2>1, <2>2, <1>4, <1>5 DEF Kept
    <2>3. CASE <<"name", JobName[j]>> # s
        BY <2>1, <2>3, <1>4, <1>5 DEF Kept
    <2> QED
        BY <2>2, <2>3
<1>9. \A j \in Job : RunsOf(j)' = RunsOf(j)
    <2>1. DOMAIN runs' = 1..Len(runs) /\ DOMAIN runs = 1..Len(runs)
        BY DEF IInv, TypeOK
    <2> QED
        BY <2>1 DEF RunsOf
<1>10. RunsAreAccounted'
    <2> SUFFICES ASSUME kind = "kubernetes", NEW j \in Job
                 PROVE  /\ IsFiniteSet(RunsOf(j))
                        /\ Cardinality(RunsOf(j)) <= forgotten'[j] + Kept(j)'
        BY <1>9 DEF RunsAreAccounted
    <2>1. IsFiniteSet(RunsOf(j)) /\ Cardinality(RunsOf(j)) <= forgotten[j] + Kept(j)
        BY DEF IInv, RunsAreAccounted
    <2>2. Cardinality(RunsOf(j)) \in Nat
        BY <2>1, FS_CardinalityType
    <2>3. /\ forgotten[j] \in Nat /\ forgotten'[j] \in Nat
          /\ Kept(j) \in {0, 1} /\ Kept(j)' \in {0, 1}
        BY <1>6 DEF IInv, TypeOK, Kept
    <2> QED
        BY <2>1, <2>2, <2>3, <1>8
<1> QED
    BY <1>6, <1>7, <1>10 DEF IInv

(* submit() starts a run: a local future replaces what was stored for the   *)
(* id, a Job is created only under a name that was free.                    *)
LEMMA BeginStep ==
    ASSUME IInv, NEW j \in Job, NEW s \in Statuses, Begin(j, s),
           kind = "kubernetes" => Entry(j) = 0,
           UNCHANGED <<kind, answered, forgotten>>
    PROVE  IInv'
<1> DEFINE n == Len(runs) + 1
<1>1. /\ n \in 1..MaxRuns
      /\ runs' = Append(runs, [job |-> j, status |-> s])
      /\ held' = [held EXCEPT ![Slot(j)] = n]
    BY BoundsAssumption DEF Begin, IInv, TypeOK
<1>2. /\ runs' \in Seq(Run) /\ Len(runs') = n
      /\ \A r \in 1..Len(runs) : runs'[r] = runs[r]
      /\ runs'[n].job = j
    BY <1>1 DEF IInv, TypeOK, Run
<1>3. Slot(j) \in Slots
    BY SlotType
<1>4. \A q \in Slots : held'[q] = IF q = Slot(j) THEN n ELSE held[q]
    BY <1>1, <1>3 DEF IInv, TypeOK
<1>5. \A q \in Slots : held[q] \in 0..Len(runs)
    BY DEF IInv, TypeOK
<1>6. TypeOK'
    <2>1. held' \in [Slots -> 0..n]
        BY <1>1, <1>3 DEF IInv, TypeOK
    <2> QED
        BY <1>1, <1>2, <2>1 DEF IInv, TypeOK
<1>7. FuturesAreOwn'
    <2> SUFFICES ASSUME kind = "local", NEW i \in Job, held'[<<"id", i>>] # 0
                 PROVE  runs'[held'[<<"id", i>>]].job = i
        BY DEF FuturesAreOwn
    <2>1. Slot(j) = <<"id", j>> /\ <<"id", i>> \in Slots
        BY DEF Slot, Slots
    <2>2. CASE i = j
        BY <2>1, <2>2, <1>2, <1>4
    <2>3. CASE i # j
        <3>1. held'[<<"id", i>>] = held[<<"id", i>>]
            BY <2>1, <2>3, <1>4
        <3> QED
            BY <3>1, <2>1, <1>2, <1>5 DEF IInv, FuturesAreOwn
    <2> QED
        BY <2>2, <2>3
<1>8. RunsAreAccounted'
    <2> SUFFICES ASSUME kind = "kubernetes", NEW i \in Job
                 PROVE  /\ IsFiniteSet(RunsOf(i)')
                        /\ Cardinality(RunsOf(i)') <= forgotten[i] + Kept(i)'
        BY DEF RunsAreAccounted
    <2>1. /\ IsFiniteSet(RunsOf(i)) /\ Cardinality(RunsOf(i)) <= forgotten[i] + Kept(i)
          /\ Cardinality(RunsOf(i)) \in Nat /\ forgotten[i] \in Nat
        BY FS_CardinalityType DEF IInv, TypeOK, RunsAreAccounted
    <2>2. Slot(j) = <<"name", JobName[j]>> /\ <<"name", JobName[i]>> \in Slots
        BY DEF Slot, Slots, Names
    <2>3. held[<<"name", JobName[j]>>] = 0
        BY <2>2 DEF Entry
    <2>4. DOMAIN runs = 1..Len(runs) /\ DOMAIN runs' = 1..n
        BY <1>2 DEF IInv, TypeOK
    <2>5. CASE i = j
        <3>1. RunsOf(j)' = RunsOf(j) \cup {n}
            BY <2>4, <1>2 DEF RunsOf, IInv, TypeOK
        <3>2. n \notin RunsOf(j)
            BY <2>4 DEF RunsOf, IInv, TypeOK
        <3>3. /\ IsFiniteSet(RunsOf(j) \cup {n})
              /\ Cardinality(RunsOf(j) \cup {n}) = Cardinality(RunsOf(j)) + 1
            BY <2>1, <2>5, <3>2, FS_AddElement
        <3>4. Kept(j) = 0
            BY <2>3 DEF Kept
        <3>5. Kept(j)' = 1
            BY <2>2, <1>1, <1>2, <1>3, <1>4 DEF Kept
        <3> QED
            BY <2>1, <2>5, <3>1, <3>3, <3>4, <3>5
    <2>6. CASE i # j
        <3>1. RunsOf(i)' = RunsOf(i)
            BY <2>4, <2>6, <1>2 DEF RunsOf, IInv, TypeOK
        <3>2. Kept(i)' = Kept(i)
            <4>1. CASE JobName[i] = JobName[j]
                <5>1. Kept(i) = 0
                    BY <4>1, <2>3 DEF Kept
                <5>2. held'[<<"name", JobName[i]>>] = n
                    BY <4>1, <2>2, <1>4
                <5>3. Kept(i)' = 0
                    BY <5>2, <2>6, <1>2 DEF Kept
                <5> QED
                    BY <5>1, <5>3
            <4>2. CASE JobName[i] # JobName[j]
                <5>1. held'[<<"name", JobName[i]>>] = held[<<"name", JobName[i]>>]
                    BY <4>2, <2>2, <1>4
                <5>2. held[<<"name", JobName[i]>>] \in 0..Len(runs)
                    BY <2>2, <1>5
                <5> QED
                    BY <5>1, <5>2, <1>2 DEF Kept
            <4> QED
                BY <4>1, <4>2
        <3> QED
            BY <2>1, <3>1, <3>2
    <2> QED
        BY <2>5, <2>6
<1> QED
    BY <1>6, <1>7, <1>8 DEF IInv

(* Nothing is stored and nothing has run before the first submit(). *)
LEMMA InitIInv == Init => IInv
<1> SUFFICES ASSUME Init PROVE IInv
    OBVIOUS
<1>1. TypeOK
    BY BoundsAssumption DEF Init, TypeOK, Kinds
<1>2. \A j \in Job : /\ held[<<"id", j>>] = 0
                     /\ RunsOf(j) = {}
    BY DEF Init, Slots, RunsOf
<1>3. IsFiniteSet({}) /\ Cardinality({}) = 0
    BY FS_EmptySet
<1>4. FuturesAreOwn
    BY <1>2 DEF FuturesAreOwn
<1>5. RunsAreAccounted
    <2> SUFFICES ASSUME NEW j \in Job
                 PROVE  /\ IsFiniteSet(RunsOf(j))
                        /\ Cardinality(RunsOf(j)) <= forgotten[j] + Kept(j)
        BY DEF RunsAreAccounted
    <2>1. IsFiniteSet(RunsOf(j)) /\ Cardinality(RunsOf(j)) = 0
        BY <1>2, <1>3
    <2>2. forgotten[j] = 0
        BY DEF Init
    <2>3. Kept(j) = 0
        BY DEF Init, Kept, Slots, Names
    <2> QED
        BY <2>1, <2>2, <2>3
<1> QED
    BY <1>1, <1>4, <1>5 DEF IInv

(* Every call of a broker, every end of a run and every fault keeps the     *)
(* invariant.                                                               *)
LEMMA NextIInv == IInv /\ [Next]_vars => IInv'
<1> SUFFICES ASSUME IInv, [Next]_vars PROVE IInv'
    OBVIOUS
<1>0. /\ runs \in Seq(Run) /\ Len(runs) \in Nat /\ Len(runs) <= MaxRuns
      /\ DOMAIN runs = 1..Len(runs)
      /\ \A q \in Slots : held[q] \in 0..Len(runs)
      /\ answered \in [Job -> SUBSET (1..MaxRuns)]
    BY DEF IInv, TypeOK
<1>1. ASSUME UNCHANGED <<kind, held, runs, answered, forgotten>> PROVE IInv'
    BY <1>0, <1>1, StatusStep
<1>2. ASSUME NEW j \in Job, SubmitLocal(j) PROVE IInv'
    <2>1. CASE j \in Supported
        <3>1. Begin(j, "queued") /\ kind # "kubernetes" /\ "queued" \in Statuses
            BY <1>2, <2>1 DEF SubmitLocal, Statuses
        <3> QED
            BY <1>2, <3>1, BeginStep DEF SubmitLocal
    <2>2. CASE j \notin Supported
        BY <1>1, <1>2, <2>2 DEF SubmitLocal
    <2> QED
        BY <2>1, <2>2
<1>3. ASSUME NEW j \in Job, SubmitKubernetes(j) PROVE IInv'
    <2>1. CASE Entry(j) = 0
        <3>1. Begin(j, "active") /\ "active" \in Statuses
            BY <1>3, <2>1 DEF SubmitKubernetes, Statuses
        <3> QED
            BY <1>3, <2>1, <3>1, BeginStep DEF SubmitKubernetes
    <2>2. CASE Entry(j) # 0
        BY <1>1, <1>3, <2>2 DEF SubmitKubernetes, Conflict
    <2> QED
        BY <2>1, <2>2
<1>4. ASSUME NEW r \in DOMAIN runs, StartLocal(r) PROVE IInv'
    <2>1. "active" \in Statuses
        BY DEF Statuses
    <2> QED
        BY <1>0, <1>4, <2>1, StatusChange, StatusStep DEF StartLocal
<1>5. ASSUME NEW r \in DOMAIN runs, Finish(r) PROVE IInv'
    <2>1. PICK s \in Outcomes : runs' = [runs EXCEPT ![r].status = s]
        BY <1>5 DEF Finish
    <2>2. s \in Statuses
        BY DEF Outcomes, Statuses
    <2> QED
        BY <1>0, <1>5, <2>1, <2>2, StatusChange, StatusStep DEF Finish
<1>6. ASSUME NEW s \in Slots, Expire(s) PROVE IInv'
    BY <1>0, <1>6, DropStep DEF Expire
<1>7. ASSUME NEW j \in Job, Cancel(j) PROVE IInv'
    <2>1. Slot(j) \in Slots /\ Entry(j) = held[Slot(j)] /\ Entry(j) # 0
        BY <1>7, SlotType DEF Cancel, Entry
    <2>2. Entry(j) \in DOMAIN runs
        BY <1>0, <2>1
    <2> DEFINE s == IF runs[Entry(j)].status = "queued"
                      THEN "cancelled" ELSE runs[Entry(j)].status
    <2>3. runs[Entry(j)] \in Run
        BY <1>0, <2>2
    <2>4. s \in Statuses
        BY <2>3 DEF Run, Statuses
    <2>5. runs' = [runs EXCEPT ![Entry(j)].status = s]
        BY <1>7 DEF Cancel
    <2> HIDE DEF s
    <2>6. /\ runs' \in Seq(Run) /\ Len(runs') = Len(runs)
          /\ \A r \in 1..Len(runs) : runs'[r].job = runs[r].job
        BY <1>0, <2>2, <2>4, <2>5, StatusChange
    <2> QED
        BY <1>0, <1>7, <2>1, <2>6, DropStep DEF Cancel
<1>8. ASSUME NEW j \in Job, ReconcileLocal(j) PROVE IInv'
    <2>1. Slot(j) \in Slots /\ Entry(j) = held[Slot(j)] /\ Entry(j) # 0
        BY <1>8, SlotType DEF ReconcileLocal, Entry
    <2>2. Entry(j) \in 1..MaxRuns
        BY <1>0, <2>1, BoundsAssumption
    <2>3. answered' \in [Job -> SUBSET (1..MaxRuns)]
        BY <1>0, <1>8, <2>2 DEF ReconcileLocal
    <2> QED
        BY <1>0, <1>8, <2>1, <2>3, DropStep DEF ReconcileLocal
<1>9. ASSUME NEW j \in Job, ReconcileKubernetes(j) PROVE IInv'
    <2>1. Slot(j) \in Slots /\ Entry(j) = held[Slot(j)] /\ Entry(j) # 0
        BY <1>9, SlotType DEF ReconcileKubernetes, Entry
    <2>2. Entry(j) \in 1..MaxRuns
        BY <1>0, <2>1, BoundsAssumption
    <2>3. /\ answered' \in [Job -> SUBSET (1..MaxRuns)]
          /\ UNCHANGED <<kind, held, runs, forgotten>>
        BY <1>0, <1>9, <2>2 DEF ReconcileKubernetes
    <2>4. TypeOK'
        BY <2>3 DEF IInv, TypeOK
    <2> QED
        BY <2>3, <2>4 DEF IInv, FuturesAreOwn, RunsAreAccounted, RunsOf, Kept
<1>10. ASSUME Restart PROVE IInv'
    <2>1. CASE kind # "local"
        BY <1>1, <1>10, <2>1 DEF Restart
    <2>2. CASE kind = "local"
        <3>1. /\ held' = [s \in Slots |-> 0]
              /\ runs' = [r \in DOMAIN runs |->
                            IF runs[r].status \in {"queued", "active"}
                              THEN [runs[r] EXCEPT !.status = "lost"] ELSE runs[r]]
              /\ UNCHANGED <<kind, answered, forgotten>>
            BY <1>10, <2>2 DEF Restart
        <3>2. \A r \in 1..Len(runs) : runs[r] \in Run
            BY <1>0
        <3>3. \A r \in 1..Len(runs) : [runs[r] EXCEPT !.status = "lost"] \in Run
            BY <3>2 DEF Run, Statuses
        <3>4. runs' \in [1..Len(runs) -> Run]
            BY <1>0, <3>1, <3>2, <3>3
        <3>5. runs' \in Seq(Run) /\ Len(runs') = Len(runs)
            BY <1>0, <3>4
        <3>6. TypeOK'
            BY <1>0, <3>1, <3>5 DEF IInv, TypeOK
        <3>7. FuturesAreOwn'
            BY <3>1 DEF FuturesAreOwn, Slots
        <3>8. RunsAreAccounted'
            BY <2>2, <3>1 DEF RunsAreAccounted
        <3> QED
            BY <3>6, <3>7, <3>8 DEF IInv
    <2> QED
        BY <2>1, <2>2
<1>11. ASSUME Next PROVE IInv'
    <2>1. ASSUME NEW j \in Job, ApiException(j) \/ GiveUp(j) \/ Retry(j) PROVE IInv'
        BY <1>1, <2>1 DEF ApiException, GiveUp, Retry
    <2> QED
        BY <1>11, <1>2, <1>3, <1>4, <1>5, <1>6, <1>7, <1>8, <1>9, <1>10, <2>1 DEF Next
<1> QED
    BY <1>1, <1>11 DEF vars

(* Whatever jobs, names and faults: on Kubernetes the work of a job is done *)
(* again only after its Job object was cancelled or has expired.            *)
THEOREM KubernetesRunsOnce == Spec => []RunsOncePerEntry
<1>1. IInv => RunsOncePerEntry
    <2> SUFFICES ASSUME IInv, kind = "kubernetes", NEW j \in Job
                 PROVE  Cardinality(RunsOf(j)) <= 1 + forgotten[j]
        BY DEF RunsOncePerEntry, RunsOf
    <2>1. IsFiniteSet(RunsOf(j)) /\ Cardinality(RunsOf(j)) <= forgotten[j] + Kept(j)
        BY DEF IInv, RunsAreAccounted
    <2>2. Cardinality(RunsOf(j)) \in Nat /\ forgotten[j] \in Nat /\ Kept(j) \in {0, 1}
        BY <2>1, FS_CardinalityType DEF IInv, TypeOK, Kept
    <2> QED
        BY <2>1, <2>2
<1> QED
    BY <1>1, InitIInv, NextIInv, PTL DEF Spec

-----------------------------------------------------------------------------
(* Outputs are produced only where a run newly succeeds. *)
LEMMA ProducedSame ==
    ASSUME \A r \in DOMAIN runs : r \in DOMAIN runs' /\ runs'[r].job = runs[r].job,
           \A r \in DOMAIN runs' : runs'[r].status = "succeeded" <=>
                                    r \in DOMAIN runs /\ runs[r].status = "succeeded"
    PROVE  Produced' = Produced
BY DEF Produced

(* Every step of a broker and its callers is a step of the job service or   *)
(* leaves it alone.                                                         *)
LEMMA StepImplements ==
    IInv /\ [Next]_vars => [Service!Next]_(Service!vars)
<1> SUFFICES ASSUME IInv, [Next]_vars PROVE [Service!Next]_(Service!vars)
    OBVIOUS
<1> USE DEF Service!vars
<1>0. /\ runs \in Seq(Run) /\ Len(runs) \in Nat /\ Len(runs) <= MaxRuns
      /\ DOMAIN runs = 1..Len(runs)
      /\ \A q \in Slots : held[q] \in 0..Len(runs)
    BY DEF IInv, TypeOK
<1>1. ASSUME UNCHANGED <<runs, answered>> PROVE [Service!Next]_(Service!vars)
    BY <1>1 DEF Produced
<1>2. ASSUME NEW j \in Job, NEW s \in {"queued", "active"}, Begin(j, s), UNCHANGED answered
      PROVE  [Service!Next]_(Service!vars)
    <2>1. runs' = Append(runs, [job |-> j, status |-> s])
        BY <1>2 DEF Begin
    <2>2. /\ DOMAIN runs' = 1..(Len(runs) + 1)
          /\ \A r \in 1..Len(runs) : runs'[r] = runs[r]
          /\ runs'[Len(runs) + 1].status # "succeeded"
        BY <1>0, <2>1
    <2>3. Produced' = Produced
        BY <1>0, <2>2, ProducedSame
    <2> QED
        BY <1>2, <2>3
<1>3. ASSUME NEW r \in DOMAIN runs, NEW s \in Statuses, runs[r].status # "succeeded",
             runs' = [runs EXCEPT ![r].status = s], UNCHANGED answered
      PROVE  [Service!Next]_(Service!vars)
    <2>1. /\ DOMAIN runs' = 1..Len(runs)
          /\ \A q \in 1..Len(runs) : runs'[q].job = runs[q].job
          /\ \A q \in 1..Len(runs) : q # r => runs'[q] = runs[q]
          /\ runs'[r].status = s
        BY <1>0, <1>3, StatusChange
    <2>2. CASE s # "succeeded"
        <3>1. Produced' = Produced
            BY <1>0, <1>3, <2>1, <2>2, ProducedSame
        <3> QED
            BY <1>3, <3>1
    <2>3. CASE s = "succeeded"
        <3> DEFINE j == runs[r].job
        <3>1. j \in Job /\ r \in 1..MaxRuns
            <4>1. runs[r] \in Run
                BY <1>0
            <4> QED
                BY <1>0, <4>1, BoundsAssumption DEF Run
        <3>2. \A i \in Job : Produced'[i] = IF i = j THEN Produced[i] \cup {r} ELSE Produced[i]
            BY <1>0, <1>3, <2>1, <2>3 DEF Produced
        <3>3. Produced' = [Produced EXCEPT ![j] = @ \cup {r}]
            <4>1. /\ Produced = [i \in Job |-> Produced[i]]
                  /\ Produced' = [i \in Job |-> Produced'[i]]
                BY DEF Produced
            <4> QED
                BY <3>1, <3>2, <4>1, Zenon
        <3>4. Service!Produce(j, r)
            BY <1>3, <3>3 DEF Service!Produce
        <3> QED
            BY <3>1, <3>4 DEF Service!Next
    <2> QED
        BY <2>2, <2>3
<1>4. ASSUME NEW j \in Job, UNCHANGED runs,
             \/ UNCHANGED answered
             \/ /\ Entry(j) # 0 /\ runs[Entry(j)].status = "succeeded"
                /\ runs[Entry(j)].job = j
                /\ answered' = [answered EXCEPT ![j] = @ \cup {Entry(j)}]
      PROVE  [Service!Next]_(Service!vars)
    <2>1. CASE UNCHANGED answered
        BY <1>1, <1>4, <2>1
    <2>2. CASE ~UNCHANGED answered
        <3>1. Entry(j) \in 1..Len(runs)
            BY <1>0, <1>4, <2>2, SlotType DEF Entry
        <3>2. Entry(j) \in Produced[j] /\ Entry(j) \in 1..MaxRuns
            BY <1>0, <1>4, <2>2, <3>1, BoundsAssumption DEF Produced
        <3>3. Produced' = Produced
            BY <1>4 DEF Produced
        <3>4. Service!Answer(j, Entry(j))
            BY <1>4, <2>2, <3>2, <3>3 DEF Service!Answer
        <3> QED
            BY <3>2, <3>4 DEF Service!Next
    <2> QED
        BY <2>1, <2>2
<1>5. ASSUME NEW j \in Job, SubmitLocal(j) \/ SubmitKubernetes(j)
      PROVE  [Service!Next]_(Service!vars)
    <2>1. UNCHANGED answered
        BY <1>5 DEF SubmitLocal, SubmitKubernetes
    <2>2. Begin(j, "queued") \/ Begin(j, "active") \/ UNCHANGED runs
        BY <1>5 DEF SubmitLocal, SubmitKubernetes, Conflict
    <2> QED
        BY <1>1, <1>2, <2>1, <2>2
<1>6. ASSUME NEW r \in DOMAIN runs, StartLocal(r) \/ Finish(r)
      PROVE  [Service!Next]_(Service!vars)
    <2>1. /\ runs[r].status # "succeeded" /\ UNCHANGED answered
          /\ \E s \in Outcomes \cup {"active"} : runs' = [runs EXCEPT ![r].status = s]
        BY <1>6 DEF StartLocal, Finish
    <2>2. Outcomes \cup {"active"} \subseteq Statuses
        BY DEF Outcomes, Statuses
    <2> QED
        BY <1>3, <2>1, <2>2
<1>7. ASSUME NEW j \in Job, Cancel(j) PROVE [Service!Next]_(Service!vars)
    <2>1. Entry(j) \in DOMAIN runs
        BY <1>0, <1>7, SlotType DEF Cancel, Entry
    <2> DEFINE s == IF runs[Entry(j)].status = "queued"
                      THEN "cancelled" ELSE runs[Entry(j)].status
    <2>2. runs' = [runs EXCEPT ![Entry(j)].status = s] /\ UNCHANGED answered
        BY <1>7 DEF Cancel
    <2>3. runs[Entry(j)] \in Run
        BY <1>0, <2>1
    <2>4. s \in Statuses /\ (s = "succeeded" <=> runs[Entry(j)].status = "succeeded")
        BY <2>3 DEF Run, Statuses
    <2> HIDE DEF s
    <2>5. /\ DOMAIN runs' = 1..Len(runs)
          /\ \A q \in 1..Len(runs) : runs'[q].job = runs[q].job
          /\ \A q \in 1..Len(runs) : q # Entry(j) => runs'[q] = runs[q]
          /\ runs'[Entry(j)].status = s
        BY <1>0, <2>1, <2>2, <2>4, StatusChange
    <2>6. Produced' = Produced
        BY <1>0, <2>1, <2>4, <2>5, ProducedSame
    <2> QED
        BY <2>2, <2>6
<1>8. ASSUME NEW j \in Job, ReconcileLocal(j) PROVE [Service!Next]_(Service!vars)
    <2>1. Slot(j) = <<"id", j>> /\ Entry(j) = held[<<"id", j>>] /\ kind = "local"
        BY <1>8 DEF ReconcileLocal, Slot, Entry
    <2>2. Entry(j) # 0 /\ runs[Entry(j)].job = j
        BY <1>8, <2>1 DEF ReconcileLocal, IInv, FuturesAreOwn
    <2> QED
        BY <1>4, <1>8, <2>2 DEF ReconcileLocal
<1>9. ASSUME NEW j \in Job, ReconcileKubernetes(j) PROVE [Service!Next]_(Service!vars)
    BY <1>4, <1>9 DEF ReconcileKubernetes, KeyMatches
<1>10. ASSUME Restart PROVE [Service!Next]_(Service!vars)
    <2>1. CASE kind # "local"
        BY <1>1, <1>10, <2>1 DEF Restart
    <2>2. CASE kind = "local"
        <3>1. /\ runs' = [r \in DOMAIN runs |->
                            IF runs[r].status \in {"queued", "active"}
                              THEN [runs[r] EXCEPT !.status = "lost"] ELSE runs[r]]
              /\ UNCHANGED answered
            BY <1>10, <2>2 DEF Restart
        <3>2. \A r \in DOMAIN runs : runs[r] \in Run
            BY <1>0
        <3>3. \A r \in DOMAIN runs : /\ [runs[r] EXCEPT !.status = "lost"].job = runs[r].job
                                     /\ [runs[r] EXCEPT !.status = "lost"].status = "lost"
            BY <3>2 DEF Run
        <3>4. DOMAIN runs' = DOMAIN runs
            BY <3>1
        <3>5. \A r \in DOMAIN runs : /\ runs'[r].job = runs[r].job
                                     /\ runs'[r].status = "succeeded" <=>
                                          runs[r].status = "succeeded"
            BY <3>1, <3>3
        <3>6. Produced' = Produced
            BY <3>4, <3>5, ProducedSame
        <3> QED
            BY <3>1, <3>6
    <2> QED
        BY <2>1, <2>2
<1>11. ASSUME Next PROVE [Service!Next]_(Service!vars)
    <2>1. ASSUME NEW j \in Job, ApiException(j) \/ GiveUp(j) \/ Retry(j)
          PROVE  [Service!Next]_(Service!vars)
        BY <1>1, <2>1 DEF ApiException, GiveUp, Retry
    <2>2. ASSUME NEW s \in Slots, Expire(s) PROVE [Service!Next]_(Service!vars)
        BY <1>1, <2>2 DEF Expire
    <2> QED
        BY <1>11, <1>5, <1>6, <1>7, <1>8, <1>9, <1>10, <2>1, <2>2 DEF Next
<1> QED
    BY <1>1, <1>11 DEF vars

(* Both brokers keep the promise of the WorkerBroker port for any jobs,     *)
(* colliding names and faults: a caller is only ever handed an output of    *)
(* its own job.                                                             *)
THEOREM BrokersImplementJobService == Spec => ImplementsJobService
<1>1. Init => Service!Init
    BY DEF Init, Service!Init, Produced
<1> QED
    BY <1>1, InitIInv, NextIInv, StepImplements, PTL
       DEF Spec, ImplementsJobService, Service!Spec
=============================================================================
