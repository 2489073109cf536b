------------------------- MODULE NodeRuntimeProofs -------------------------
(***************************************************************************)
(* Proofs, for any set of executors, keys and outputs and any number of    *)
(* calls and crashes, of what NodeRuntime promises; and, for any nodes and *)
(* routes, of what it records in node_routes (NodeRoutes).                 *)
(***************************************************************************)
EXTENDS NodeRuntime, NodeRoutes, TLAPS

(***************************************************************************)
(* What every executor knows about the ledger and the store at each line   *)
(* of _execute_idempotent, however many others run.                        *)
(***************************************************************************)
Knows(e) ==
    /\ pc[e] # "idle" => key[e] \in Key
    /\ pc[e] \in {"handler", "mark_unknown", "put_json", "complete"}
         => ledger[key[e]].status # "absent"
    /\ pc[e] \in {"put_json", "complete", "read", "commit"} => out[e] \in Output
    /\ pc[e] \in {"complete", "read", "commit"} => out[e] \in store
    /\ pc[e] \in {"read", "commit"} => ledger[key[e]].status = "completed"

RuntimeInv ==
    /\ TypeOK
    /\ CompletedReadable
    /\ IntentPrecedesEffect
    /\ CommittedIsCompleted
    /\ \A e \in Executor : Knows(e)

(* The strengthened invariant holds initially.                             *)
LEMMA RuntimeInit == Init => RuntimeInv
  BY DEF Init, RuntimeInv, TypeOK, CompletedReadable, IntentPrecedesEffect,
         CommittedIsCompleted, Knows, Status, Line

(* Types, the ledger's monotonicity and the stability of Knows for the     *)
(* executors that do not move are the same for every step: a step of e     *)
(* keeps the store growing, never loses a row and never downgrades one.    *)
LEMMA StepIsMonotone ==
  ASSUME RuntimeInv, NEW e \in Executor,
         (\E k \in Key : Execute(e, k)) \/ Step(e)
  PROVE  /\ TypeOK'
         /\ store \subseteq store'
         /\ \A k \in Key :
              /\ ledger[k].status = "completed" => ledger'[k].status = "completed"
              /\ ledger[k].status # "absent" => ledger'[k].status # "absent"
         /\ \A f \in Executor \ {e} :
              pc'[f] = pc[f] /\ key'[f] = key[f] /\ out'[f] = out[f]
  <1> USE RuntimeAssumption DEF RuntimeInv, TypeOK, Status, Line, Goto, Finish
  <1> key[e] \in Key \/ pc[e] = "idle"
    BY DEF Knows
  <1>1. CASE \E k \in Key : Execute(e, k)
    BY <1>1 DEF Execute
  <1>2. CASE Get(e)
    BY <1>2 DEF Get
  <1>3. CASE Read(e)
    BY <1>3 DEF Read
  <1>4. CASE Prepare(e)
    BY <1>4 DEF Prepare
  <1>5. CASE \E o \in Output : HandlerReturns(e, o)
    <2>1. PICK o \in Output : HandlerReturns(e, o)
      BY <1>5
    <2>2. UNCHANGED <<ledger, store, calls, returned>> /\ key[e] \in Key
      BY <2>1 DEF HandlerReturns
    <2>3. effects' \in [Key -> Nat]
      BY <2>1, <2>2 DEF HandlerReturns
    <2>4. /\ pc' \in [Executor -> Line]
          /\ key' \in [Executor -> Key \cup {NoKey}]
          /\ out' \in [Executor -> Output \cup {NoOutput}]
          /\ \A f \in Executor \ {e} :
               pc'[f] = pc[f] /\ key'[f] = key[f] /\ out'[f] = out[f]
      <3>1. CASE o \in Undeclared
        BY <2>1, <3>1 DEF HandlerReturns
      <3>2. CASE o \notin Undeclared
        <4>1. /\ pc' = [pc EXCEPT ![e] = "put_json"]
              /\ out' = [out EXCEPT ![e] = o]
              /\ key' = key
          BY <2>1, <3>2 DEF HandlerReturns
        <4>2. QED
          BY <4>1
      <3>3. QED
        BY <3>1, <3>2
    <2>5. QED
      BY <2>2, <2>3, <2>4
  <1>6. CASE HandlerRaises(e)
    <2>1. effects' \in [Key -> Nat]
      BY <1>6 DEF HandlerRaises
    <2>2. QED
      BY <1>6, <2>1 DEF HandlerRaises
  <1>7. CASE MarkUnknown(e)
    BY <1>7 DEF MarkUnknown
  <1>8. CASE PutJson(e)
    BY <1>8 DEF PutJson, Knows
  <1>9. CASE Complete(e)
    <2>1. /\ pc[e] = "complete" /\ key[e] \in Key /\ out[e] \in Output
          /\ ledger[key[e]].status # "absent"
      BY <1>9 DEF Complete, Knows
    <2>2. ledger' = [ledger EXCEPT ![key[e]] = [status |-> "completed", ref |-> out[e]]]
      BY <1>9, <2>1 DEF Complete
    <2>3. ledger' \in [Key -> [status : Status, ref : Output \cup {NoOutput}]]
      BY <2>1, <2>2
    <2>4. \A k \in Key : ledger'[k] = ledger[k] \/ ledger'[k].status = "completed"
      BY <2>1, <2>2
    <2>5. QED
      BY <1>9, <2>1, <2>3, <2>4 DEF Complete
  <1>10. CASE Commit(e)
    BY <1>10 DEF Commit, Knows
  <1>11. CASE Crash(e)
    <2>1. effects' \in [Key -> Nat]
      BY <1>11 DEF Crash
    <2>2. QED
      BY <1>11, <2>1 DEF Crash
  <1> QED
    BY <1>1, <1>2, <1>3, <1>4, <1>5, <1>6, <1>7, <1>8, <1>9, <1>10, <1>11 DEF Step

(* Executors that do not move keep what they know.                         *)
LEMMA OthersStillKnow ==
  ASSUME RuntimeInv, NEW e \in Executor,
         (\E k \in Key : Execute(e, k)) \/ Step(e),
         NEW f \in Executor \ {e}
  PROVE  Knows(f)'
  BY StepIsMonotone DEF RuntimeInv, Knows

(* The strengthened invariant is inductive.                                *)
LEMMA RuntimeStep == RuntimeInv /\ [Next]_vars => RuntimeInv'
  <1> SUFFICES ASSUME RuntimeInv, [Next]_vars PROVE RuntimeInv'
    OBVIOUS
  <1>1. CASE UNCHANGED vars
    BY <1>1 DEF vars, RuntimeInv, TypeOK, CompletedReadable, IntentPrecedesEffect,
                CommittedIsCompleted, Knows
  <1>2. ASSUME NEW e \in Executor, (\E k \in Key : Execute(e, k)) \/ Step(e)
        PROVE  RuntimeInv'
    <2> SUFFICES /\ CompletedReadable' /\ IntentPrecedesEffect'
                 /\ CommittedIsCompleted' /\ Knows(e)'
      BY <1>2, StepIsMonotone, OthersStillKnow DEF RuntimeInv
    <2>0. /\ TypeOK /\ TypeOK' /\ Knows(e) /\ CompletedReadable
          /\ IntentPrecedesEffect /\ CommittedIsCompleted
      BY <1>2, StepIsMonotone DEF RuntimeInv
    <2> USE RuntimeAssumption, <2>0 DEF TypeOK, Goto, Finish, Knows, CompletedReadable,
            IntentPrecedesEffect, CommittedIsCompleted
    <2>1. CASE \E k \in Key : Execute(e, k)
      BY <2>1 DEF Execute
    <2>2. CASE Get(e)
      BY <2>2 DEF Get
    <2>3. CASE Read(e)
      BY <2>3 DEF Read
    <2>4. CASE Prepare(e)
      BY <2>4 DEF Prepare
    <2>5. CASE \E o \in Output : HandlerReturns(e, o)
      BY <2>5 DEF HandlerReturns
    <2>6. CASE HandlerRaises(e)
      BY <2>6 DEF HandlerRaises
    <2>7. CASE MarkUnknown(e)
      BY <2>7 DEF MarkUnknown
    <2>8. CASE PutJson(e)
      BY <2>8 DEF PutJson
    <2>9. CASE Complete(e)
      <3>1. /\ key[e] \in Key /\ out[e] \in Output /\ out[e] \in store
            /\ ledger[key[e]].status # "absent"
        BY <2>9 DEF Complete
      <3>2. /\ ledger' = [ledger EXCEPT ![key[e]] =
                             [status |-> "completed", ref |-> out[e]]]
            /\ UNCHANGED <<key, out, store, effects, returned>>
            /\ pc' = [pc EXCEPT ![e] = "commit"]
        BY <2>9, <3>1 DEF Complete
      <3>3. \A k \in Key : \/ ledger'[k] = ledger[k]
                           \/ /\ ledger'[k].status = "completed"
                              /\ ledger'[k].ref = out[e]
        BY <3>1, <3>2
      <3>4. ledger'[key[e]].status = "completed"
        BY <3>1, <3>2
      <3> QED
        BY <3>1, <3>2, <3>3, <3>4
    <2>10. CASE Commit(e)
      BY <2>10 DEF Commit
    <2>11. CASE Crash(e)
      BY <2>11 DEF Crash
    <2> QED
      BY <1>2, <2>1, <2>2, <2>3, <2>4, <2>5, <2>6, <2>7, <2>8, <2>9, <2>10, <2>11
         DEF Step
  <1> QED
    BY <1>1, <1>2 DEF Next

-----------------------------------------------------------------------------
(* Every variable keeps its type.                                          *)
THEOREM TypeCorrect == Spec => []TypeOK
  BY RuntimeInit, RuntimeStep, PTL DEF Spec, RuntimeInv

(* A completed intent can always be replayed: whatever crashes or runs     *)
(* beside it, the output that PostgreSQL names is in the artifact store.   *)
THEOREM CompletedIsReadable == Spec => []CompletedReadable
  BY RuntimeInit, RuntimeStep, PTL DEF Spec, RuntimeInv

(* prepare comes before the handler: an effect always has a ledger row.    *)
THEOREM EffectHasIntent == Spec => []IntentPrecedesEffect
  BY RuntimeInit, RuntimeStep, PTL DEF Spec, RuntimeInv

(* The graph only ever sees executions whose intent is completed.          *)
THEOREM CommittedHasCompleted == Spec => []CommittedIsCompleted
  BY RuntimeInit, RuntimeStep, PTL DEF Spec, RuntimeInv

(* prepare, mark_unknown and complete never downgrade a completed intent.  *)
THEOREM CompletedIsFinal == Spec => NeverDowngraded
  <1>1. RuntimeInv /\ [Next]_vars
          => [\A k \in Key : ledger[k].status = "completed"
                              => ledger'[k].status = "completed"]_vars
    BY StepIsMonotone DEF Next
  <1> QED
    BY <1>1, RuntimeInit, RuntimeStep, PTL DEF Spec, NeverDowngraded

-----------------------------------------------------------------------------
(***************************************************************************)
(* The keys that one executor at a time is called for.  The row of such a  *)
(* key is only changed by the executor that holds the key, so what that    *)
(* executor read from it is still true when it writes.                     *)
(***************************************************************************)
Owns(e) ==
    /\ pc[e] = "idle" => key[e] = NoKey
    /\ key[e] \in Exclusive =>
         /\ \A f \in Executor \ {e} : key[f] # key[e]
         /\ pc[e] = "prepare" => ledger[key[e]].status # "completed"
         /\ pc[e] \in {"handler", "mark_unknown", "put_json", "complete"}
              => ledger[key[e]].status = "pending"
         /\ pc[e] \in {"read", "commit"} => ledger[key[e]].ref = out[e]

AloneInv ==
    /\ RuntimeInv
    /\ \A k \in Exclusive : ledger[k].status # "completed" => ledger[k].ref = NoOutput
    /\ \A e \in Executor : Owns(e)

(* Initially nobody holds a key and no row exists.                         *)
LEMMA AloneInit == Init => AloneInv
  BY RuntimeInit, RuntimeAssumption DEF Init, AloneInv, Owns, Exclusive

(* A step of e leaves alone every row but that of e's key.                 *)
LEMMA OwnRowOnly ==
  ASSUME AloneInv, NEW e \in Executor, Step(e), NEW k \in Key, k # key[e]
  PROVE  ledger'[k] = ledger[k] /\ effects'[k] = effects[k] /\ returned'[k] = returned[k]
  BY DEF AloneInv, RuntimeInv, TypeOK, Step, Get, Read, Prepare, HandlerReturns,
         HandlerRaises, MarkUnknown, PutJson, Complete, Commit, Crash, Goto, Finish

(* A step of e keeps e's key or drops it.                                  *)
LEMMA KeyKeptOrDropped ==
  ASSUME AloneInv, NEW e \in Executor, Step(e)
  PROVE  (key'[e] = key[e] /\ pc'[e] # "idle") \/ (key'[e] = NoKey /\ pc'[e] = "idle")
  BY DEF AloneInv, RuntimeInv, TypeOK, Step, Get, Read, Prepare, HandlerReturns,
         HandlerRaises, MarkUnknown, PutJson, Complete, Commit, Crash, Goto, Finish

(* Ownership of a key is inductive.                                        *)
LEMMA AloneStep == AloneInv /\ [Next]_vars => AloneInv'
  <1> SUFFICES ASSUME AloneInv, [Next]_vars PROVE AloneInv'
    OBVIOUS
  <1>0. RuntimeInv'
    BY RuntimeStep DEF AloneInv
  <1>1. CASE UNCHANGED vars
    BY <1>0, <1>1 DEF vars, AloneInv, Owns
  <1>2. ASSUME NEW e \in Executor, NEW k \in Key, Execute(e, k)
        PROVE  AloneInv'
    BY <1>0, <1>2, RuntimeAssumption
       DEF AloneInv, RuntimeInv, TypeOK, Owns, Exclusive, Execute, Goto
  <1>3. ASSUME NEW e \in Executor, Step(e)
        PROVE  AloneInv'
    <2>0. /\ TypeOK /\ TypeOK' /\ Knows(e) /\ Owns(e)
          /\ \A k \in Exclusive : ledger[k].status # "completed" => ledger[k].ref = NoOutput
      BY <1>0 DEF AloneInv, RuntimeInv
    <2>1. \A f \in Executor \ {e} : pc'[f] = pc[f] /\ key'[f] = key[f] /\ out'[f] = out[f]
      BY <1>3, StepIsMonotone DEF AloneInv
    <2>2. pc[e] # "idle" /\ key[e] \in Key /\ key[e] # NoKey
      BY <1>3, <2>0, RuntimeAssumption DEF Step, Get, Read, Prepare, HandlerReturns,
         HandlerRaises, MarkUnknown, PutJson, Complete, Commit, Crash, Knows
    <2>3. ASSUME NEW f \in Executor \ {e} PROVE Owns(f)'
      <3>1. /\ key[f] \in Exclusive => key[f] \in Key /\ key[f] # key[e]
            /\ Owns(f)
        BY <2>0, <2>2 DEF Owns, AloneInv, Exclusive
      <3>2. key[f] \in Exclusive => ledger'[key[f]] = ledger[key[f]]
        BY <1>3, <3>1, OwnRowOnly
      <3>3. \A g \in Executor : key'[g] = key[g] \/ key'[g] = NoKey
        BY <1>3, <2>1, KeyKeptOrDropped
      <3>4. key[f] \in Exclusive => \A g \in Executor \ {f} : key'[g] # key'[f]
        BY <2>1, <3>1, <3>3, RuntimeAssumption DEF Owns
      <3> QED
        BY <2>1, <3>1, <3>2, <3>4 DEF Owns
    <2>4. /\ Owns(e)'
          /\ key[e] \in Exclusive =>
               (ledger'[key[e]].status # "completed" => ledger'[key[e]].ref = NoOutput)
      <3> USE RuntimeAssumption, <2>0, <2>1, <2>2 DEF TypeOK, Owns, Knows, Exclusive, Goto, Finish
      <3>1. CASE Get(e)
        <4>1. ledger[key[e]].status = "completed" => ledger[key[e]].ref # NoOutput
          BY DEF AloneInv, RuntimeInv, CompletedReadable
        <4> QED
          BY <3>1, <4>1 DEF Get
      <3>2. CASE Read(e)
        BY <3>2 DEF Read
      <3>3. CASE Prepare(e)
        BY <3>3 DEF Prepare
      <3>4. CASE \E o \in Output : HandlerReturns(e, o)
        BY <3>4 DEF HandlerReturns
      <3>5. CASE HandlerRaises(e)
        BY <3>5 DEF HandlerRaises
      <3>6. CASE MarkUnknown(e)
        BY <3>6 DEF MarkUnknown
      <3>7. CASE PutJson(e)
        BY <3>7 DEF PutJson
      <3>8. CASE Complete(e)
        BY <3>8 DEF Complete
      <3>9. CASE Commit(e)
        BY <3>9 DEF Commit
      <3>10. CASE Crash(e)
        BY <3>10 DEF Crash
      <3> QED
        BY <1>3, <3>1, <3>2, <3>3, <3>4, <3>5, <3>6, <3>7, <3>8, <3>9, <3>10 DEF Step
    <2> QED
      BY <1>0, <1>3, <2>0, <2>3, <2>4, OwnRowOnly DEF AloneInv, Exclusive
  <1> QED
    BY <1>1, <1>2, <1>3 DEF Next

(* For a key called for alone, mark_unknown always finds its pending row,  *)
(* so it never masks the exception of the handler.                         *)
THEOREM HandlerErrorSurvives == Spec => []UnknownFindsPending
  <1>1. AloneInv => UnknownFindsPending
    BY DEF AloneInv, Owns, UnknownFindsPending
  <1> QED
    BY <1>1, AloneInit, AloneStep, PTL DEF Spec

(* Once such a key is completed, its handler has no further effect.        *)
THEOREM CompletedIsEffectFree == Spec => NoEffectAfterCompletion
  <1>1. ASSUME AloneInv, Next, NEW k \in Exclusive, ledger[k].status = "completed"
        PROVE  effects'[k] = effects[k]
    <2>1. ASSUME NEW e \in Executor, NEW j \in Key, Execute(e, j)
          PROVE  effects'[k] = effects[k]
      BY <2>1 DEF Execute
    <2>2. ASSUME NEW e \in Executor, Step(e)
          PROVE  effects'[k] = effects[k]
      <3>1. CASE k # key[e]
        BY <1>1, <2>2, <3>1, OwnRowOnly DEF Exclusive
      <3>2. CASE k = key[e]
        <4>1. pc[e] # "handler"
          BY <1>1, <3>2 DEF AloneInv, Owns
        <4> QED
          BY <2>2, <4>1 DEF Step, Get, Read, Prepare, HandlerReturns, HandlerRaises,
             MarkUnknown, PutJson, Complete, Commit, Crash
      <3> QED
        BY <3>1, <3>2
    <2> QED
      BY <1>1, <2>1, <2>2 DEF Next
  <1>2. AloneInv /\ [Next]_vars
          => [\A k \in Exclusive : ledger[k].status = "completed"
                              => effects'[k] = effects[k]]_vars
    BY <1>1
  <1> QED
    BY <1>2, AloneInit, AloneStep, PTL DEF Spec, NoEffectAfterCompletion

-----------------------------------------------------------------------------
(* The protocol implements OnceOnly.  intents.complete is the step that    *)
(* chooses, _commit the step that returns; every other step is invisible.  *)
THEOREM RuntimeImplementsOnceOnly == Spec => ImplementsOnceOnly
  <1> DEFINE chosen == [k \in Exclusive |-> ledger[k].ref]
             handed == [k \in Exclusive |-> returned[k]]
  <1>1. Init => Promise!Init
    BY DEF Init, Promise!Init, Exclusive
  <1>2. ASSUME AloneInv, [Next]_vars
        PROVE  [Promise!Next]_(Promise!vars)
    <2>1. CASE UNCHANGED vars
      BY <2>1 DEF vars, Promise!vars
    <2>2. ASSUME NEW e \in Executor, NEW k \in Key, Execute(e, k)
          PROVE  UNCHANGED Promise!vars
      BY <2>2 DEF Execute, Promise!vars
    <2>3. ASSUME NEW e \in Executor, Complete(e), key[e] \in Exclusive
          PROVE  Promise!Choose(key[e], out[e]) /\ out[e] \in Output
      <3>1. /\ key[e] \in Key /\ out[e] \in Output /\ TypeOK
            /\ ledger[key[e]].status = "pending"
        BY <1>2, <2>3 DEF AloneInv, RuntimeInv, Knows, Owns, Complete
      <3>2. ledger[key[e]].ref = NoOutput
        BY <1>2, <2>3, <3>1 DEF AloneInv
      <3>3. /\ ledger' = [ledger EXCEPT ![key[e]] =
                             [status |-> "completed", ref |-> out[e]]]
            /\ UNCHANGED returned
        BY <2>3, <3>1 DEF Complete
      <3>4. \A k \in Exclusive :
               ledger'[k].ref = IF k = key[e] THEN out[e] ELSE ledger[k].ref
        BY <3>1, <3>3 DEF TypeOK, Exclusive
      <3>5. chosen' = [chosen EXCEPT ![key[e]] = out[e]]
        BY <3>4
      <3>6. chosen[key[e]] = NoOutput /\ handed' = handed
        BY <2>3, <3>2, <3>3
      <3> QED
        BY <3>1, <3>5, <3>6 DEF Promise!Choose
    <2>4. ASSUME NEW e \in Executor, Commit(e), key[e] \in Exclusive
          PROVE  Promise!Return(key[e])
      <3>1. /\ key[e] \in Key /\ TypeOK /\ out[e] \in Output
            /\ ledger[key[e]].ref = out[e]
        BY <1>2, <2>4 DEF AloneInv, RuntimeInv, Knows, Owns, Commit
      <3>2. /\ returned' = [returned EXCEPT ![key[e]] = @ \cup {out[e]}]
            /\ UNCHANGED ledger
        BY <2>4 DEF Commit
      <3>3. \A k \in Exclusive :
               returned'[k] = IF k = key[e] THEN returned[k] \cup {out[e]} ELSE returned[k]
        BY <3>1, <3>2 DEF TypeOK, Exclusive
      <3>4. handed' = [handed EXCEPT ![key[e]] = @ \cup {chosen[key[e]]}]
        BY <2>4, <3>1, <3>3
      <3>5. chosen[key[e]] # NoOutput /\ chosen' = chosen
        BY <2>4, <3>1, <3>2, RuntimeAssumption
      <3> QED
        BY <3>4, <3>5 DEF Promise!Return
    <2>5. ASSUME NEW e \in Executor, Step(e),
                 \/ key[e] \notin Exclusive
                 \/ ~Complete(e) /\ ~Commit(e)
          PROVE  UNCHANGED Promise!vars
      <3>1. \A k \in Exclusive :
               ledger'[k].ref = ledger[k].ref /\ returned'[k] = returned[k]
        <4>1. CASE key[e] \notin Exclusive
          BY <1>2, <2>5, <4>1, OwnRowOnly DEF Exclusive
        <4>2. CASE UNCHANGED <<ledger, returned>>
          BY <4>2
        <4>3. CASE Prepare(e) \/ MarkUnknown(e)
          <5>1. \A k \in Key : ledger'[k].ref = ledger[k].ref
            BY <1>2, <4>3 DEF AloneInv, RuntimeInv, TypeOK, Prepare, MarkUnknown
          <5>2. returned' = returned
            BY <4>3 DEF Prepare, MarkUnknown
          <5> QED
            BY <5>1, <5>2 DEF Exclusive
        <4> QED
          BY <2>5, <4>1, <4>2, <4>3 DEF Step, Get, Read, HandlerReturns, HandlerRaises,
             PutJson, Crash
      <3>2. chosen' = chosen /\ handed' = handed
        BY <3>1
      <3> QED
        BY <3>2 DEF Promise!vars
    <2>6. ASSUME NEW e \in Executor, Step(e)
          PROVE  Promise!Next \/ UNCHANGED Promise!vars
      <3>1. CASE Complete(e) /\ key[e] \in Exclusive
        BY <2>3, <3>1 DEF Promise!Next, Promise!Choose
      <3>2. CASE Commit(e) /\ key[e] \in Exclusive
        BY <2>4, <3>2 DEF Promise!Next, Promise!Return
      <3> QED
        BY <2>5, <2>6, <3>1, <3>2
    <2> QED
      BY <1>2, <2>1, <2>2, <2>6 DEF Next
  <1> QED
    BY <1>1, <1>2, AloneInit, AloneStep, PTL DEF Spec, ImplementsOnceOnly, Promise!Spec

-----------------------------------------------------------------------------
(* The routes _commit records: route_for rediscovers the last one, for any *)
(* nodes, routes and number of revisits.                                   *)

(* The slots in use are 1 .. k: the walk of _latest_route_key reaches them *)
(* all, and its end holds the last route.                                  *)
Contiguous(r, route) ==
    \E k \in 0 .. MaxSlots :
        /\ r \in [1 .. k -> Route]
        /\ route = IF k = 0 THEN NoRoute ELSE r[k]

RoutesInv ==
    /\ ~raised
    /\ routes = [n \in Node |-> routes[n]]
    /\ last = [n \in Node |-> last[n]]
    /\ \A n \in Node : Contiguous(routes[n], last[n])

(* On a contiguous history of k routes the first free slot is k + 1, and   *)
(* never the plain key.                                                    *)
LEMMA FreeSlotIsNext ==
  ASSUME NEW k \in Nat \ {0}, NEW r, DOMAIN r = 1 .. k
  PROVE  FreeSlot(r) = k + 1
  <1> DEFINE P(n) == n \notin DOMAIN r /\ \A m \in 2 .. n - 1 : m \in DOMAIN r
  <1>0. {2} \cup {m + 1 : m \in DOMAIN r} = 2 .. k + 1
    <2>1. ASSUME NEW n \in 2 .. k + 1 PROVE n \in {2} \cup {m + 1 : m \in DOMAIN r}
      <3>1. n = 2 \/ (n - 1 \in DOMAIN r /\ n = (n - 1) + 1)
        OBVIOUS
      <3> QED
        BY <3>1
    <2>2. ASSUME NEW n \in {2} \cup {m + 1 : m \in DOMAIN r} PROVE n \in 2 .. k + 1
      OBVIOUS
    <2> QED
      BY <2>1, <2>2
  <1>1. k + 1 \in 2 .. k + 1 /\ P(k + 1)
    OBVIOUS
  <1>2. ASSUME NEW n \in 2 .. k + 1, P(n) PROVE n = k + 1
    <2>1. n > k
      BY <1>2
    <2>2. ~(n > k + 1)
      BY <1>2, <1>1
    <2> QED
      BY <2>1, <2>2
  <1> HIDE DEF P
  <1>3. (CHOOSE n \in 2 .. k + 1 : P(n)) = k + 1
    BY <1>1, <1>2
  <1> QED
    BY <1>0, <1>3 DEF FreeSlot, P

(* A commit on a contiguous history does not conflict, keeps it contiguous *)
(* and ends it with the committed route.                                   *)
LEMMA CommitExtends ==
  ASSUME NEW r, NEW old, Contiguous(r, old), NEW route \in Route,
         NextRouteKey(r, route) <= MaxSlots
  PROVE  LET slot == NextRouteKey(r, route) IN
         /\ ~Conflicts(r, slot, route)
         /\ Contiguous(MergeNodeRoutes(r, slot, route), route)
         /\ \A s \in DOMAIN r :
              /\ s \in DOMAIN MergeNodeRoutes(r, slot, route)
              /\ MergeNodeRoutes(r, slot, route)[s] = r[s]
  <1> USE RouteAssumption
  <1> PICK k \in 0 .. MaxSlots : r \in [1 .. k -> Route]
    BY DEF Contiguous
  <1> DEFINE slot == NextRouteKey(r, route)
             new == MergeNodeRoutes(r, slot, route)
  <1>1. CASE k = 0
    <2>1. slot = 1 /\ new \in [1 .. 1 -> Route] /\ new[1] = route
      BY <1>1 DEF NextRouteKey, MergeNodeRoutes
    <2>2. 1 \in 0 .. MaxSlots /\ DOMAIN r = {}
      BY <1>1, <2>1
    <2>3. Contiguous(new, route)
      <3> HIDE DEF slot, new
      <3>1. new \in [1 .. 1 -> Route] /\ route = IF 1 = 0 THEN NoRoute ELSE new[1]
        BY <2>1
      <3> QED
        BY <2>2, <3>1 DEF Contiguous
    <2> QED
      BY <2>2, <2>3 DEF Conflicts
  <1>2. CASE k > 0 /\ r[k] = route
    <2>1. slot = k
      BY <1>2, FreeSlotIsNext DEF NextRouteKey, LatestRouteKey
    <2>2. new = r
      BY <1>2, <2>1 DEF MergeNodeRoutes
    <2> QED
      BY <1>2, <2>1, <2>2 DEF Contiguous, Conflicts
  <1>3. CASE k > 0 /\ r[k] # route
    <2>1. slot = k + 1
      BY <1>3, FreeSlotIsNext DEF NextRouteKey, LatestRouteKey
    <2>2. /\ new \in [1 .. (k + 1) -> Route] /\ new[k + 1] = route
          /\ \A s \in 1 .. k : new[s] = r[s]
      BY <2>1 DEF MergeNodeRoutes
    <2> QED
      BY <1>3, <2>1, <2>2 DEF Contiguous, Conflicts
  <1> QED
    BY <1>1, <1>2, <1>3

(* RoutesInv holds initially.                                              *)
LEMMA RoutesInit == HistoryInit => RoutesInv
  BY RouteAssumption DEF HistoryInit, RoutesInv, Contiguous

(* RoutesInv is inductive, and no commit disturbs the history.             *)
LEMMA RoutesStep ==
  ASSUME RoutesInv, [HistoryNext]_historyVars
  PROVE  /\ RoutesInv'
         /\ \A n \in Node : \A s \in DOMAIN routes[n] :
              s \in DOMAIN routes'[n] /\ routes'[n][s] = routes[n][s]
  <1>1. CASE UNCHANGED historyVars
    BY <1>1 DEF historyVars, RoutesInv
  <1>2. ASSUME NEW n \in Node, NEW route \in Route, CommitRoute(n, route)
        PROVE  /\ RoutesInv'
               /\ \A m \in Node : \A s \in DOMAIN routes[m] :
                    s \in DOMAIN routes'[m] /\ routes'[m][s] = routes[m][s]
    <2> DEFINE slot == NextRouteKey(routes[n], route)
               new == MergeNodeRoutes(routes[n], slot, route)
    <2>1. /\ ~Conflicts(routes[n], slot, route)
          /\ Contiguous(new, route)
          /\ \A s \in DOMAIN routes[n] : s \in DOMAIN new /\ new[s] = routes[n][s]
      BY <1>2, CommitExtends DEF RoutesInv, CommitRoute
    <2>2. /\ routes' = [routes EXCEPT ![n] = new]
          /\ last' = [last EXCEPT ![n] = route]
          /\ raised' = raised
      BY <1>2, <2>1 DEF CommitRoute
    <2> HIDE DEF slot, new
    <2>3. \A m \in Node :
            IF m = n THEN routes'[m] = new /\ last'[m] = route
                     ELSE routes'[m] = routes[m] /\ last'[m] = last[m]
      BY <2>2 DEF RoutesInv
    <2>4. routes' = [m \in Node |-> routes'[m]] /\ last' = [m \in Node |-> last'[m]]
      BY <2>2 DEF RoutesInv
    <2> QED
      BY <2>1, <2>2, <2>3, <2>4 DEF RoutesInv
  <1> QED
    BY <1>1, <1>2 DEF HistoryNext

-----------------------------------------------------------------------------
(* route_for returns the route the node returned when it last ran.         *)
THEOREM EdgesFollowLastRoute == HistorySpec => []RouteForIsLast
  <1>1. RoutesInv => RouteForIsLast
    BY FreeSlotIsNext, RouteAssumption
       DEF RoutesInv, Contiguous, RouteForIsLast, RouteFor, LatestRouteKey
  <1> QED
    BY <1>1, RoutesInit, RoutesStep, PTL DEF HistorySpec

(* merge_node_routes never raises.                                         *)
THEOREM MergeNeverRaises == HistorySpec => []NeverConflicts
  <1>1. RoutesInv => NeverConflicts
    BY DEF RoutesInv, NeverConflicts
  <1> QED
    BY <1>1, RoutesInit, RoutesStep, PTL DEF HistorySpec

(* A recorded route is never rewritten or lost.                            *)
THEOREM RoutesOnlyGrow == HistorySpec => HistoryKept
  BY RoutesInit, RoutesStep, PTL DEF HistorySpec, HistoryKept
=============================================================================
