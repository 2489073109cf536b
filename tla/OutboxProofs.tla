----------------------------- MODULE OutboxProofs -----------------------------
(***************************************************************************)
(* For any events, dispatchers, schedule and number of faults, a hand-off  *)
(* starts its case at most once.                                           *)
(***************************************************************************)
EXTENDS Outbox, TLAPS

TypeOK ==
    /\ outbox \in [Event -> Row]
    /\ handled \in [Dispatcher -> SUBSET Event]
    /\ cases \in [Event -> Case]
    /\ starts \in [Event -> Nat]

Exists(e) == cases[e].status # "absent"

(* The row of a case is what tells create() that it has run: it counts the  *)
(* starts, and every dispatcher and every delivered event relies on it.     *)
IInv ==
    /\ TypeOK
    /\ \A e \in Event : starts[e] = IF Exists(e) THEN 1 ELSE 0
    /\ \A d \in Dispatcher : \A e \in handled[d] : Exists(e)
    /\ \A e \in Event : outbox[e].delivered => Exists(e)

(* The row invariant holds of the empty outbox and case index. *)
LEMMA InitIInv == Init => IInv
<1> SUFFICES ASSUME Init PROVE IInv
    OBVIOUS
<1>1. TypeOK
    BY DEF Init, TypeOK, Row, Case, Status
<1>2. \A e \in Event : ~Exists(e) /\ starts[e] = 0 /\ ~outbox[e].delivered
    BY DEF Init, Exists
<1>3. \A d \in Dispatcher : handled[d] = {}
    BY DEF Init
<1> QED
    BY <1>1, <1>2, <1>3 DEF IInv

(* Every operation of the outbox, the case repository and a dispatcher keeps *)
(* the row invariant.                                                        *)
LEMMA NextIInv == IInv /\ [Next]_vars => IInv'
<1> SUFFICES ASSUME IInv, [Next]_vars PROVE IInv'
    OBVIOUS
<1> USE DEF IInv, TypeOK, Exists
<1>1. ASSUME UNCHANGED <<outbox, handled, cases, starts>> PROVE IInv'
    BY <1>1
<1>2. ASSUME NEW e \in Event, Publish(e) PROVE IInv'
    <2>1. /\ outbox' = [outbox EXCEPT ![e] = IF @.published THEN @
                ELSE [published |-> TRUE, delivered |-> FALSE, attempts |-> 0]]
          /\ UNCHANGED <<handled, cases, starts>>
        BY <1>2 DEF Publish
    <2>2. outbox' \in [Event -> Row]
        BY <2>1 DEF Row
    <2>3. \A f \in Event : outbox'[f].delivered => outbox[f].delivered
        BY <2>1
    <2> QED
        BY <2>1, <2>2, <2>3
<1>3. ASSUME NEW d \in Dispatcher, NEW e \in Event, MarkDelivered(d, e) PROVE IInv'
    <2>1. /\ e \in handled[d]
          /\ outbox' = [outbox EXCEPT ![e].delivered = TRUE]
          /\ handled' = [handled EXCEPT ![d] = @ \ {e}]
          /\ UNCHANGED <<cases, starts>>
        BY <1>3 DEF MarkDelivered
    <2>2. outbox' \in [Event -> Row]
        BY <2>1 DEF Row
    <2>3. \A f \in Event : outbox'[f].delivered => f = e \/ outbox[f].delivered
        BY <2>1
    <2>4. \A c \in Dispatcher : handled'[c] \subseteq handled[c]
        BY <2>1
    <2>5. handled' \in [Dispatcher -> SUBSET Event]
        BY <2>1
    <2> QED
        BY <2>1, <2>2, <2>3, <2>4, <2>5
<1>4. ASSUME NEW d \in Dispatcher, NEW e \in Event, MarkFailed(d, e) PROVE IInv'
    <2>1. /\ outbox' = [outbox EXCEPT ![e].attempts = @ + 1]
          /\ UNCHANGED <<handled, cases, starts>>
        BY <1>4 DEF MarkFailed
    <2>2. outbox' \in [Event -> Row]
        BY <2>1 DEF Row
    <2>3. \A f \in Event : outbox'[f].delivered => outbox[f].delivered
        BY <2>1 DEF Row
    <2> QED
        BY <2>1, <2>2, <2>3
<1>5. ASSUME NEW d \in Dispatcher, NEW e \in Event, Create(d, e) PROVE IInv'
    <2>1. /\ handled' = [handled EXCEPT ![d] = @ \cup {e}]
          /\ outbox' = outbox
        BY <1>5 DEF Create
    <2>2. CASE Accepts(e)
        <3>1. /\ cases' = [cases EXCEPT ![e] = [status |-> "created", cancelled |-> FALSE]]
              /\ starts' = [starts EXCEPT ![e] = @ + 1]
            BY <1>5, <2>2 DEF Create
        <3>2. starts[e] = 0
            BY <2>2 DEF Accepts
        <3>3. cases' \in [Event -> Case] /\ starts' \in [Event -> Nat]
            BY <3>1 DEF Case, Status
        <3>4. cases'[e].status = "created" /\ starts'[e] = 1
            BY <3>1, <3>2
        <3>5. \A f \in Event \ {e} : cases'[f] = cases[f] /\ starts'[f] = starts[f]
            BY <3>1
        <3> QED
            BY <2>1, <3>3, <3>4, <3>5
    <2>3. CASE ~Accepts(e)
        BY <1>5, <2>1, <2>3 DEF Create, Accepts
    <2> QED
        BY <2>2, <2>3
<1>6. ASSUME NEW e \in Event, NEW s \in Status \ {"absent", "created"}, SetStatus(e, s)
      PROVE  IInv'
    <2>1. /\ cases[e].status # "absent"
          /\ cases' = [cases EXCEPT ![e].status = s]
          /\ UNCHANGED <<outbox, handled, starts>>
        BY <1>6 DEF SetStatus
    <2>2. cases' \in [Event -> Case]
        BY <2>1 DEF Case
    <2>3. \A f \in Event : cases'[f].status # "absent" <=> cases[f].status # "absent"
        BY <2>1 DEF Case
    <2> QED
        BY <2>1, <2>2, <2>3
<1>7. ASSUME NEW e \in Event, RequestCancellation(e) PROVE IInv'
    <2>1. /\ cases' = [cases EXCEPT ![e].cancelled = (@ \/ cases[e].status # "absent")]
          /\ UNCHANGED <<outbox, handled, starts>>
        BY <1>7 DEF RequestCancellation
    <2>2. cases' \in [Event -> Case]
        BY <2>1 DEF Case
    <2>3. \A f \in Event : cases'[f].status = cases[f].status
        BY <2>1 DEF Case
    <2> QED
        BY <2>1, <2>2, <2>3
<1>8. ASSUME NEW d \in Dispatcher, Crash(d) PROVE IInv'
    <2>1. /\ handled' = [handled EXCEPT ![d] = {}]
          /\ UNCHANGED <<outbox, cases, starts>>
        BY <1>8 DEF Crash
    <2> QED
        BY <2>1
<1>9. ASSUME Next PROVE IInv'
    BY <1>9, <1>1, <1>2, <1>3, <1>4, <1>5, <1>6, <1>7, <1>8
       DEF Next, Step, Tick, Claim, ClaimReturns
<1> QED
    BY <1>1, <1>9 DEF vars

(* Whatever the number of events and dispatchers, the claims they share and *)
(* the crashes: no case is created twice, and no event is marked delivered  *)
(* before its case was created.                                             *)
THEOREM OutboxStartsOnce == Spec => []HandoffStartsOnce
<1>1. IInv => HandoffStartsOnce
    BY DEF IInv, TypeOK, Exists, HandoffStartsOnce
<1> QED
    BY <1>1, InitIInv, NextIInv, PTL DEF Spec
=============================================================================
