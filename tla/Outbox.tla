-------------------------------- MODULE Outbox --------------------------------
(***************************************************************************)
(* The hand-off between lanes: PostgresOutboxAdapter holds the events,     *)
(* PostgresCaseRepository the index of cases, and the dispatchers, which   *)
(* are not part of the repository, poll the one and start cases in the     *)
(* other.  claim() selects FOR UPDATE SKIP LOCKED in a transaction of its  *)
(* own, so its locks end when it returns and not when the event is marked: *)
(* two dispatchers may hold one event.                                     *)
(***************************************************************************)
EXTENDS Integers, FiniteSets

CONSTANTS Event, Dispatcher,
          AvailableAt,   \* [Event -> Nat], the available_at of its record
          Limit,         \* the limit the dispatchers claim with
          MaxTime,       \* bound on the clock; every event is available by then
          MaxAttempts,   \* bound: how often handling one event fails
          MaxCrashes     \* bound: how often a dispatcher dies

ASSUME ScheduleAssumption ==
    /\ MaxTime \in Nat
    /\ AvailableAt \in [Event -> 0..MaxTime]
ASSUME LimitAssumption == Limit \in Nat \ {0}
ASSUME FaultAssumption == MaxAttempts \in Nat /\ MaxCrashes \in Nat

VARIABLES now,
          outbox,     \* [Event -> [published, delivered, attempts]]
          locked,     \* [Dispatcher -> rows its open claim() has locked]
          batch,      \* [Dispatcher -> events claim() returned, not yet marked]
          handled,    \* [Dispatcher -> events of its batch whose case exists]
          cases,      \* [Event -> the row of the case it starts]
          starts,     \* history: how often create() accepted the event's case
          crashes

vars == <<now, outbox, locked, batch, handled, cases, starts, crashes>>

Row == [published : BOOLEAN, delivered : BOOLEAN, attempts : Nat]
Status == {"absent", "created", "running", "completed", "failed"}
Case == [status : Status, cancelled : BOOLEAN]

Init ==
    /\ now = 0
    /\ outbox = [e \in Event |->
                   [published |-> FALSE, delivered |-> FALSE, attempts |-> 0]]
    /\ locked = [d \in Dispatcher |-> {}]
    /\ batch = [d \in Dispatcher |-> {}]
    /\ handled = [d \in Dispatcher |-> {}]
    /\ cases = [e \in Event |-> [status |-> "absent", cancelled |-> FALSE]]
    /\ starts = [e \in Event |-> 0]
    /\ crashes = 0

Unlocked(e) == \A d \in Dispatcher : e \notin locked[d]

-----------------------------------------------------------------------------
(* the outbox *)

(* publish: the first call inserts the row; a repeated one, by a publisher *)
(* that never saw its acknowledgement, leaves the row as it is.            *)
Publish(e) ==
    /\ outbox' = [outbox EXCEPT ![e] =
                    IF @.published THEN @
                    ELSE [published |-> TRUE, delivered |-> FALSE, attempts |-> 0]]
    /\ UNCHANGED <<now, locked, batch, handled, cases, starts, crashes>>

(* Mutant: a failed event is not offered again. *)
Claimable_FirstTry(e) ==
    /\ outbox[e].published /\ ~outbox[e].delivered /\ outbox[e].attempts = 0
    /\ AvailableAt[e] <= now

(* The WHERE clause of claim(). *)
Claimable(e) ==
    /\ outbox[e].published /\ ~outbox[e].delivered
    /\ AvailableAt[e] <= now

(* ORDER BY available_at LIMIT, over the rows nobody has locked. *)
Selections ==
    LET open == {e \in Event : Claimable(e) /\ Unlocked(e)}
    IN  {s \in SUBSET open :
           /\ s # {}
           /\ Cardinality(s) <= Limit
           /\ Cardinality(s) = Limit \/ s = open
           /\ \A e \in s, f \in open \ s : AvailableAt[e] <= AvailableAt[f]}

Claim(d) ==
    /\ locked[d] = {} /\ batch[d] = {}
    /\ \E s \in Selections : locked' = [locked EXCEPT ![d] = s]
    /\ UNCHANGED <<now, outbox, batch, handled, cases, starts, crashes>>

(* claim() leaves its connection block: the transaction ends and the rows *)
(* it locked are free again.                                              *)
ClaimReturns(d) ==
    /\ locked[d] # {}
    /\ batch' = [batch EXCEPT ![d] = locked[d]]
    /\ locked' = [locked EXCEPT ![d] = {}]
    /\ UNCHANGED <<now, outbox, handled, cases, starts, crashes>>

(* mark_delivered updates the row, whatever it says by now; an UPDATE waits *)
(* for a row lock.                                                          *)
MarkDelivered(d, e) ==
    /\ e \in handled[d] /\ Unlocked(e)
    /\ outbox' = [outbox EXCEPT ![e].delivered = TRUE]
    /\ batch' = [batch EXCEPT ![d] = @ \ {e}]
    /\ handled' = [handled EXCEPT ![d] = @ \ {e}]
    /\ UNCHANGED <<now, locked, cases, starts, crashes>>

(* mark_failed, after handling the event went wrong: one attempt more, and  *)
(* neither delivered_at nor available_at changes.                           *)
MarkFailed(d, e) ==
    /\ e \in batch[d] \ handled[d] /\ Unlocked(e)
    /\ outbox[e].attempts < MaxAttempts
    /\ outbox' = [outbox EXCEPT ![e].attempts = @ + 1]
    /\ batch' = [batch EXCEPT ![d] = @ \ {e}]
    /\ UNCHANGED <<now, locked, handled, cases, starts, crashes>>

-----------------------------------------------------------------------------
(* the case repository *)

(* Mutant: the INSERT overwrites an existing row. *)
Accepts_Upsert(e) == TRUE

(* create() raises on the unique violation of an existing row. *)
Accepts(e) == cases[e].status = "absent"

(* The dispatcher creates the case the event names.  A ValueError tells it *)
(* that the case is there already; either way the event has been handled.  *)
Create(d, e) ==
    /\ e \in batch[d] \ handled[d]
    /\ IF Accepts(e)
         THEN /\ cases' = [cases EXCEPT ![e] = [status |-> "created", cancelled |-> FALSE]]
              /\ starts' = [starts EXCEPT ![e] = @ + 1]
         ELSE UNCHANGED <<cases, starts>>
    /\ handled' = [handled EXCEPT ![d] = @ \cup {e}]
    /\ UNCHANGED <<now, outbox, locked, batch, crashes>>

(* set_status overwrites the status of a row and raises if there is none. *)
SetStatus(e, status) ==
    /\ cases[e].status # "absent"
    /\ cases' = [cases EXCEPT ![e].status = status]
    /\ UNCHANGED <<now, outbox, locked, batch, handled, starts, crashes>>

(* request_cancellation keeps the first timestamp, never touches status,    *)
(* and says nothing when there is no such case.                             *)
RequestCancellation(e) ==
    /\ cases' = [cases EXCEPT ![e].cancelled = (@ \/ cases[e].status # "absent")]
    /\ UNCHANGED <<now, outbox, locked, batch, handled, starts, crashes>>

-----------------------------------------------------------------------------
(* A dispatcher dies: the database ends its transaction, its batch is gone. *)
Crash(d) ==
    /\ crashes < MaxCrashes
    /\ locked[d] \cup batch[d] # {}
    /\ crashes' = crashes + 1
    /\ locked' = [locked EXCEPT ![d] = {}]
    /\ batch' = [batch EXCEPT ![d] = {}]
    /\ handled' = [handled EXCEPT ![d] = {}]
    /\ UNCHANGED <<now, outbox, cases, starts>>

Tick ==
    /\ now < MaxTime
    /\ now' = now + 1
    /\ UNCHANGED <<outbox, locked, batch, handled, cases, starts, crashes>>

Step(d) ==
    \/ Claim(d) \/ ClaimReturns(d)
    \/ \E e \in Event : Create(d, e) \/ MarkDelivered(d, e)

Next ==
    \/ Tick
    \/ \E d \in Dispatcher : Step(d) \/ Crash(d)
    \/ \E d \in Dispatcher, e \in Event : MarkFailed(d, e)
    \/ \E e \in Event :
         \/ Publish(e) \/ RequestCancellation(e)
         \/ \E s \in Status \ {"absent", "created"} : SetStatus(e, s)

(* Time passes and a dispatcher that can go on does: they are polling loops. *)
Fairness == WF_vars(Tick) /\ \A d \in Dispatcher : WF_vars(Step(d))

Spec == Init /\ [][Next]_vars /\ Fairness

-----------------------------------------------------------------------------
(* However many dispatchers hold one event, and whenever they die between   *)
(* creating its case and marking it, its case is started at most once, and  *)
(* an event marked delivered has had its case started.                      *)
HandoffStartsOnce ==
    \A e \in Event :
        /\ starts[e] <= 1
        /\ outbox[e].delivered => starts[e] = 1

(* At least once: a published event is delivered in the end, although claims *)
(* die with their dispatcher and handling it fails: claim() offers it again. *)
EventuallyDelivered ==
    \A e \in Event : outbox[e].published ~> outbox[e].delivered
=============================================================================
