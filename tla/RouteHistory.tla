---------------------------- MODULE RouteHistory ----------------------------
(***************************************************************************)
(* The routes one node has returned in a case, as node_routes keeps them:  *)
(* a function from slot numbers to routes.  Slot 1 is the plain key        *)
(* "S06.90", slot n > 1 the key "S06.90#n".                                *)
(***************************************************************************)
EXTENDS Naturals

CONSTANT Continue   \* NodeRoute.CONTINUE

(* The first free "#n": 2, or one more than a taken slot.                  *)
FreeSlot(r) ==
    CHOOSE n \in {2} \cup {m + 1 : m \in DOMAIN r} :
        n \notin DOMAIN r /\ \A m \in 2 .. n - 1 : m \in DOMAIN r

(* The end of the walk "", "#2", "#3", ... from the plain key.             *)
LatestRouteKey(r) == FreeSlot(r) - 1

(* Mutant: every visit writes the plain key.                               *)
NextRouteKey_Plain(r, route) == 1

(* A first visit takes the plain key, a repeated route keeps its slot, a   *)
(* new route takes the first free one.                                     *)
NextRouteKey(r, route) ==
    IF 1 \notin DOMAIN r THEN 1
    ELSE IF r[LatestRouteKey(r)] = route THEN LatestRouteKey(r)
    ELSE FreeSlot(r)

(* merge_node_routes raises on two values for one key.                     *)
Conflicts(r, slot, route) == slot \in DOMAIN r /\ r[slot] # route

(* Mutant: the reducer keeps only what the last writer returned.           *)
MergeNodeRoutes_LastValue(r, slot, route) == [n \in {slot} |-> route]

MergeNodeRoutes(r, slot, route) ==
    [n \in DOMAIN r \cup {slot} |-> IF n = slot THEN route ELSE r[n]]

(* Mutant: the plain key only.                                             *)
RouteFor_Plain(r) == IF 1 \in DOMAIN r THEN r[1] ELSE Continue

(* route_for: continue if the node has no plain key.                       *)
RouteFor(r) == IF 1 \in DOMAIN r THEN r[LatestRouteKey(r)] ELSE Continue
=============================================================================
