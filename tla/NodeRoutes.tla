----------------------------- MODULE NodeRoutes -----------------------------
(***************************************************************************)
(* The node_routes channel: the history of routes each node has returned   *)
(* in a case, written by NodeRuntime._commit, merged by merge_node_routes  *)
(* and read by route_for, which every conditional edge of the graphs uses. *)
(***************************************************************************)
EXTENDS RouteHistory

CONSTANTS
    Node,       \* node ids
    Route,      \* NodeRoute values
    NoRoute,    \* the node has not been committed yet
    MaxSlots    \* bound on the routes recorded for one node

ASSUME RouteAssumption ==
    /\ Continue \in Route
    /\ NoRoute \notin Route
    /\ MaxSlots \in Nat

-----------------------------------------------------------------------------
VARIABLES
    routes,     \* node_routes, per node
    last,       \* the route each node returned when it last ran
    raised      \* merge_node_routes has raised

historyVars == <<routes, last, raised>>

HistoryInit ==
    /\ routes = [n \in Node |-> [s \in {} |-> Continue]]
    /\ last = [n \in Node |-> NoRoute]
    /\ raised = FALSE

(* _commit, then the reducer.                                              *)
CommitRoute(n, route) ==
    LET slot == NextRouteKey(routes[n], route) IN
    /\ ~raised
    /\ slot <= MaxSlots
    /\ IF Conflicts(routes[n], slot, route)
         THEN raised' = TRUE /\ UNCHANGED <<routes, last>>
         ELSE /\ routes' = [routes EXCEPT ![n] = MergeNodeRoutes(@, slot, route)]
              /\ last' = [last EXCEPT ![n] = route]
              /\ UNCHANGED raised

HistoryNext == \E n \in Node, route \in Route : CommitRoute(n, route)

HistorySpec == HistoryInit /\ [][HistoryNext]_historyVars

-----------------------------------------------------------------------------
(* The edge out of a node is chosen by the route the node returned last,   *)
(* however often loops have revisited it and whatever it returned before.  *)
RouteForIsLast ==
    \A n \in Node : last[n] # NoRoute => RouteFor(routes[n]) = last[n]

(* No revisit makes the conflict-detecting reducer raise.                  *)
NeverConflicts == ~raised

(* A recorded route is never rewritten: the history only grows.            *)
HistoryKept ==
    [][\A n \in Node : \A s \in DOMAIN routes[n] :
           s \in DOMAIN routes'[n] /\ routes'[n][s] = routes[n][s]]_historyVars
=============================================================================
