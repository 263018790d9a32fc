--------------------------- MODULE RouteDirectory ---------------------------
(***************************************************************************)
(* The in-memory route directory (routes/routes.go): what each operation   *)
(* does to its maps under its one lock.  A directory is a record:          *)
(*   items     the concrete routes by alias, NoRoute where there is none   *)
(*   endpoint  the compiled endpoint: whether it is present, and its routes*)
(*   blocked   the endpoint's alias was withdrawn                          *)
(*   retired   the withdrawn routes, one per route identity                *)
(*   health    the decay state of each binding of the weighted endpoint    *)
(*                                                                         *)
(* One tenant and one endpoint are modelled, bound to deployments.  The    *)
(* endpoint's alias may be the name of a deployment, as it is after        *)
(* PublishDeploymentEndpoint with the default name.  The in-flight counts  *)
(* of the code are the numbers of requests that hold a route.              *)
(***************************************************************************)
EXTENDS Overflow, FiniteSets

CONSTANTS
  Deployments,    \* deployments; a deployment's concrete route has its name as alias
  EndpointAlias,  \* the alias of the endpoint
  Generations,    \* router process numbers
  NoRoute

Aliases == Deployments \union {EndpointAlias}

\* "router": a router process of the deployment; "direct": a serverless target,
\* whose snapshot may say that no worker is up; "external": the fallback.
Kinds == {"router", "direct", "external"}
Route == [dep: Deployments, kind: Kinds, gen: Generations \union {0},
          alias: Aliases, cold: BOOLEAN]

\* routeID: the alias and the capacity evidence are not part of the identity.
routeID(r) == <<r.dep, r.kind, r.gen>>
IDs(routes) == {routeID(r) : r \in routes}

Directory == [items: [Aliases -> Route \union {NoRoute}],
              endpoint: [present: BOOLEAN, routes: SUBSET Route],
              blocked: BOOLEAN, retired: SUBSET Route, health: [Deployments -> OverflowState]]

NoEndpoint == [present |-> FALSE, routes |-> {}]

EmptyDirectory ==
  [items |-> [a \in Aliases |-> NoRoute], endpoint |-> NoEndpoint, blocked |-> FALSE,
   retired |-> {}, health |-> [d \in Deployments |-> NoOverflow]]

Concrete(dir) == {dir.items[a] : a \in Aliases} \ {NoRoute}
Published(dir) == Concrete(dir) \union dir.endpoint.routes

\* retired is a map by identity, and only the identity of a retired route is
\* ever looked at.
Identity(r) == [r EXCEPT !.alias = r.dep, !.cold = FALSE]
Retire(dir, routes) == [dir EXCEPT !.retired = @ \union {Identity(r) : r \in routes}]

\* Put: the previous route of the alias is retired when its identity differs.
PutRoute(dir, r) ==
  LET old == dir.items[r.alias]
      kept == IF old # NoRoute /\ routeID(old) # routeID(r) THEN Retire(dir, {old}) ELSE dir
  IN [kept EXCEPT !.items[r.alias] = r]

\* Mutant: the withdrawn route is forgotten.
MutRemoveForgetting(dir, a) == [dir EXCEPT !.items[a] = NoRoute]

RemoveForTenant(dir, a) ==
  LET kept == IF dir.items[a] # NoRoute THEN Retire(dir, {dir.items[a]}) ELSE dir
  IN [kept EXCEPT !.items[a] = NoRoute]

\* Mutant: the routes of deleted deployments stay.
MutWithdrawnNever(dir, aliases) == dir

\* RemoveForTenant of several aliases, one after the other.
Withdrawn(dir, aliases) ==
  [Retire(dir, {dir.items[a] : a \in aliases} \ {NoRoute}) EXCEPT
     !.items = [a \in Aliases |-> IF a \in aliases THEN NoRoute ELSE @[a]]]

\* applyHealthDecayLocked: every planned binding is observed once, and a
\* binding that was missing twice comes back after two publications with it.
Decayed(dir, planned, routes) ==
  [d \in Deployments |->
     IF d \notin planned THEN dir.health[d]
     ELSE LET p == [mode |-> "health", breach |-> 2, recovery |-> 2, budget |-> TRUE]
              present == \E r \in routes : r.dep = d
              sig == [healthy |-> present, queue |-> "missing"]
          IN [Remembered(dir.health[d], Evaluate(p, dir.health[d], sig)) EXCEPT !.cooling = FALSE]]

\* PublishEndpoint of a serving plan's compiled routes.
PublishEndpoint(dir, plan, routes) ==
  LET health == IF plan.weighted THEN Decayed(dir, plan.bindings, routes) ELSE dir.health
      effective == IF plan.weighted THEN {r \in routes : ~health[r.dep].external} ELSE routes
      gone == {r \in dir.endpoint.routes : routeID(r) \notin IDs(effective)}
  IN [Retire(dir, gone) EXCEPT !.endpoint = [present |-> TRUE, routes |-> effective],
                               !.blocked = FALSE, !.health = health]

RemoveEndpoint(dir) ==
  [Retire(dir, dir.endpoint.routes) EXCEPT !.endpoint = NoEndpoint, !.blocked = TRUE,
     !.health = [d \in Deployments |-> NoOverflow]]

\* selectLocked and the preference of AcquirePreferredForTenant: which routes a
\* request for an alias may get.  Weights and affinity hints choose among the
\* routes of the endpoint.
Selectable(dir, a) ==
  CASE a = EndpointAlias /\ dir.endpoint.routes # {} /\ ~dir.blocked -> dir.endpoint.routes
    [] a = EndpointAlias /\ dir.blocked -> {}
    [] OTHER -> {dir.items[a]} \ {NoRoute}

\* GetForTenant: whether the alias resolves to anything.
Resolvable(dir, a) == Selectable(dir, a) # {}

\* GetDeployment ranges over a map: any concrete route of the deployment.
GetDeployment(dir, d) == {r \in Concrete(dir) : r.dep = d}

HasCurrentDeployment(dir, d) == GetDeployment(dir, d) # {}

\* The withdrawn routes of a deployment that requests still hold.
RetiringInFlight(dir, d, pinned) ==
  {r \in dir.retired : r.dep = d /\ routeID(r) \in pinned}

\* Mutant: requests in flight are not counted.
MutRetiredReadyUnpinned(dir, pinned) == {r \in dir.retired : routeID(r) \notin IDs(Published(dir))}

RetiredReady(dir, pinned) ==
  {r \in dir.retired : routeID(r) \notin IDs(Published(dir)) /\ routeID(r) \notin pinned}

ForgetRetired(dir, r) == [dir EXCEPT !.retired = @ \ {Identity(r)}]
=============================================================================
