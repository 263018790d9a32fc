---------------------------- MODULE RouteServing ----------------------------
(***************************************************************************)
(* The route directory in use: the reconciler that publishes concrete      *)
(* routes and compiles endpoints (reconcile/reconcile.go), the endpoint    *)
(* refresh that an API mutation runs beside it, the requests that pin a    *)
(* route (gateway/gateway.go), and the delete workflow that waits for the  *)
(* directory before it deletes capacity (workflows/cloud.go).              *)
(*                                                                         *)
(* The directory locks each operation, not sequences of them: a pass of    *)
(* the reconciler, a refresh, a request and a delete interleave between    *)
(* any two of its operations.                                              *)
(***************************************************************************)
EXTENDS RouteDirectory

CONSTANTS
  Requests,       \* request slots
  Plans,          \* serving plans an operator may activate
  Fleets,         \* what the targets of a deployment may turn out to be
  FirstFleets,    \* what they may be at the start
  Deletable,      \* deployments an operator may delete
  MaxEvents       \* bound on plan activations, deletions, failures and changes of targets

\* A fleet is no healthy target, a healthy external fallback only, one healthy
\* serverless target, or a worker set behind a router.
FleetKinds == {"none", "external", "direct", "a", "b"}

ASSUME RouteServingConstants ==
  /\ NoRoute \notin Route
  /\ Generations \subseteq Nat \ {0}
  /\ Plans \subseteq [weighted: BOOLEAN, bindings: SUBSET Deployments]
  /\ Fleets \subseteq FleetKinds
  /\ FirstFleets \subseteq [Deployments -> Fleets]
  /\ Deletable \subseteq Deployments
  /\ MaxEvents \in Nat

VARIABLES
  directory,
  desired,     \* deployments.desired_state
  plan,        \* the active serving plan of the endpoint
  fleet,       \* what inspecting the deployment's targets would find
  generation,  \* the recorded router generation: its number and its worker set
  routers,     \* the running router processes
  capacity,    \* deployments whose provider capacity exists
  pass,        \* the reconciler's pass
  refresh,     \* the API thread's endpoint refresh
  request,     \* the requests
  cleanup,     \* the attempts of the delete workflow
  events       \* how many times the environment has interfered

routeVars == <<directory, desired, plan, fleet, generation, routers, capacity, pass, refresh,
               request, cleanup, events>>

NoPlan == [weighted |-> FALSE, bindings |-> {}]
Idle == [pc |-> "idle", seen |-> {}, todo |-> {}, reaping |-> {}, plan |-> NoPlan, compiled |-> {}]
NoRequest == [route |-> NoRoute, current |-> FALSE]

Generation == [number: Generations \union {0}, workers: Fleets]
Runs == [pc: {"idle", "reap", "deploy", "compile", "publish"}, seen: SUBSET Deployments,
         todo: SUBSET Deployments, reaping: SUBSET Route, plan: Plans \union {NoPlan},
         compiled: SUBSET Route]
RequestState == [route: Route \union {NoRoute}, current: BOOLEAN]

\* How many checks of its fence an attempt has passed, and which requests have
\* acquired a route of its deployment since the first.
DeleteAttempts == [passed: 0..2, late: SUBSET Requests]
NoAttempt == [passed |-> 0, late |-> {}]

RouteTypeOK ==
  /\ directory \in Directory
  /\ desired \in [Deployments -> {"running", "deleted"}]
  /\ plan \in Plans
  /\ fleet \in [Deployments -> Fleets]
  /\ generation \in [Deployments -> Generation]
  /\ routers \subseteq Deployments \X Generations
  /\ capacity \subseteq Deployments
  /\ pass \in Runs /\ pass.pc # "compile"
  /\ refresh \in Runs /\ refresh.pc \in {"idle", "compile", "publish"}
  /\ request \in [Requests -> RequestState]
  /\ cleanup \in [Deployments -> DeleteAttempts]
  /\ events \in 0..MaxEvents

RouteInit ==
  /\ directory = EmptyDirectory
  /\ desired = [d \in Deployments |-> "running"]
  /\ plan \in Plans
  /\ fleet \in FirstFleets
  /\ generation = [d \in Deployments |-> [number |-> 0, workers |-> fleet[d]]]
  /\ routers = {}
  /\ capacity = Deployments
  /\ pass = Idle
  /\ refresh = Idle
  /\ request = [q \in Requests |-> NoRequest]
  /\ cleanup = [d \in Deployments |-> NoAttempt]
  /\ events = 0

EventAllowed == events < MaxEvents /\ events' = events + 1

Pinned == {routeID(request[q].route) : q \in {x \in Requests : request[x].route # NoRoute}}

(***************************************************************************)
(* Reconciler.Once.                                                        *)
(***************************************************************************)

\* reapRetiredRoutes asks once which withdrawn routes are idle ...
ReapBegin ==
  /\ pass.pc = "idle"
  /\ pass' = [Idle EXCEPT !.pc = "reap", !.reaping = RetiredReady(directory, Pinned)]
  /\ UNCHANGED <<directory, desired, plan, fleet, generation, routers, capacity, refresh,
                 request, cleanup, events>>

Stopped(r) == IF r.kind = "router" THEN routers \ {<<r.dep, r.gen>>} ELSE routers

\* ... and then stops and forgets them one by one.
Reap ==
  /\ pass.pc = "reap"
  /\ \E r \in pass.reaping :
       /\ routers' = Stopped(r)
       /\ directory' = ForgetRetired(directory, r)
       /\ pass' = [pass EXCEPT !.reaping = @ \ {r}]
  /\ UNCHANGED <<desired, plan, fleet, generation, capacity, refresh, request, cleanup, events>>

\* The deployments are read once for the whole pass.  The concrete routes of
\* deployments that are not to run, and of aliases that are not a deployment's,
\* are withdrawn.
ReadDeployments ==
  LET running == {d \in Deployments : desired[d] = "running"} IN
  /\ pass.pc = "reap"
  /\ pass.reaping = {}
  /\ directory' = Withdrawn(directory, Aliases \ running)
  /\ pass' = [pass EXCEPT !.pc = "deploy", !.seen = running, !.todo = running]
  /\ UNCHANGED <<desired, plan, fleet, generation, routers, capacity, refresh, request, cleanup, events>>

Snapshot(d, kind, gen, cold) == [dep |-> d, kind |-> kind, gen |-> gen, alias |-> d, cold |-> cold]

\* Process numbers grow without bound; a number nothing refers to any more is
\* as good as a new one.  Generations bounds how many are referred to at once.
InUse(d) ==
  {r.gen : r \in {x \in Published(directory) \union directory.retired \union pass.compiled
                        \union refresh.compiled : x.dep = d}}
    \union {request[q].route.gen : q \in {x \in Requests : request[x].route # NoRoute}}
    \union {generation[d].number}
    \union {p[2] : p \in {x \in routers : x[1] = d}}
NextGeneration(d) == CHOOSE g \in Generations : g \notin InUse(d)

\* Mutant: a recorded generation is taken to be running.
MutNeedsRouterByRecord(d) == generation[d].number = 0 \/ generation[d].workers # fleet[d]

NeedsRouter(d) ==
  \/ generation[d].number = 0
  \/ generation[d].workers # fleet[d]
  \/ <<d, generation[d].number>> \notin routers

\* A new router is started and recorded before its route is published.
StartRouter(d) ==
  LET g == NextGeneration(d) IN
  /\ NeedsRouter(d)
  /\ Generations \ InUse(d) # {}
  /\ routers' = routers \union {<<d, g>>}
  /\ generation' = [generation EXCEPT ![d] = [number |-> g, workers |-> fleet[d]]]
  /\ directory' = PutRoute(directory, Snapshot(d, "router", g, FALSE))

\* An unchanged, running generation is published only if the alias resolves
\* to nothing.
KeepRouter(d) ==
  /\ ~NeedsRouter(d)
  /\ directory' = IF Resolvable(directory, d) THEN directory
                  ELSE PutRoute(directory, Snapshot(d, "router", generation[d].number, FALSE))
  /\ UNCHANGED <<routers, generation>>

\* One deployment of the pass, from the inspection of its targets to the route.
ReconcileDeployment(d) ==
  /\ pass.pc = "deploy"
  /\ d \in pass.todo
  /\ pass' = [pass EXCEPT !.todo = @ \ {d}]
  /\ \/ /\ fleet[d] \in {"a", "b"}
        /\ StartRouter(d) \/ KeepRouter(d)
     \/ /\ fleet[d] = "none"
        /\ directory' = RemoveForTenant(directory, d)
        /\ UNCHANGED <<routers, generation>>
     \/ /\ fleet[d] = "external"
        /\ directory' = PutRoute(directory, Snapshot(d, "external", 0, FALSE))
        /\ UNCHANGED <<routers, generation>>
     \/ /\ fleet[d] = "direct"
        /\ \E cold \in BOOLEAN : directory' = PutRoute(directory, Snapshot(d, "direct", 0, cold))
        /\ UNCHANGED <<routers, generation>>
  /\ UNCHANGED <<desired, plan, fleet, capacity, refresh, request, cleanup, events>>

\* The deployment cannot be read, or its router not started or not recorded:
\* the pass leaves its route as it is.
SkipDeployment(d) ==
  /\ pass.pc = "deploy"
  /\ d \in pass.todo
  /\ EventAllowed
  /\ pass' = [pass EXCEPT !.todo = @ \ {d}]
  /\ UNCHANGED <<directory, desired, plan, fleet, generation, routers, capacity, refresh, request, cleanup>>

(***************************************************************************)
(* compileEndpoints, run by the pass and by RefreshEndpoints.              *)
(***************************************************************************)

\* The endpoint's routes are copies of the concrete routes of the plan's
\* deployments, taken before the publication.
Compilations(seen) ==
  {routes \in SUBSET {[r EXCEPT !.alias = EndpointAlias] :
                        r \in {x \in Concrete(directory) : x.dep \in plan.bindings \intersect seen}} :
     \A d \in plan.bindings \intersect seen :
       Cardinality({r \in routes : r.dep = d}) = (IF GetDeployment(directory, d) = {} THEN 0 ELSE 1)}

Publication(run) ==
  IF run.compiled = {} \/ (~run.plan.weighted /\ Cardinality(run.compiled) # 1)
  THEN RemoveEndpoint(directory)
  ELSE PublishEndpoint(directory, run.plan, run.compiled)

PassCompiles ==
  /\ pass.pc = "deploy"
  /\ pass.todo = {}
  /\ \E routes \in Compilations(pass.seen) :
       pass' = [pass EXCEPT !.pc = "publish", !.plan = plan, !.compiled = routes]
  /\ UNCHANGED <<directory, desired, plan, fleet, generation, routers, capacity, refresh,
                 request, cleanup, events>>

PassPublishes ==
  /\ pass.pc = "publish"
  /\ directory' = Publication(pass)
  /\ pass' = Idle
  /\ UNCHANGED <<desired, plan, fleet, generation, routers, capacity, refresh, request, cleanup, events>>

\* A control-plane mutation activates a plan and runs RefreshEndpoints, which
\* reads the deployments itself.
ActivatePlan ==
  /\ EventAllowed
  /\ refresh.pc = "idle"
  /\ plan' \in Plans
  /\ refresh' = [Idle EXCEPT !.pc = "compile", !.seen = {d \in Deployments : desired[d] = "running"}]
  /\ UNCHANGED <<directory, desired, fleet, generation, routers, capacity, pass, request, cleanup>>

RefreshCompiles ==
  /\ refresh.pc = "compile"
  /\ \E routes \in Compilations(refresh.seen) :
       refresh' = [refresh EXCEPT !.pc = "publish", !.plan = plan, !.compiled = routes]
  /\ UNCHANGED <<directory, desired, plan, fleet, generation, routers, capacity, pass,
                 request, cleanup, events>>

RefreshPublishes ==
  /\ refresh.pc = "publish"
  /\ directory' = Publication(refresh)
  /\ refresh' = Idle
  /\ UNCHANGED <<desired, plan, fleet, generation, routers, capacity, pass, request, cleanup, events>>

(***************************************************************************)
(* Requests.                                                               *)
(***************************************************************************)

\* AcquirePreferredForTenant.  "current" remembers whether the route was the
\* deployment's concrete route at that moment.
Acquire(q, a) ==
  /\ request[q].route = NoRoute
  /\ \E r \in Selectable(directory, a) :
       /\ request' = [request EXCEPT ![q] = [route |-> r,
                        current |-> routeID(r) \in IDs(Concrete(directory))]]
       /\ cleanup' = IF cleanup[r.dep].passed = 0 THEN cleanup
                     ELSE [cleanup EXCEPT ![r.dep].late = @ \union {q}]
  /\ UNCHANGED <<directory, desired, plan, fleet, generation, routers, capacity, pass, refresh, events>>

\* The gateway consumes fresh evidence of a cold serverless target by putting
\* its own pinned snapshot back without the evidence.
InvalidateCold(q) ==
  LET r == request[q].route IN
  /\ r # NoRoute
  /\ r.cold
  /\ directory' = PutRoute(directory, [r EXCEPT !.cold = FALSE])
  /\ request' = [request EXCEPT ![q].route.cold = FALSE]
  /\ UNCHANGED <<desired, plan, fleet, generation, routers, capacity, pass, refresh, cleanup, events>>

Release(q) ==
  /\ request[q].route # NoRoute
  /\ request' = [request EXCEPT ![q] = NoRequest]
  /\ cleanup' = [d \in Deployments |-> [cleanup[d] EXCEPT !.late = @ \ {q}]]
  /\ UNCHANGED <<directory, desired, plan, fleet, generation, routers, capacity, pass, refresh, events>>

(***************************************************************************)
(* Deleting a deployment: the cleanup handler is retried from the start    *)
(* until both checks of its fence let it through, one after the other.     *)
(***************************************************************************)

SubmitDeploymentDelete(d) ==
  /\ d \in Deletable
  /\ desired[d] = "running"
  /\ EventAllowed
  /\ desired' = [desired EXCEPT ![d] = "deleted"]
  /\ UNCHANGED <<directory, plan, fleet, generation, routers, capacity, pass, refresh, request, cleanup>>

\* Mutant: the requests are counted before the route is known to be withdrawn.
MutFenceSwapped(d, passed) ==
  IF passed = 0 THEN RetiringInFlight(directory, d, Pinned) = {} ELSE ~HasCurrentDeployment(directory, d)

\* HasCurrentDeployment first, RetiringInFlight second, each under a lock of its own.
FenceOpens(d, passed) ==
  IF passed = 0 THEN ~HasCurrentDeployment(directory, d) ELSE RetiringInFlight(directory, d, Pinned) = {}

CheckFence(d) ==
  /\ desired[d] = "deleted"
  /\ d \in capacity
  /\ cleanup[d].passed < 2
  /\ \/ FenceOpens(d, cleanup[d].passed) /\ cleanup' = [cleanup EXCEPT ![d].passed = @ + 1]
     \/ ~FenceOpens(d, cleanup[d].passed) /\ cleanup' = [cleanup EXCEPT ![d] = NoAttempt]
  /\ UNCHANGED <<directory, desired, plan, fleet, generation, routers, capacity, pass, refresh, request,
                 events>>

\* provider.DeleteReplica, after the lookups of the connection and the provider:
\* nothing keeps the route from coming back between the fence and the deletion.
DeleteCapacity(d) ==
  /\ cleanup[d].passed = 2
  /\ capacity' = capacity \ {d}
  /\ cleanup' = [cleanup EXCEPT ![d] = NoAttempt]
  /\ UNCHANGED <<directory, desired, plan, fleet, generation, routers, pass, refresh, request, events>>

\* A lookup fails, or the process stops: the next attempt checks again.
CleanupFails(d) ==
  /\ cleanup[d].passed > 0
  /\ EventAllowed
  /\ cleanup' = [cleanup EXCEPT ![d] = NoAttempt]
  /\ UNCHANGED <<directory, desired, plan, fleet, generation, routers, capacity, pass, refresh, request>>

\* The targets of a deployment change: workers come and go, fail and recover.
FleetMoves(d) ==
  /\ EventAllowed
  /\ \E f \in Fleets \ {fleet[d]} : fleet' = [fleet EXCEPT ![d] = f]
  /\ UNCHANGED <<directory, desired, plan, generation, routers, capacity, pass, refresh, request, cleanup>>

PassStep ==
  \/ ReapBegin \/ Reap \/ ReadDeployments \/ PassCompiles \/ PassPublishes
  \/ \E d \in Deployments : ReconcileDeployment(d)
RefreshStep == RefreshCompiles \/ RefreshPublishes
CleanupStep(d) == CheckFence(d) \/ DeleteCapacity(d)

RouteNext ==
  \/ PassStep
  \/ RefreshStep
  \/ ActivatePlan
  \/ \E q \in Requests : (\E a \in Aliases : Acquire(q, a)) \/ InvalidateCold(q) \/ Release(q)
  \/ \E d \in Deployments : \/ SubmitDeploymentDelete(d) \/ CleanupStep(d) \/ CleanupFails(d)
                           \/ FleetMoves(d) \/ SkipDeployment(d)

\* The reconciler ticks, a refresh runs to its end, a request ends, and the
\* delete operation is retried until its fence lets it through.
RouteFairness ==
  /\ WF_routeVars(PassStep)
  /\ WF_routeVars(RefreshStep)
  /\ \A q \in Requests : WF_routeVars(Release(q))
  /\ \A d \in Deployments : WF_routeVars(CleanupStep(d))

RouteSpec == RouteInit /\ [][RouteNext]_routeVars /\ RouteFairness

(***************************************************************************)
(* Properties.                                                             *)
(***************************************************************************)

Holds(q, d) == request[q].route # NoRoute /\ request[q].route.dep = d

\* routes.go:97-99 says of an acquired route "Publication may replace the
\* directory entry, but retirement cannot stop its router or capacity until
\* release is called".  The part of it the reaper keeps: the router is not
\* stopped if its route was the deployment's concrete route when the request
\* acquired it, whatever was put, withdrawn, compiled or refreshed since.
CurrentRouterSurvives ==
  \A q \in Requests :
    LET r == request[q].route IN
    r # NoRoute /\ request[q].current /\ r.kind = "router" => <<r.dep, r.gen>> \in routers

\* The part of it the delete fence keeps: at the moment capacity is deleted, a
\* request that holds a router's route it acquired as the concrete one acquired
\* it after the fence's first check, from a pass that still took the deployment
\* to be running.  Who held the route before that check is waited for, although
\* the two checks see two directories and the deletion a third.
DeleteWaitsForRequests ==
  [][\A d \in capacity \ capacity' : \A q \in Requests \ cleanup[d].late :
       ~(Holds(q, d) /\ request[q].current /\ request[q].route.kind = "router")]_routeVars

\* No router process is forgotten: one that runs is published, or retired and
\* so due to be reaped.
NoOrphanRouter ==
  \A p \in routers :
    \E r \in Published(directory) \union directory.retired : r.kind = "router" /\ <<r.dep, r.gen>> = p

\* A deployment with a healthy worker set, if it stays so, is served by a
\* running router of that worker set, even when an endpoint of the same alias,
\* a fallback route or a route put back by a request hides that its own route
\* is gone.
HealthyIsServed ==
  \A d \in Deployments :
    [](fleet[d] \in {"a", "b"} /\ desired[d] = "running" =>
       <>(\/ desired[d] = "deleted" \/ fleet[d] \notin {"a", "b"}
          \/ /\ directory.items[d] # NoRoute
             /\ directory.items[d].kind = "router"
             /\ <<d, directory.items[d].gen>> \in routers
             /\ generation[d] = [number |-> directory.items[d].gen, workers |-> fleet[d]]))

\* A deleted deployment loses its capacity in the end: requests cannot keep
\* its route published.
DeleteFinishes ==
  \A d \in Deployments : desired[d] = "deleted" ~> d \notin capacity
=============================================================================
