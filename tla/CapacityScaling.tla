-------------------------- MODULE CapacityScaling ---------------------------
(***************************************************************************)
(* Autoscaling of one elastic deployment: the controllers that decide how  *)
(* many replicas it should have (internal/autoscale), the scale operation  *)
(* they enqueue (internal/store/autoscaling.go), the converge handler that *)
(* carries it out (internal/workflows/cloud.go) and the reconciler whose   *)
(* router generation the handler waits for.                                *)
(*                                                                         *)
(* Every control-plane process runs a controller, and only the unresolved  *)
(* operation keeps them apart.  The handler is retried from its beginning  *)
(* after an error or a crash; that its attempts do not overlap is assumed: *)
(* OneExecutorPerGeneration gives it for one lease, and a worker that has  *)
(* lost its lease is told so by its next heartbeat.                        *)
(***************************************************************************)
EXTENDS Integers, FiniteSets

CONSTANTS
  FewestReplicas, MostReplicas,  \* the deployment's bounds
  Controllers,                   \* control-plane processes
  MaxDecisions,                  \* bound on scale operations
  MaxScaleFaults                 \* bound on what the provider does wrong

ASSUME ScalingAssumption ==
  /\ FewestReplicas \in Nat \ {0} /\ MostReplicas \in Nat
  /\ FewestReplicas <= MostReplicas
  /\ MaxDecisions \in Nat /\ MaxScaleFaults \in Nat

VARIABLES
  seen,         \* the replicas each controller has read and not yet decided on; or 0
  decisions,    \* operations enqueued so far
  scaling,      \* the deployment's newest scale operation
  executor,     \* where the converge handler is
  replicaRow,   \* replicas.lifecycle_state by ordinal
  machine,      \* the provider's resources by ordinal
  targets,      \* deployment_targets, by ordinal
  observed,     \* deployments.observed_state
  recorded,     \* the workers of the newest active router generation
  inspected,    \* the workers the reconciler's pass will publish
  scaleFaults

controlVars == <<seen, decisions>>
fleetVars == <<replicaRow, machine, targets, observed>>
routerVars == <<recorded, inspected>>
scalingVars == <<controlVars, scaling, executor, fleetVars, routerVars, scaleFaults>>

Ordinals == 0 .. MostReplicas - 1
First(n) == 0 .. n - 1

HasLiveRow(o) == replicaRow[o] \notin {"none", "deleted"}
Exists(o) == machine[o] \in {"booting", "running", "failed"}
Unresolved == scaling.status \in {"pending", "running"}

NoFault == scaleFaults' = scaleFaults
ScaleFault == scaleFaults < MaxScaleFaults /\ scaleFaults' = scaleFaults + 1

(***************************************************************************)
(* Controller.Once for the deployment: it reads the deployment, decides,   *)
(* and calls ScaleTo; the other controllers and the executor take steps in *)
(* between.                                                                *)
(***************************************************************************)
AutoscalingDeployments(c) ==
  /\ observed # "pending"
  /\ decisions < MaxDecisions
  /\ seen' = [seen EXCEPT ![c] = Cardinality(targets)]
  /\ UNCHANGED <<decisions, scaling, executor, fleetVars, routerVars, scaleFaults>>

\* EvaluateWithSLO moves by one replica and stays within the bounds.  Whether it
\* moves depends on the load, on counters of consecutive observations and on a
\* cooldown, which SaveState writes over what other controllers have saved and
\* a failed pass does not save at all: any of the outcomes may come.
EvaluateWithSLO(replicas) == {n \in {replicas - 1, replicas + 1} : n \in FewestReplicas .. MostReplicas}

\* ScaleTo enqueues an operation that remembers how many replica rows there are.
\* It joins an unresolved operation with the same goal and refuses a call while
\* one with another is unresolved, and changes nothing in either case.
ScaleTo(c) ==
  /\ seen[c] # 0
  /\ \E n \in EvaluateWithSLO(seen[c]) :
       /\ ~Unresolved
       /\ decisions < MaxDecisions
       /\ scaling' = [status |-> "pending", desired |-> n, cancel |-> FALSE, reached |-> 0,
                      previous |-> Cardinality({o \in Ordinals : HasLiveRow(o)})]
  /\ decisions' = decisions + 1
  /\ seen' = [seen EXCEPT ![c] = 0]
  /\ UNCHANGED <<executor, fleetVars, routerVars, scaleFaults>>

(***************************************************************************)
(* The scale operation and its handler.  A cancellation of an operation    *)
(* nobody has claimed ends it; later it makes the next attempt undo.       *)
(***************************************************************************)
Resting == [at |-> "idle", next |-> 0, goal |-> 0, draining |-> {}, undo |-> FALSE]

CancelScale ==
  /\ Unresolved /\ ~scaling.cancel
  /\ scaling' = IF scaling.status = "pending" THEN [scaling EXCEPT !.status = "cancelled"]
                                              ELSE [scaling EXCEPT !.cancel = TRUE]
  /\ UNCHANGED <<controlVars, executor, fleetVars, routerVars, scaleFaults>>

\* An attempt that fails for good ends the operation, unless a cancellation
\* has been asked for and this attempt was not it.
FailForGood ==
  /\ scaling' = IF scaling.cancel /\ ~executor.undo THEN scaling
                ELSE [scaling EXCEPT !.status = "failed"]
  /\ executor' = Resting

\* cancelScale converges to the number of rows there were when the operation
\* was enqueued.
Goal == IF scaling.cancel THEN scaling.previous ELSE scaling.desired

MutBelowMaximum(n) == FewestReplicas <= n /\ n < MostReplicas

ValidTarget(n) == FewestReplicas <= n /\ n <= MostReplicas

Begin ==
  /\ Unresolved /\ executor.at = "idle"
  /\ IF ValidTarget(Goal)
     THEN /\ scaling' = [scaling EXCEPT !.status = "running"]
          /\ executor' = [at |-> "intent", next |-> 0, goal |-> Goal, draining |-> {}, undo |-> scaling.cancel]
     ELSE /\ scaling' = [scaling EXCEPT !.status = "failed"]
          /\ executor' = Resting
  /\ UNCHANGED <<controlVars, fleetVars, routerVars, scaleFaults>>

\* The handler returns a retryable error (capacity, a slow start, a route not
\* yet published, requests that still drain, a database error), its context is
\* cancelled, or its process stops; the next attempt begins from the beginning.
Retry ==
  /\ executor.at # "idle"
  /\ executor' = Resting
  /\ UNCHANGED <<controlVars, scaling, fleetVars, routerVars, scaleFaults>>

\* EnsureReplicaIntent and SetReplicaProviderIdentity.  The row of an ordinal
\* is found by its external key whatever its state, and a deleted row refuses
\* the identity.
EnsureIntent ==
  /\ executor.at = "intent" /\ executor.next < executor.goal
  /\ IF replicaRow[executor.next] = "deleted"
     THEN FailForGood /\ UNCHANGED replicaRow
     ELSE /\ replicaRow' = [replicaRow EXCEPT ![executor.next] = IF @ = "none" THEN "provisioning" ELSE @]
          /\ executor' = [executor EXCEPT !.at = "create"]
          /\ UNCHANGED scaling
  /\ UNCHANGED <<controlVars, machine, targets, observed, routerVars, scaleFaults>>

\* The provider adopts the resource that has the external key or creates it.
EnsureMachine ==
  /\ executor.at = "create"
  /\ machine[executor.next] # "deleting"
  /\ machine' = [machine EXCEPT ![executor.next] = IF @ = "none" THEN "booting" ELSE @]
  /\ executor' = [executor EXCEPT !.at = "observe"]
  /\ UNCHANGED <<controlVars, scaling, replicaRow, targets, observed, routerVars, scaleFaults>>

\* The provider's answer is final: no authorization, or an invalid request.
EnsureRefused ==
  /\ executor.at = "create"
  /\ FailForGood /\ ScaleFault
  /\ UNCHANGED <<controlVars, fleetVars, routerVars>>

\* The resource is ready and serves the model; its target is registered.
ReplicaReady ==
  /\ executor.at = "observe" /\ machine[executor.next] = "running"
  /\ replicaRow' = [replicaRow EXCEPT ![executor.next] = "active"]
  /\ executor' = [executor EXCEPT !.at = "intent", !.next = @ + 1]
  /\ UNCHANGED <<controlVars, scaling, machine, targets, observed, routerVars, scaleFaults>>

\* It is not ready yet, which the row records before the retry.
ReplicaStarting ==
  /\ executor.at = "observe" /\ machine[executor.next] = "booting"
  /\ replicaRow' = [replicaRow EXCEPT ![executor.next] = "starting"]
  /\ executor' = Resting
  /\ UNCHANGED <<controlVars, scaling, machine, targets, observed, routerVars, scaleFaults>>

\* Its bootstrap failed: it is deleted, and then its row with it.
BootstrapFailed ==
  /\ executor.at = "observe" /\ machine[executor.next] = "failed"
  /\ machine' = [machine EXCEPT ![executor.next] = "deleting"]
  /\ replicaRow' = [replicaRow EXCEPT ![executor.next] = "failed"]
  /\ executor' = [executor EXCEPT !.at = "bury"]
  /\ UNCHANGED <<controlVars, scaling, targets, observed, routerVars, scaleFaults>>

BuryFailed ==
  /\ executor.at = "bury"
  /\ replicaRow' = [replicaRow EXCEPT ![executor.next] = "deleted"]
  /\ FailForGood
  /\ UNCHANGED <<controlVars, machine, targets, observed, routerVars, scaleFaults>>

\* It answers, but does not serve the model.
WrongModel ==
  /\ executor.at = "observe" /\ machine[executor.next] = "running"
  /\ replicaRow' = [replicaRow EXCEPT ![executor.next] = "failed"]
  /\ FailForGood /\ ScaleFault
  /\ UNCHANGED <<controlVars, machine, targets, observed, routerVars>>

MutSurplus(goal) == {o \in Ordinals : o > goal /\ HasLiveRow(o)}

Surplus(goal) == {o \in Ordinals : o >= goal /\ HasLiveRow(o)}

\* ApplyDeploymentForTenant replaces the deployment's targets; then the rows
\* beyond the goal are read and marked, which nobody else reads or writes.
ApplyDeployment ==
  /\ executor.at = "intent" /\ executor.next = executor.goal
  /\ targets' = First(executor.goal)
  /\ observed' = "pending"
  /\ replicaRow' = [o \in Ordinals |-> IF o \in Surplus(executor.goal) THEN "draining" ELSE replicaRow[o]]
  /\ executor' = [executor EXCEPT !.at = "fence", !.draining = Surplus(executor.goal)]
  /\ UNCHANGED <<controlVars, scaling, machine, routerVars, scaleFaults>>

\* The newest router generation has exactly the targets' workers and no request
\* uses a route that was withdrawn; until then the handler retries.
FencePasses ==
  /\ executor.at = "fence"
  /\ recorded = First(executor.goal)
  /\ executor' = [executor EXCEPT !.at = "delete"]
  /\ UNCHANGED <<controlVars, scaling, fleetVars, routerVars, scaleFaults>>

Draining(o) == executor.draining # {} /\ o \in executor.draining /\ \A p \in executor.draining : o <= p

DeleteMachine(o) ==
  /\ executor.at = "delete" /\ Draining(o)
  /\ machine' = [machine EXCEPT ![o] = IF @ = "none" THEN "none" ELSE "deleting"]
  /\ executor' = [executor EXCEPT !.at = "confirm"]
  /\ UNCHANGED <<controlVars, scaling, replicaRow, targets, observed, routerVars, scaleFaults>>

\* The deletion is recorded once the provider no longer shows the resource.
MarkReplicaDeleted(o) ==
  /\ executor.at = "confirm" /\ Draining(o)
  /\ machine[o] = "none"
  /\ replicaRow' = [replicaRow EXCEPT ![o] = "deleted"]
  /\ executor' = [executor EXCEPT !.at = "delete", !.draining = @ \ {o}]
  /\ UNCHANGED <<controlVars, scaling, machine, targets, observed, routerVars, scaleFaults>>

\* The handler returns and the worker completes the operation, which the store
\* refuses once a cancellation has been asked for.
Conclude ==
  /\ executor.at = "delete" /\ executor.draining = {}
  /\ scaling' = IF scaling.cancel /\ ~executor.undo THEN scaling
                ELSE [scaling EXCEPT !.status = IF executor.undo THEN "cancelled" ELSE "succeeded",
                                     !.reached = executor.goal]
  /\ executor' = Resting
  /\ UNCHANGED <<controlVars, fleetVars, routerVars, scaleFaults>>

\* All attempts have been used up.
AttemptsExhausted ==
  /\ executor.at = "idle" /\ scaling.status = "running"
  /\ scaling' = [scaling EXCEPT !.status = "failed"]
  /\ ScaleFault
  /\ UNCHANGED <<controlVars, executor, fleetVars, routerVars>>

(***************************************************************************)
(* A pass of the reconciler reads the targets and inspects them, and later *)
(* records a router generation for those that answered and publishes it;   *)
(* RouteServing models what happens between these two and to requests.     *)
(***************************************************************************)
InspectTargets ==
  LET healthy == {o \in targets : machine[o] = "running"}
  IN /\ inspected = {} /\ healthy # {}
     /\ inspected' = healthy
     /\ UNCHANGED <<controlVars, scaling, executor, fleetVars, recorded, scaleFaults>>

PublishWorkers ==
  /\ inspected # {}
  /\ recorded' = inspected
  /\ observed' = IF inspected = targets THEN "healthy" ELSE "degraded"
  /\ inspected' = {}
  /\ UNCHANGED <<controlVars, scaling, executor, replicaRow, machine, targets, scaleFaults>>

(***************************************************************************)
(* The provider.                                                           *)
(***************************************************************************)
ProviderMoves(o, from, to) ==
  /\ machine[o] = from
  /\ machine' = [machine EXCEPT ![o] = to]
  /\ UNCHANGED <<controlVars, scaling, executor, replicaRow, targets, observed, routerVars>>

Boots(o) == ProviderMoves(o, "booting", "running") /\ NoFault
Disappears(o) == ProviderMoves(o, "deleting", "none") /\ NoFault
Breaks(o) == ScaleFault /\ \E from \in {"booting", "running"} : ProviderMoves(o, from, "failed")

(***************************************************************************)
(* The specification.  A converged deployment with its fewest replicas.    *)
(***************************************************************************)
ScalingInit ==
  /\ seen = [c \in Controllers |-> 0]
  /\ decisions = 0
  /\ scaling = [status |-> "succeeded", desired |-> FewestReplicas, previous |-> FewestReplicas,
                cancel |-> FALSE, reached |-> FewestReplicas]
  /\ executor = Resting
  /\ replicaRow = [o \in Ordinals |-> IF o < FewestReplicas THEN "active" ELSE "none"]
  /\ machine = [o \in Ordinals |-> IF o < FewestReplicas THEN "running" ELSE "none"]
  /\ targets = First(FewestReplicas)
  /\ observed = "healthy"
  /\ recorded = targets /\ inspected = {}
  /\ scaleFaults = 0

HandlerMoves ==
  \/ Begin \/ EnsureIntent \/ EnsureMachine \/ EnsureRefused
  \/ ReplicaReady \/ ReplicaStarting \/ BootstrapFailed \/ BuryFailed \/ WrongModel
  \/ ApplyDeployment \/ FencePasses \/ Conclude
  \/ \E o \in Ordinals : DeleteMachine(o) \/ MarkReplicaDeleted(o)

ScalingNext ==
  \/ \E c \in Controllers : AutoscalingDeployments(c) \/ ScaleTo(c)
  \/ CancelScale
  \/ HandlerMoves \/ Retry \/ AttemptsExhausted
  \/ InspectTargets \/ PublishWorkers
  \/ \E o \in Ordinals : Boots(o) \/ Disappears(o) \/ Breaks(o)

ScalingSpec == ScalingInit /\ [][ScalingNext]_scalingVars

(***************************************************************************)
(* Properties.                                                             *)
(***************************************************************************)
ScaleOperations ==
  [status : {"pending", "running", "succeeded", "failed", "cancelled"},
   desired : FewestReplicas .. MostReplicas, previous : 0 .. MostReplicas,
   cancel : BOOLEAN, reached : 0 .. MostReplicas]
Executors ==
  [at : {"idle", "intent", "create", "observe", "bury", "fence", "delete", "confirm"},
   next : 0 .. MostReplicas, goal : 0 .. MostReplicas, draining : SUBSET Ordinals, undo : BOOLEAN]
RowStates == {"none", "provisioning", "starting", "active", "draining", "failed", "deleted"}
MachineStates == {"none", "booting", "running", "failed", "deleting"}

ScalingTypeOK ==
  /\ seen \in [Controllers -> 0 .. MostReplicas]
  /\ decisions \in 0 .. MaxDecisions
  /\ scaling \in ScaleOperations /\ executor \in Executors
  /\ replicaRow \in [Ordinals -> RowStates] /\ machine \in [Ordinals -> MachineStates]
  /\ targets \subseteq Ordinals /\ observed \in {"pending", "healthy", "degraded"}
  /\ recorded \subseteq Ordinals /\ inspected \subseteq Ordinals
  /\ scaleFaults \in 0 .. MaxScaleFaults

\* The fleet is what the rows say.  Whatever the provider runs for the deployment
\* has a live row, through which a later scale-down or deletion finds it; and
\* when converge has carried an operation through, to its goal or back to what
\* was there before, exactly that many replicas run, have a live row and are the
\* deployment's targets, whatever earlier attempts and operations left behind
\* (ensureCloudReplica and converge, cloud.go).
FleetIsExact ==
  /\ \A o \in Ordinals : Exists(o) => HasLiveRow(o)
  /\ scaling.reached > 0 =>
       /\ {o \in Ordinals : Exists(o)} = First(scaling.reached)
       /\ {o \in Ordinals : HasLiveRow(o)} = First(scaling.reached)
       /\ targets = First(scaling.reached)

\* The only way in which scaling fails although nothing went wrong: the operation
\* needs an ordinal that was scaled down before.  Its row stays deleted, is found
\* again by its external key, and SetReplicaProviderIdentity refuses it for good,
\* so that a deployment grows into each of its ordinals once.
FailsOnlyOnReuse ==
  scaling.status = "failed" /\ scaleFaults = 0 =>
    \E o \in First(Goal) : replicaRow[o] = "deleted"
=============================================================================
