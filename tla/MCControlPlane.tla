--------------------------- MODULE MCControlPlane ---------------------------
(***************************************************************************)
(* Instances for TLC of the components that serve, routes and the external *)
(* budget, beside those that provision.  As in MCProvisioning, a behaviour *)
(* is about one component, its subject.                                    *)
(***************************************************************************)
EXTENDS MCProvisioning, RouteServing, ExternalBudget

CONSTANTS d1, d2, q1, g1, g2

allVars == <<provisioningVars, routeVars, budgetVars>>

\* Two deployments, one of which has the name of the endpoint.
TwoPlans == {[weighted |-> FALSE, bindings |-> {d1}], [weighted |-> TRUE, bindings |-> {d1, d2}]}
TwoFleets == {(d1 :> "a" @@ d2 :> "direct"), [d \in {d1, d2} |-> "none"]}

\* One deployment that has the name of the endpoint.
OnePlan == {[weighted |-> FALSE, bindings |-> {d1}], [weighted |-> TRUE, bindings |-> {d1}]}
OneFleet == {(d1 :> "a"), (d1 :> "none")}

ControlInit ==
  /\ ProvisioningInit
  /\ RouteInit /\ (subject # "routes" => plan = (CHOOSE p \in Plans : TRUE) /\ \A d \in Deployments : fleet[d] = "none")
  /\ BudgetInit
  /\ subject # "budget" =>
       /\ policy.mode = "health"
       /\ <<policy.limit, policy.costLimit, policy.price>> = <<Min(Limits), Min(CostLimits), Min(Prices)>>

ControlNext ==
  \/ subject = "routes" /\ RouteNext /\ UNCHANGED <<provisioningVars, budgetVars>>
  \/ subject = "budget" /\ BudgetNext /\ UNCHANGED <<provisioningVars, routeVars>>
  \/ ProvisioningNext /\ UNCHANGED <<routeVars, budgetVars>>

ControlSpec == ControlInit /\ [][ControlNext]_allVars

RoutesAreFair ==
  /\ WF_routeVars(subject = "routes" /\ PassStep)
  /\ WF_routeVars(subject = "routes" /\ RefreshStep)
  /\ \A q \in Requests : WF_routeVars(subject = "routes" /\ Release(q))
  /\ \A d \in Deployments : WF_routeVars(subject = "routes" /\ CleanupStep(d))

BudgetIsFair ==
  \A g \in Gateways : /\ WF_budgetVars(subject = "budget" /\ ResolverStep(g))
                      /\ WF_budgetVars(subject = "budget" /\ PrefetchStep(g))

FairControlSpec == ControlSpec /\ RoutesAreFair /\ BudgetIsFair /\ SandboxIsFair /\ RolloutIsFair
=============================================================================
