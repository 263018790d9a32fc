--------------------------- MODULE ExternalBudget ---------------------------
(***************************************************************************)
(* Governed external capacity of one deployment: the persisted policy and  *)
(* its hard budget (store/external_policies.go), the budget leases that    *)
(* every gateway process consumes from memory (external/budget.go), and    *)
(* the reconcilers that decide whether to overflow, resolve the external   *)
(* route and lease budget for it (external/coordinator.go).                *)
(*                                                                         *)
(* Several processes evaluate, lease and spend concurrently; a background  *)
(* prefetch races the reconciler's own lease; an operator changes the      *)
(* policy, its price included, under both; a process may restart and lose  *)
(* what it had leased.  A managed external binding (external_bindings.go)  *)
(* leases by the same steps from an immutable policy, which is the case    *)
(* without SetExternalTargetPolicy.                                        *)
(***************************************************************************)
EXTENDS Overflow, Tally, FiniteSetsExt

CONSTANTS
  Gateways,      \* gateway processes, each with a reconciler and a pool
  Batch,         \* LeaseBatch
  Limits,        \* request limits an operator may set
  CostLimits,    \* cost limits an operator may set
  Prices,        \* worst-case costs of one request an operator may set
  Breach,        \* BreachIntervals
  Recovery,      \* RecoveryIntervals
  MaxPolicySets, \* bound on policy updates
  MaxFailures    \* bound on failed leases, failed probes and restarts

ASSUME BudgetConstants ==
  /\ IsFiniteSet(Gateways)
  /\ Batch \in 1..256
  /\ Limits \subseteq Nat \ {0}
  /\ CostLimits \subseteq Nat \ {0}
  /\ Prices \subseteq Nat \ {0}
  /\ Breach \in Nat \ {0}
  /\ Recovery \in Nat \ {0}
  /\ MaxPolicySets \in Nat
  /\ MaxFailures \in Nat

VARIABLES
  policy,    \* the external_target_policies row
  hybrid,    \* the overflow_states row
  calm,      \* consecutive quiet observations since the last troubled one
  pool,      \* BudgetPool.leases of each process
  registered,\* whether the process registered its refill callback
  prefetch,  \* the background refill of each process
  resolver,  \* the reconciler of each process
  spent,     \* what requests were authorized to spend, over all processes
  policySets,
  failures

budgetVars == <<policy, hybrid, calm, pool, registered, prefetch, resolver, spent,
                policySets, failures>>

Lease == [requests: Nat, cost: Nat, price: Nat]
NoLease == [requests |-> 0, cost |-> 0, price |-> 0]
Policy == [enabled: BOOLEAN, mode: {"health", "health_and_queue"}, limit: Nat \ {0},
           costLimit: Nat \ {0}, price: Nat \ {0}, requests: Nat, cost: Nat]
Prefetch == [pc: {"idle", "leasing", "adding", "clearing"}, lease: Lease]
Reconciler == [pc: {"idle", "evaluate", "resolve", "lease", "add"}, budget: BOOLEAN, lease: Lease]
Spending == [requests: Nat, cost: Nat]

BudgetTypeOK ==
  /\ policy \in Policy
  /\ hybrid \in OverflowState
  /\ calm \in 0..Recovery
  /\ pool \in [Gateways -> Lease]
  /\ registered \in [Gateways -> BOOLEAN]
  /\ prefetch \in [Gateways -> Prefetch]
  /\ resolver \in [Gateways -> Reconciler]
  /\ spent \in Spending
  /\ policySets \in 0..MaxPolicySets
  /\ failures \in 0..MaxFailures

IdlePrefetch == [pc |-> "idle", lease |-> NoLease]
IdleResolver == [pc |-> "idle", budget |-> FALSE, lease |-> NoLease]

BudgetInit ==
  /\ \E mode \in {"health", "health_and_queue"}, l \in Limits, c \in CostLimits, m \in Prices :
       /\ m <= c
       /\ policy = [enabled |-> TRUE, mode |-> mode, limit |-> l, costLimit |-> c,
                    price |-> m, requests |-> 0, cost |-> 0]
  /\ hybrid = NoOverflow
  /\ calm = 0
  /\ pool = [g \in Gateways |-> NoLease]
  /\ registered = [g \in Gateways |-> FALSE]
  /\ prefetch = [g \in Gateways |-> IdlePrefetch]
  /\ resolver = [g \in Gateways |-> IdleResolver]
  /\ spent = [requests |-> 0, cost |-> 0]
  /\ policySets = 0
  /\ failures = 0

(***************************************************************************)
(* The store.                                                              *)
(***************************************************************************)

\* The table's CHECK constraints: a limit below what is already reserved is
\* refused, and so is a price above the cost limit.
PolicyCheck(p) ==
  /\ p.price <= p.costLimit
  /\ p.requests <= p.limit
  /\ p.cost <= p.costLimit

\* SetExternalTargetPolicyForTenant: the upsert keeps the policy's ID and
\* what is reserved.
SetExternalTargetPolicy ==
  /\ policySets < MaxPolicySets
  /\ \E on \in BOOLEAN, mode \in {"health", "health_and_queue"}, l \in Limits,
        c \in CostLimits, m \in Prices :
       LET p == [policy EXCEPT !.enabled = on, !.mode = mode, !.limit = l,
                               !.costLimit = c, !.price = m] IN
       /\ PolicyCheck(p)
       /\ policy' = p
  /\ policySets' = policySets + 1
  /\ UNCHANGED <<hybrid, calm, pool, registered, prefetch, resolver, spent, failures>>

\* How many requests LeaseExternalBudget grants of a batch.
Grantable == Min({Batch, policy.limit - policy.requests,
                  (policy.costLimit - policy.cost) \div policy.price})

LeaseRefused == ~policy.enabled \/ Grantable < 1

Granted == [requests |-> Grantable, cost |-> Grantable * policy.price, price |-> policy.price]

\* Mutant: the cost of the lease is not reserved.
MutLeaseRequestsOnly ==
  /\ ~LeaseRefused
  /\ policy' = [policy EXCEPT !.requests = @ + Granted.requests]

\* LeaseExternalBudget: the row is locked, so reading and reserving are one step.
LeaseExternalBudget ==
  /\ ~LeaseRefused
  /\ policy' = [policy EXCEPT !.requests = @ + Granted.requests, !.cost = @ + Granted.cost]

(***************************************************************************)
(* The pool of a process.                                                  *)
(***************************************************************************)

\* BudgetPool.Add: batches leased at different prices share one balance.
Added(old, lease) == [requests |-> old.requests + lease.requests,
                      cost |-> old.cost + lease.cost, price |-> lease.price]

MayAuthorize(l) == l.requests >= 1 /\ l.cost >= l.price /\ l.price >= 1

\* prefetchLocked: one background refill at a time, when little is left.
Prefetched(g, left) ==
  IF registered[g] /\ prefetch[g].pc = "idle" /\ left <= Batch \div 2
  THEN [prefetch EXCEPT ![g] = [pc |-> "leasing", lease |-> NoLease]]
  ELSE prefetch

\* BudgetPool.Authorize, on the path of a request that pinned the external
\* route.  A request that is refused changes nothing.
Authorize(g) ==
  LET l == pool[g]
      left == [l EXCEPT !.requests = @ - 1, !.cost = @ - l.price] IN
  /\ MayAuthorize(l)
  /\ pool' = [pool EXCEPT ![g] = left]
  /\ spent' = [requests |-> spent.requests + 1, cost |-> spent.cost + l.price]
  /\ prefetch' = Prefetched(g, left.requests)
  /\ UNCHANGED <<policy, hybrid, calm, registered, resolver, policySets, failures>>

\* The goroutine of prefetchLocked leases, adds, and only then clears the
\* refilling flag.
PrefetchLease(g) ==
  /\ prefetch[g].pc = "leasing"
  /\ \/ /\ LeaseExternalBudget
        /\ prefetch' = [prefetch EXCEPT ![g] = [pc |-> "adding", lease |-> Granted]]
        /\ UNCHANGED failures
     \/ /\ LeaseRefused
        /\ prefetch' = [prefetch EXCEPT ![g] = [pc |-> "clearing", lease |-> NoLease]]
        /\ UNCHANGED <<policy, failures>>
     \/ /\ failures < MaxFailures
        /\ failures' = failures + 1
        /\ prefetch' = [prefetch EXCEPT ![g] = [pc |-> "clearing", lease |-> NoLease]]
        /\ UNCHANGED policy
  /\ UNCHANGED <<hybrid, calm, pool, registered, resolver, spent, policySets>>

PrefetchAdd(g) ==
  /\ prefetch[g].pc = "adding"
  /\ pool' = [pool EXCEPT ![g] = Added(@, prefetch[g].lease)]
  /\ prefetch' = [prefetch EXCEPT ![g] = [pc |-> "clearing", lease |-> NoLease]]
  /\ UNCHANGED <<policy, hybrid, calm, registered, resolver, spent, policySets, failures>>

PrefetchClear(g) ==
  /\ prefetch[g].pc = "clearing"
  /\ prefetch' = [prefetch EXCEPT ![g] = IdlePrefetch]
  /\ UNCHANGED <<policy, hybrid, calm, pool, registered, resolver, spent, policySets, failures>>

(***************************************************************************)
(* The reconciler of a process: ResolveHybrid and Resolve.                 *)
(***************************************************************************)

Resolver(g, pc) == resolver' = [resolver EXCEPT ![g] = [IdleResolver EXCEPT !.pc = pc]]

\* ResolveHybrid reads the policy row and the pool and judges the budget; a
\* disabled policy ends the pass in OverflowMode.
ReadBudget(g) ==
  /\ resolver[g].pc = "idle"
  /\ policy.enabled
  /\ resolver' = [resolver EXCEPT ![g] = [pc |-> "evaluate", lease |-> NoLease,
       budget |-> \/ pool[g].requests > 0
                  \/ policy.requests < policy.limit /\ policy.cost < policy.costLimit]]
  /\ UNCHANGED <<policy, hybrid, calm, pool, registered, prefetch, spent, policySets, failures>>

\* Whether an observation shows no trouble, is trouble, or says nothing.
Quiet(sig) == sig.healthy /\ (policy.mode = "health" \/ sig.queue = "low")
Troubled(sig) == ~sig.healthy \/ (policy.mode = "health_and_queue" /\ sig.queue = "high")

\* EvaluateOverflow: one transaction over the policy and the remembered state.
EvaluateOverflow(g) ==
  /\ resolver[g].pc = "evaluate"
  /\ \/ /\ policy.enabled
        /\ \E sig \in OverflowSignal :
             LET p == [mode |-> policy.mode, breach |-> Breach, recovery |-> Recovery,
                       budget |-> resolver[g].budget]
                 d == Evaluate(p, hybrid, sig) IN
             /\ hybrid' = Remembered(hybrid, d)
             /\ calm' = CASE resolver[g].budget /\ Troubled(sig) -> 0
                          [] resolver[g].budget /\ Quiet(sig) -> Counted(calm, Recovery)
                          [] OTHER -> calm
             /\ Resolver(g, IF d.route = "external" THEN "resolve" ELSE "idle")
     \/ /\ ~policy.enabled
        /\ Resolver(g, "idle")
        /\ UNCHANGED <<hybrid, calm>>
  /\ UNCHANGED <<policy, pool, registered, prefetch, spent, policySets, failures>>

\* Mutant: the reconciler leases once, and leaves the rest to the prefetch.
MutNeedsLeaseOnce(g) == pool[g].requests = 0 /\ ~registered[g]

NeedsLease(g) == pool[g].requests = 0

\* Resolve: the policy is read again, the credential resolved and the target
\* probed, any of which may fail; then the refill callback is registered and
\* budget leased if the pool is empty.
Resolve(g) ==
  /\ resolver[g].pc = "resolve"
  /\ \/ /\ policy.enabled
        /\ registered' = [registered EXCEPT ![g] = TRUE]
        /\ Resolver(g, IF NeedsLease(g) THEN "lease" ELSE "idle")
        /\ UNCHANGED failures
     \/ /\ ~policy.enabled
        /\ Resolver(g, "idle")
        /\ UNCHANGED <<registered, failures>>
     \/ /\ failures < MaxFailures
        /\ failures' = failures + 1
        /\ Resolver(g, "idle")
        /\ UNCHANGED registered
  /\ UNCHANGED <<policy, hybrid, calm, pool, prefetch, spent, policySets>>

ResolveLease(g) ==
  /\ resolver[g].pc = "lease"
  /\ \/ /\ LeaseExternalBudget
        /\ resolver' = [resolver EXCEPT ![g] = [IdleResolver EXCEPT !.pc = "add", !.lease = Granted]]
        /\ UNCHANGED failures
     \/ /\ LeaseRefused
        /\ Resolver(g, "idle")
        /\ UNCHANGED <<policy, failures>>
     \/ /\ failures < MaxFailures
        /\ failures' = failures + 1
        /\ Resolver(g, "idle")
        /\ UNCHANGED policy
  /\ UNCHANGED <<hybrid, calm, pool, registered, prefetch, spent, policySets>>

ResolveAdd(g) ==
  /\ resolver[g].pc = "add"
  /\ pool' = [pool EXCEPT ![g] = Added(@, resolver[g].lease)]
  /\ Resolver(g, "idle")
  /\ UNCHANGED <<policy, hybrid, calm, registered, prefetch, spent, policySets, failures>>

(***************************************************************************)
(* The environment.                                                        *)
(***************************************************************************)

\* The cooldown since the last change of route elapses.
CooldownElapses ==
  /\ hybrid.cooling
  /\ hybrid' = [hybrid EXCEPT !.cooling = FALSE]
  /\ UNCHANGED <<policy, calm, pool, registered, prefetch, resolver, spent, policySets, failures>>

\* A process dies; what it had leased and not spent is gone.
GatewayRestarts(g) ==
  /\ failures < MaxFailures
  /\ failures' = failures + 1
  /\ pool' = [pool EXCEPT ![g] = NoLease]
  /\ registered' = [registered EXCEPT ![g] = FALSE]
  /\ prefetch' = [prefetch EXCEPT ![g] = IdlePrefetch]
  /\ resolver' = [resolver EXCEPT ![g] = IdleResolver]
  /\ UNCHANGED <<policy, hybrid, calm, spent, policySets>>

ResolverStep(g) == ReadBudget(g) \/ EvaluateOverflow(g) \/ Resolve(g) \/ ResolveLease(g) \/ ResolveAdd(g)
PrefetchStep(g) == PrefetchLease(g) \/ PrefetchAdd(g) \/ PrefetchClear(g)

BudgetNext ==
  \/ SetExternalTargetPolicy
  \/ CooldownElapses
  \/ \E g \in Gateways : Authorize(g) \/ PrefetchStep(g) \/ ResolverStep(g) \/ GatewayRestarts(g)

BudgetFairness == \A g \in Gateways : WF_budgetVars(ResolverStep(g)) /\ WF_budgetVars(PrefetchStep(g))

BudgetSpec == BudgetInit /\ [][BudgetNext]_budgetVars /\ BudgetFairness

(***************************************************************************)
(* Properties.                                                             *)
(***************************************************************************)

\* What each process holds, in its pool and on its way into it.
HeldRequests ==
  [g \in Gateways |-> pool[g].requests + prefetch[g].lease.requests + resolver[g].lease.requests]
HeldCost ==
  [g \in Gateways |-> pool[g].cost + prefetch[g].lease.cost + resolver[g].lease.cost]

\* "Unused reservations may reduce availability but can never exceed the hard
\* persisted budget" (store/external_policies.go): whatever was authorized, is
\* still in a pool or is on its way into one was reserved, in requests and in
\* cost, and the reservations respect the limits in force.
HardBudgetHolds ==
  /\ spent.requests + Total(HeldRequests, Gateways) <= policy.requests
  /\ spent.cost + Total(HeldCost, Gateways) <= policy.cost
  /\ PolicyCheck(policy)

\* The inductive invariant: the remembered count of quiet observations is never
\* ahead of the observations themselves.
BudgetInv == BudgetTypeOK /\ HardBudgetHolds /\ hybrid.low <= calm

\* External traffic goes back to a healthy primary, budget permitting, only
\* after the required number of quiet observations in a row, whatever modes,
\* processes and stale samples came in between (overflow.Evaluate).
RecoveryNeedsCalm ==
  [][hybrid.external /\ ~hybrid'.external => calm' >= Recovery \/ \E g \in Gateways :
       resolver[g].pc = "evaluate" /\ ~resolver[g].budget]_budgetVars

\* A process whose external route is wanted and whose pool ran dry is refilled,
\* as long as the policy grants anything: a prefetch that failed or was skipped
\* because another one was finishing is made up for by the reconciler.
DryPoolRefills ==
  \A g \in Gateways :
    hybrid.external /\ pool[g].requests = 0 /\ ~LeaseRefused
      ~> pool[g].requests > 0 \/ ~hybrid.external \/ LeaseRefused
=============================================================================
