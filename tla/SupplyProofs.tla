--------------------------- MODULE SupplyProofs ----------------------------
(***************************************************************************)
(* Machine-checked proofs about what serves requests and what is bought    *)
(* for them: ExternalBudget, for any number of gateway processes, limits,  *)
(* prices and batches; NativeSandbox, for any lifetime, grace and number   *)
(* of calls and faults; and RouteServing, for any number of deployments,   *)
(* requests, plans and router generations.                                 *)
(***************************************************************************)
EXTENDS ExternalBudget, NativeSandbox, RouteServing, AccountingProofs

\* The least of three numbers.
LEMMA LeastOfThree ==
  ASSUME NEW a \in Int, NEW b \in Int, NEW c \in Int
  PROVE  /\ Min({a, b, c}) \in Int
         /\ Min({a, b, c}) <= a /\ Min({a, b, c}) <= b /\ Min({a, b, c}) <= c
<1> DEFINE S == {a, b, c}
<1>1. \E x \in S : \A y \in S : x <= y
  <2>1. CASE a <= b /\ a <= c
    BY <2>1
  <2>2. CASE b <= a /\ b <= c
    BY <2>2
  <2>3. CASE c <= a /\ c <= b
    BY <2>3
  <2> QED
    BY <2>1, <2>2, <2>3
<1>2. Min(S) \in S /\ \A y \in S : Min(S) <= y
  <2> HIDE DEF S
  <2> QED
    BY <1>1, Zenon DEF Min
<1> QED
  BY <1>2

\* A lease that is granted fits into what is left of both limits.
LEMMA GrantFits ==
  ASSUME policy \in Policy, PolicyCheck(policy), ~LeaseRefused
  PROVE  /\ Granted \in Lease
         /\ policy.requests + Granted.requests <= policy.limit
         /\ policy.cost + Granted.cost <= policy.costLimit
<1> DEFINE n == Grantable
           m == policy.price
           c == policy.costLimit - policy.cost
           l == policy.limit - policy.requests
<1>1. m \in Nat /\ m >= 1 /\ c \in Nat /\ l \in Nat /\ Batch \in Int
      /\ policy.requests \in Nat /\ policy.cost \in Nat /\ policy.limit \in Nat
      /\ policy.costLimit \in Nat
  BY BudgetConstants DEF Policy, PolicyCheck
<1>2. c \div m \in Int /\ (c \div m) * m <= c
  <2> HIDE DEF c, m
  <2> QED
    BY <1>1
<1>3. n \in Int /\ n <= l /\ n <= c \div m
  <2> DEFINE d == c \div m
  <2>1. n = Min({Batch, l, d})
    BY DEF Grantable
  <2>2. d \in Int /\ l \in Int /\ Batch \in Int
    BY <1>1, <1>2
  <2> HIDE DEF d, l, n
  <2> QED
    BY <2>1, <2>2, LeastOfThree DEF d
<1>4. n >= 1
  BY <1>3 DEF LeaseRefused
<1> HIDE DEF n, c, l
<1>5. n * m \in Nat /\ n * m <= c
  <2> DEFINE q == c \div m
  <2>1. q \in Int /\ n <= q /\ q * m <= c
    BY <1>2, <1>3
  <2> HIDE DEF q, m
  <2>2. n * m <= q * m /\ n * m \in Nat
    BY <1>1, <1>3, <1>4, <2>1
  <2>3. q * m \in Int
    BY <1>1, <2>1
  <2> QED
    BY <1>1, <2>1, <2>2, <2>3
<1>6. Granted = [requests |-> n, cost |-> n * m, price |-> m]
  BY DEF Granted, n
<1> DEFINE k == n * m
<1>7. k \in Nat /\ k <= c /\ Granted = [requests |-> n, cost |-> k, price |-> m]
  BY <1>5, <1>6
<1> HIDE DEF k, m
<1>8. Granted.requests = n /\ Granted.cost = k /\ Granted \in Lease
  BY <1>1, <1>3, <1>4, <1>7 DEF Lease
<1> QED
  BY <1>1, <1>3, <1>7, <1>8 DEF c, l

-----------------------------------------------------------------------------
\* The tables and the memory that budget moves through.
BudgetTables ==
  /\ policy \in Policy
  /\ pool \in [Gateways -> Lease]
  /\ prefetch \in [Gateways -> Prefetch]
  /\ resolver \in [Gateways -> Reconciler]
  /\ spent \in Spending

BudgetCounters ==
  /\ registered \in [Gateways -> BOOLEAN]
  /\ policySets \in 0..MaxPolicySets
  /\ failures \in 0..MaxFailures

\* What is remembered of the overflow decisions.
OverflowInv == hybrid \in OverflowState /\ calm \in 0..Recovery /\ hybrid.low <= calm

LEMMA SplitBudget == BudgetInv <=> BudgetTables /\ BudgetCounters /\ OverflowInv /\ HardBudgetHolds
  BY DEF BudgetInv, BudgetTypeOK, BudgetTables, BudgetCounters, OverflowInv

LEMMA SplitBudgetNext ==
  BudgetTables' /\ BudgetCounters' /\ OverflowInv' /\ HardBudgetHolds' => BudgetInv'
  BY DEF BudgetInv, BudgetTypeOK, BudgetTables, BudgetCounters, OverflowInv

\* The numbers of a process's records.
LEMMA LeaseNumbers ==
  ASSUME NEW l \in Lease PROVE l.requests \in Nat /\ l.cost \in Nat /\ l.price \in Nat
  BY DEF Lease

LEMMA HeldNumbers ==
  ASSUME NEW a \in Lease, NEW b \in Prefetch, NEW c \in Reconciler
  PROVE  /\ a.requests \in Nat /\ b.lease.requests \in Nat /\ c.lease.requests \in Nat
         /\ a.cost \in Nat /\ b.lease.cost \in Nat /\ c.lease.cost \in Nat
<1>1. b.lease \in Lease /\ c.lease \in Lease
  BY DEF Prefetch, Reconciler
<1> QED
  BY <1>1, LeaseNumbers

\* When one process changes, the totals change by what it holds.
LEMMA HeldMoves ==
  ASSUME BudgetTables, NEW g \in Gateways,
         NEW a \in Lease, NEW b \in Prefetch, NEW c \in Reconciler,
         pool' = [pool EXCEPT ![g] = a],
         prefetch' = [prefetch EXCEPT ![g] = b],
         resolver' = [resolver EXCEPT ![g] = c]
  PROVE  /\ Total(HeldRequests, Gateways) \in Nat
         /\ HeldRequests[g] \in Nat
         /\ Total(HeldRequests', Gateways) = Total(HeldRequests, Gateways) - HeldRequests[g]
              + (a.requests + b.lease.requests + c.lease.requests)
         /\ Total(HeldCost, Gateways) \in Nat
         /\ HeldCost[g] \in Nat
         /\ Total(HeldCost', Gateways) = Total(HeldCost, Gateways) - HeldCost[g]
              + (a.cost + b.lease.cost + c.lease.cost)
<1> DEFINE f == HeldRequests
           h == HeldRequests'
           k == HeldCost
           m == HeldCost'
<1>1. \A x \in Gateways : pool[x] \in Lease /\ prefetch[x] \in Prefetch /\ resolver[x] \in Reconciler
  BY DEF BudgetTables
<1>2. \A x \in Gateways : f[x] \in Nat /\ k[x] \in Nat
  BY <1>1, HeldNumbers DEF HeldRequests, HeldCost
<1>3. \A x \in Gateways \ {g} : f[x] = h[x] /\ k[x] = m[x]
  BY DEF HeldRequests, HeldCost, BudgetTables
<1>4. pool'[g] = a /\ prefetch'[g] = b /\ resolver'[g] = c
  BY DEF BudgetTables
<1>5. /\ h[g] = a.requests + b.lease.requests + c.lease.requests
      /\ m[g] = a.cost + b.lease.cost + c.lease.cost
  BY <1>4 DEF HeldRequests, HeldCost
<1>6. h[g] \in Nat /\ m[g] \in Nat
  BY <1>5, HeldNumbers
<1>7. \A x \in Gateways : h[x] \in Nat /\ m[x] \in Nat
  BY <1>2, <1>3, <1>6
<1>8. IsFiniteSet(Gateways)
  BY BudgetConstants
<1> HIDE DEF f, h, k, m
<1>9. Total(h, Gateways) = Total(f, Gateways) - f[g] + h[g] /\ Total(f, Gateways) \in Nat
  BY <1>2, <1>3, <1>7, <1>8, TotalChange
<1>10. Total(m, Gateways) = Total(k, Gateways) - k[g] + m[g] /\ Total(k, Gateways) \in Nat
  BY <1>2, <1>3, <1>7, <1>8, TotalChange
<1> QED
  BY <1>2, <1>5, <1>9, <1>10 DEF f, h, k, m

\* The budget still holds when the process's share grows by no more than what
\* was reserved.
LEMMA BudgetMoves ==
  ASSUME BudgetTables, HardBudgetHolds, NEW g \in Gateways,
         NEW a \in Lease, NEW b \in Prefetch, NEW c \in Reconciler,
         pool' = [pool EXCEPT ![g] = a],
         prefetch' = [prefetch EXCEPT ![g] = b],
         resolver' = [resolver EXCEPT ![g] = c],
         policy' \in Policy, PolicyCheck(policy)', spent' \in Spending,
         spent'.requests + (a.requests + b.lease.requests + c.lease.requests) - policy'.requests
           <= spent.requests + HeldRequests[g] - policy.requests,
         spent'.cost + (a.cost + b.lease.cost + c.lease.cost) - policy'.cost
           <= spent.cost + HeldCost[g] - policy.cost
  PROVE  BudgetTables' /\ HardBudgetHolds'
<1>1. BudgetTables'
  BY DEF BudgetTables
<1> DEFINE s == spent.requests
           t == spent'.requests
           u == spent.cost
           v == spent'.cost
           p == policy.requests
           q == policy'.requests
           x == policy.cost
           y == policy'.cost
           n == a.requests + b.lease.requests + c.lease.requests
           m == a.cost + b.lease.cost + c.lease.cost
<1>2. s \in Nat /\ t \in Nat /\ u \in Nat /\ v \in Nat
  BY DEF BudgetTables, Spending
<1>3. p \in Nat /\ q \in Nat /\ x \in Nat /\ y \in Nat
  BY DEF BudgetTables, Policy
<1>4. n \in Nat /\ m \in Nat
  BY HeldNumbers
<1>5. t + n - q <= s + HeldRequests[g] - p /\ v + m - y <= u + HeldCost[g] - x
  OBVIOUS
<1>6. s + Total(HeldRequests, Gateways) <= p /\ u + Total(HeldCost, Gateways) <= x
  BY DEF HardBudgetHolds
<1>7. /\ Total(HeldRequests, Gateways) \in Nat /\ HeldRequests[g] \in Nat
      /\ Total(HeldRequests', Gateways) = Total(HeldRequests, Gateways) - HeldRequests[g] + n
      /\ Total(HeldCost, Gateways) \in Nat /\ HeldCost[g] \in Nat
      /\ Total(HeldCost', Gateways) = Total(HeldCost, Gateways) - HeldCost[g] + m
  BY HeldMoves
<1> HIDE DEF s, t, u, v, p, q, x, y, n, m
<1>8. t + Total(HeldRequests', Gateways) <= q
  BY <1>2, <1>3, <1>4, <1>5, <1>6, <1>7
<1>9. v + Total(HeldCost', Gateways) <= y
  BY <1>2, <1>3, <1>4, <1>5, <1>6, <1>7
<1> QED
  BY <1>1, <1>8, <1>9 DEF HardBudgetHolds, t, q, v, y

\* What a process holds before the step.
LEMMA HeldNow ==
  ASSUME BudgetTables, NEW g \in Gateways
  PROVE  /\ pool[g] \in Lease /\ prefetch[g] \in Prefetch /\ resolver[g] \in Reconciler
         /\ pool = [pool EXCEPT ![g] = pool[g]]
         /\ prefetch = [prefetch EXCEPT ![g] = prefetch[g]]
         /\ resolver = [resolver EXCEPT ![g] = resolver[g]]
         /\ HeldRequests[g]
              = pool[g].requests + prefetch[g].lease.requests + resolver[g].lease.requests
         /\ HeldCost[g] = pool[g].cost + prefetch[g].lease.cost + resolver[g].lease.cost
         /\ spent.requests \in Nat /\ spent.cost \in Nat
         /\ policy.requests \in Nat /\ policy.cost \in Nat
  BY DEF BudgetTables, HeldRequests, HeldCost, Spending, Policy

\* A process that gives up or completes something without spending or leasing:
\* it holds no more than before.
LEMMA BudgetRests ==
  ASSUME BudgetTables, HardBudgetHolds, NEW g \in Gateways,
         NEW a \in Lease, NEW b \in Prefetch, NEW c \in Reconciler,
         pool' = [pool EXCEPT ![g] = a],
         prefetch' = [prefetch EXCEPT ![g] = b],
         resolver' = [resolver EXCEPT ![g] = c],
         UNCHANGED <<policy, spent>>,
         a.requests + b.lease.requests + c.lease.requests <= HeldRequests[g],
         a.cost + b.lease.cost + c.lease.cost <= HeldCost[g]
  PROVE  BudgetTables' /\ HardBudgetHolds'
<1> DEFINE n == a.requests + b.lease.requests + c.lease.requests
           m == a.cost + b.lease.cost + c.lease.cost
<1>1. n \in Nat /\ m \in Nat
  BY HeldNumbers
<1>2. HeldRequests[g] \in Nat /\ HeldCost[g] \in Nat
  BY HeldMoves
<1>3. spent.requests \in Nat /\ spent.cost \in Nat /\ policy.requests \in Nat /\ policy.cost \in Nat
  BY HeldNow
<1>4. policy' \in Policy /\ PolicyCheck(policy)' /\ spent' \in Spending
  BY DEF BudgetTables, HardBudgetHolds, PolicyCheck
<1>5. n <= HeldRequests[g] /\ m <= HeldCost[g]
  OBVIOUS
<1> HIDE DEF n, m
<1>6. spent.requests + n - policy.requests <= spent.requests + HeldRequests[g] - policy.requests
  BY <1>1, <1>2, <1>3, <1>5
<1>7. spent.cost + m - policy.cost <= spent.cost + HeldCost[g] - policy.cost
  BY <1>1, <1>2, <1>3, <1>5
<1>8. /\ spent'.requests + n - policy'.requests <= spent.requests + HeldRequests[g] - policy.requests
      /\ spent'.cost + m - policy'.cost <= spent.cost + HeldCost[g] - policy.cost
  BY <1>6, <1>7
<1> QED
  BY <1>4, <1>8, BudgetMoves DEF n, m

\* A granted lease is reserved before it is held.
LEMMA BudgetLeased ==
  ASSUME BudgetTables, HardBudgetHolds, NEW g \in Gateways, LeaseExternalBudget,
         NEW b \in Prefetch, NEW c \in Reconciler,
         UNCHANGED <<pool, spent>>,
         prefetch' = [prefetch EXCEPT ![g] = b],
         resolver' = [resolver EXCEPT ![g] = c],
         \/ b.lease = Granted /\ c = resolver[g]
         \/ b = prefetch[g] /\ c.lease = Granted
  PROVE  BudgetTables' /\ HardBudgetHolds'
<1> DEFINE l == Granted
           i == policy.requests + l.requests
           j == policy.cost + l.cost
<1>1. policy \in Policy /\ PolicyCheck(policy) /\ ~LeaseRefused
  BY DEF BudgetTables, HardBudgetHolds, LeaseExternalBudget
<1>2. l \in Lease /\ i <= policy.limit /\ j <= policy.costLimit
  BY <1>1, GrantFits
<1>3. l.requests \in Nat /\ l.cost \in Nat /\ policy.requests \in Nat /\ policy.cost \in Nat
  BY <1>1, <1>2, LeaseNumbers DEF Policy
<1>4. policy' = [policy EXCEPT !.requests = i, !.cost = j]
  BY <1>1 DEF LeaseExternalBudget, Policy
<1>5. i \in Nat /\ j \in Nat
  BY <1>3
<1> HIDE DEF i, j, l
<1>6. /\ policy' \in Policy /\ policy'.requests = i /\ policy'.cost = j
      /\ policy'.limit = policy.limit /\ policy'.costLimit = policy.costLimit
      /\ policy'.price = policy.price
  BY <1>1, <1>4, <1>5 DEF Policy
<1>7. PolicyCheck(policy)'
  BY <1>1, <1>2, <1>6 DEF PolicyCheck
<1>8. /\ pool[g] \in Lease /\ prefetch[g] \in Prefetch /\ resolver[g] \in Reconciler
      /\ pool' = [pool EXCEPT ![g] = pool[g]]
      /\ spent' \in Spending /\ spent' = spent
      /\ spent.requests \in Nat /\ spent.cost \in Nat
      /\ HeldRequests[g]
           = pool[g].requests + prefetch[g].lease.requests + resolver[g].lease.requests
      /\ HeldCost[g] = pool[g].cost + prefetch[g].lease.cost + resolver[g].lease.cost
  BY HeldNow DEF BudgetTables
<1>9. /\ pool[g].requests \in Nat /\ prefetch[g].lease.requests \in Nat
      /\ resolver[g].lease.requests \in Nat
      /\ pool[g].cost \in Nat /\ prefetch[g].lease.cost \in Nat /\ resolver[g].lease.cost \in Nat
  BY <1>8, HeldNumbers
<1>10. /\ pool[g].requests + b.lease.requests + c.lease.requests <= HeldRequests[g] + l.requests
       /\ pool[g].cost + b.lease.cost + c.lease.cost <= HeldCost[g] + l.cost
  <2>1. CASE b.lease = Granted /\ c = resolver[g]
    BY <1>3, <1>8, <1>9, <2>1 DEF l
  <2>2. CASE b = prefetch[g] /\ c.lease = Granted
    BY <1>3, <1>8, <1>9, <2>2 DEF l
  <2> QED
    BY <2>1, <2>2
<1> DEFINE n == pool[g].requests + b.lease.requests + c.lease.requests
           m == pool[g].cost + b.lease.cost + c.lease.cost
<1>11. n \in Nat /\ m \in Nat /\ HeldRequests[g] \in Nat /\ HeldCost[g] \in Nat
  BY <1>8, <1>9, HeldNumbers
<1>12. n <= HeldRequests[g] + l.requests /\ m <= HeldCost[g] + l.cost
  BY <1>10
<1> HIDE DEF n, m
<1>13. /\ spent'.requests + n - policy'.requests <= spent.requests + HeldRequests[g] - policy.requests
       /\ spent'.cost + m - policy'.cost <= spent.cost + HeldCost[g] - policy.cost
  BY <1>3, <1>6, <1>8, <1>11, <1>12 DEF i, j
<1> QED
  BY <1>6, <1>7, <1>8, <1>13, BudgetMoves DEF n, m

-----------------------------------------------------------------------------
\* The records of a process at rest, and of one that is on its way.
LEMMA RestRecords ==
  /\ NoLease \in Lease /\ NoLease.requests = 0 /\ NoLease.cost = 0
  /\ IdlePrefetch \in Prefetch /\ IdlePrefetch.lease = NoLease
  /\ IdleResolver \in Reconciler /\ IdleResolver.lease = NoLease
  BY DEF NoLease, IdlePrefetch, IdleResolver, Lease, Prefetch, Reconciler

LEMMA WaitingPrefetch ==
  ASSUME NEW w \in {"leasing", "adding", "clearing"}, NEW l \in Lease
  PROVE  [pc |-> w, lease |-> l] \in Prefetch /\ [pc |-> w, lease |-> l].lease = l
  BY DEF Prefetch

LEMMA BusyResolver ==
  ASSUME NEW w \in {"idle", "evaluate", "resolve", "lease", "add"}, NEW on \in BOOLEAN, NEW l \in Lease
  PROVE  /\ [pc |-> w, budget |-> on, lease |-> l] \in Reconciler
         /\ [pc |-> w, budget |-> on, lease |-> l].lease = l
  BY DEF Reconciler

LEMMA NextResolver ==
  ASSUME NEW w \in {"idle", "evaluate", "resolve", "lease", "add"}, NEW l \in Lease
  PROVE  /\ [IdleResolver EXCEPT !.pc = w] \in Reconciler
         /\ [IdleResolver EXCEPT !.pc = w].lease = NoLease
         /\ [IdleResolver EXCEPT !.pc = w, !.lease = l] \in Reconciler
         /\ [IdleResolver EXCEPT !.pc = w, !.lease = l].lease = l
  BY RestRecords DEF IdleResolver, Reconciler

\* The resolver moves on and keeps no lease.
LEMMA ResolverRests ==
  ASSUME BudgetTables, HardBudgetHolds, NEW g \in Gateways, NEW c \in Reconciler,
         c.lease = NoLease, resolver' = [resolver EXCEPT ![g] = c],
         UNCHANGED <<policy, pool, prefetch, spent>>
  PROVE  BudgetTables' /\ HardBudgetHolds'
<1>1. /\ pool[g] \in Lease /\ prefetch[g] \in Prefetch /\ resolver[g] \in Reconciler
      /\ pool' = [pool EXCEPT ![g] = pool[g]] /\ prefetch' = [prefetch EXCEPT ![g] = prefetch[g]]
      /\ HeldRequests[g]
           = pool[g].requests + prefetch[g].lease.requests + resolver[g].lease.requests
      /\ HeldCost[g] = pool[g].cost + prefetch[g].lease.cost + resolver[g].lease.cost
  BY HeldNow
<1>2. /\ pool[g].requests \in Nat /\ prefetch[g].lease.requests \in Nat
      /\ resolver[g].lease.requests \in Nat
      /\ pool[g].cost \in Nat /\ prefetch[g].lease.cost \in Nat /\ resolver[g].lease.cost \in Nat
  BY <1>1, HeldNumbers
<1>3. c.lease.requests = 0 /\ c.lease.cost = 0
  BY RestRecords
<1>4. /\ pool[g].requests + prefetch[g].lease.requests + c.lease.requests <= HeldRequests[g]
      /\ pool[g].cost + prefetch[g].lease.cost + c.lease.cost <= HeldCost[g]
  BY <1>1, <1>2, <1>3
<1> QED
  BY <1>1, <1>4, BudgetRests

\* The prefetch moves on and keeps no lease.
LEMMA PrefetchRests ==
  ASSUME BudgetTables, HardBudgetHolds, NEW g \in Gateways, NEW b \in Prefetch,
         b.lease = NoLease, prefetch' = [prefetch EXCEPT ![g] = b],
         UNCHANGED <<policy, pool, resolver, spent>>
  PROVE  BudgetTables' /\ HardBudgetHolds'
<1>1. /\ pool[g] \in Lease /\ prefetch[g] \in Prefetch /\ resolver[g] \in Reconciler
      /\ pool' = [pool EXCEPT ![g] = pool[g]] /\ resolver' = [resolver EXCEPT ![g] = resolver[g]]
      /\ HeldRequests[g]
           = pool[g].requests + prefetch[g].lease.requests + resolver[g].lease.requests
      /\ HeldCost[g] = pool[g].cost + prefetch[g].lease.cost + resolver[g].lease.cost
  BY HeldNow
<1>2. /\ pool[g].requests \in Nat /\ prefetch[g].lease.requests \in Nat
      /\ resolver[g].lease.requests \in Nat
      /\ pool[g].cost \in Nat /\ prefetch[g].lease.cost \in Nat /\ resolver[g].lease.cost \in Nat
  BY <1>1, HeldNumbers
<1>3. b.lease.requests = 0 /\ b.lease.cost = 0
  BY RestRecords
<1>4. /\ pool[g].requests + b.lease.requests + resolver[g].lease.requests <= HeldRequests[g]
      /\ pool[g].cost + b.lease.cost + resolver[g].lease.cost <= HeldCost[g]
  BY <1>1, <1>2, <1>3
<1> QED
  BY <1>1, <1>4, BudgetRests

\* Adding a lease to the pool moves it there.
LEMMA AddedLease ==
  ASSUME NEW o \in Lease, NEW l \in Lease
  PROVE  /\ Added(o, l) \in Lease
         /\ Added(o, l).requests = o.requests + l.requests
         /\ Added(o, l).cost = o.cost + l.cost
<1> DEFINE i == o.requests + l.requests
           j == o.cost + l.cost
<1>1. i \in Nat /\ j \in Nat /\ l.price \in Nat
  BY LeaseNumbers
<1>2. Added(o, l) = [requests |-> i, cost |-> j, price |-> l.price]
  BY DEF Added
<1> HIDE DEF i, j
<1>3. Added(o, l) \in Lease /\ Added(o, l).requests = i /\ Added(o, l).cost = j
  BY <1>1, <1>2 DEF Lease
<1> QED
  BY <1>3 DEF i, j

\* BudgetPool.Authorize takes one request and its price from the pool.
LEMMA AuthorizeBudget ==
  ASSUME BudgetTables, HardBudgetHolds, NEW g \in Gateways, Authorize(g)
  PROVE  BudgetTables' /\ HardBudgetHolds'
<1> DEFINE l == pool[g]
           i == l.requests - 1
           j == l.cost - l.price
           left == [l EXCEPT !.requests = i, !.cost = j]
           n == spent.requests + 1
           m == spent.cost + l.price
<1>1. /\ l \in Lease /\ prefetch[g] \in Prefetch /\ resolver[g] \in Reconciler
      /\ prefetch = [prefetch EXCEPT ![g] = prefetch[g]]
      /\ resolver = [resolver EXCEPT ![g] = resolver[g]]
      /\ HeldRequests[g] = l.requests + prefetch[g].lease.requests + resolver[g].lease.requests
      /\ HeldCost[g] = l.cost + prefetch[g].lease.cost + resolver[g].lease.cost
      /\ spent.requests \in Nat /\ spent.cost \in Nat
      /\ policy.requests \in Nat /\ policy.cost \in Nat
  BY HeldNow
<1>2. /\ l.requests \in Nat /\ l.cost \in Nat /\ l.price \in Nat
      /\ prefetch[g].lease.requests \in Nat /\ prefetch[g].lease.cost \in Nat
      /\ resolver[g].lease.requests \in Nat /\ resolver[g].lease.cost \in Nat
  BY <1>1, LeaseNumbers, HeldNumbers
<1>3. /\ l.requests >= 1 /\ l.cost >= l.price
      /\ pool' = [pool EXCEPT ![g] = left]
      /\ spent' = [requests |-> n, cost |-> m]
      /\ prefetch' = Prefetched(g, left.requests)
      /\ UNCHANGED <<policy, resolver>>
  BY <1>1 DEF Authorize, MayAuthorize
<1>4. i \in Nat /\ j \in Nat /\ n \in Nat /\ m \in Nat
  BY <1>1, <1>2, <1>3
<1> HIDE DEF i, j, n, m
<1>5. left \in Lease /\ left.requests = i /\ left.cost = j
  BY <1>1, <1>4 DEF Lease
<1>6. spent' \in Spending /\ spent'.requests = n /\ spent'.cost = m
  BY <1>3, <1>4 DEF Spending
<1>7. PICK b \in Prefetch :
        prefetch' = [prefetch EXCEPT ![g] = b] /\ (b.lease = prefetch[g].lease \/ b.lease = NoLease)
  <2> DEFINE w == [pc |-> "leasing", lease |-> NoLease]
  <2>1. w \in Prefetch /\ w.lease = NoLease
    BY RestRecords, WaitingPrefetch
  <2>2. prefetch' = prefetch \/ prefetch' = [prefetch EXCEPT ![g] = w]
    BY <1>3 DEF Prefetched
  <2> HIDE DEF w
  <2> QED
    BY <1>1, <2>1, <2>2 DEF BudgetTables
<1>8. b.lease.requests \in Nat /\ b.lease.cost \in Nat
      /\ b.lease.requests <= prefetch[g].lease.requests /\ b.lease.cost <= prefetch[g].lease.cost
  BY <1>2, <1>7, RestRecords
<1>9. policy' \in Policy /\ PolicyCheck(policy)'
  BY <1>3 DEF BudgetTables, HardBudgetHolds, PolicyCheck
<1>10. resolver' = [resolver EXCEPT ![g] = resolver[g]]
  BY <1>1, <1>3
<1> HIDE DEF left
<1> DEFINE x == b.lease.requests
           y == b.lease.cost
           xo == prefetch[g].lease.requests
           yo == prefetch[g].lease.cost
           z == resolver[g].lease.requests
           v == resolver[g].lease.cost
<1>11. n + (i + x + z) - policy.requests <= spent.requests + (l.requests + xo + z) - policy.requests
  <2>1. x \in Nat /\ xo \in Nat /\ z \in Nat /\ x <= xo
    BY <1>2, <1>8
  <2> HIDE DEF x, xo, z
  <2> QED
    BY <1>1, <1>2, <2>1 DEF n, i
<1>12. m + (j + y + v) - policy.cost <= spent.cost + (l.cost + yo + v) - policy.cost
  <2>1. y \in Nat /\ yo \in Nat /\ v \in Nat /\ y <= yo
    BY <1>2, <1>8
  <2> HIDE DEF y, yo, v
  <2> QED
    BY <1>1, <1>2, <2>1 DEF m, j
<1>13. /\ spent'.requests + (left.requests + x + z) - policy'.requests
            <= spent.requests + HeldRequests[g] - policy.requests
       /\ spent'.cost + (left.cost + y + v) - policy'.cost
            <= spent.cost + HeldCost[g] - policy.cost
  BY <1>1, <1>3, <1>5, <1>6, <1>11, <1>12
<1>14. left \in Lease /\ b \in Prefetch /\ resolver[g] \in Reconciler /\ spent' \in Spending
       /\ pool' = [pool EXCEPT ![g] = left] /\ prefetch' = [prefetch EXCEPT ![g] = b]
  BY <1>1, <1>3, <1>5, <1>6, <1>7
<1> QED
  BY <1>9, <1>10, <1>13, <1>14, BudgetMoves

\* The background refill.
LEMMA PrefetchBudget ==
  ASSUME BudgetTables, HardBudgetHolds, NEW g \in Gateways, PrefetchStep(g)
  PROVE  BudgetTables' /\ HardBudgetHolds'
<1> DEFINE cleared == [pc |-> "clearing", lease |-> NoLease]
<1>1. cleared \in Prefetch /\ cleared.lease = NoLease
  BY RestRecords, WaitingPrefetch
<1>2. /\ pool[g] \in Lease /\ prefetch[g] \in Prefetch /\ resolver[g] \in Reconciler
      /\ resolver = [resolver EXCEPT ![g] = resolver[g]]
      /\ HeldRequests[g]
           = pool[g].requests + prefetch[g].lease.requests + resolver[g].lease.requests
      /\ HeldCost[g] = pool[g].cost + prefetch[g].lease.cost + resolver[g].lease.cost
  BY HeldNow
<1>3. CASE PrefetchLease(g)
  <2>1. UNCHANGED <<pool, resolver, spent>>
    BY <1>3 DEF PrefetchLease
  <2>2. CASE LeaseExternalBudget /\ prefetch' = [prefetch EXCEPT ![g] = [pc |-> "adding", lease |-> Granted]]
    <3> DEFINE b == [pc |-> "adding", lease |-> Granted]
    <3>1. Granted \in Lease
      BY <2>2, GrantFits DEF LeaseExternalBudget, BudgetTables, HardBudgetHolds
    <3>2. b \in Prefetch /\ b.lease = Granted
      BY <3>1, WaitingPrefetch
    <3>3. resolver' = [resolver EXCEPT ![g] = resolver[g]]
      BY <1>2, <2>1
    <3> HIDE DEF b
    <3> QED
      BY <1>2, <2>1, <2>2, <3>2, <3>3, BudgetLeased DEF b
  <2>3. CASE policy' = policy /\ prefetch' = [prefetch EXCEPT ![g] = cleared]
    <3> HIDE DEF cleared
    <3> QED
      BY <1>1, <2>1, <2>3, PrefetchRests
  <2> QED
    BY <1>3, <2>2, <2>3 DEF PrefetchLease
<1>4. CASE PrefetchAdd(g)
  <2> DEFINE a == Added(pool[g], prefetch[g].lease)
  <2>1. /\ pool' = [pool EXCEPT ![g] = a] /\ prefetch' = [prefetch EXCEPT ![g] = cleared]
        /\ UNCHANGED <<policy, spent>> /\ resolver' = [resolver EXCEPT ![g] = resolver[g]]
    BY <1>2, <1>4 DEF PrefetchAdd
  <2>2. prefetch[g].lease \in Lease
    BY <1>2 DEF Prefetch
  <2>3. /\ a \in Lease /\ a.requests = pool[g].requests + prefetch[g].lease.requests
        /\ a.cost = pool[g].cost + prefetch[g].lease.cost
    BY <1>2, <2>2, AddedLease
  <2>4. /\ pool[g].requests \in Nat /\ prefetch[g].lease.requests \in Nat
        /\ resolver[g].lease.requests \in Nat
        /\ pool[g].cost \in Nat /\ prefetch[g].lease.cost \in Nat /\ resolver[g].lease.cost \in Nat
    BY <1>2, HeldNumbers
  <2>5. cleared.lease.requests = 0 /\ cleared.lease.cost = 0
    BY <1>1, RestRecords
  <2> HIDE DEF a, cleared
  <2>6. /\ a.requests + cleared.lease.requests + resolver[g].lease.requests <= HeldRequests[g]
        /\ a.cost + cleared.lease.cost + resolver[g].lease.cost <= HeldCost[g]
    BY <1>2, <2>3, <2>4, <2>5
  <2> QED
    BY <1>1, <1>2, <2>1, <2>3, <2>6, BudgetRests
<1>5. CASE PrefetchClear(g)
  <2>1. /\ prefetch' = [prefetch EXCEPT ![g] = IdlePrefetch]
        /\ UNCHANGED <<policy, pool, resolver, spent>>
    BY <1>5 DEF PrefetchClear
  <2> QED
    BY <2>1, RestRecords, PrefetchRests
<1> QED
  BY <1>3, <1>4, <1>5 DEF PrefetchStep

\* The reconciler.
LEMMA ResolverBudget ==
  ASSUME BudgetTables, HardBudgetHolds, NEW g \in Gateways, ResolverStep(g)
  PROVE  BudgetTables' /\ HardBudgetHolds'
<1>1. /\ pool[g] \in Lease /\ prefetch[g] \in Prefetch /\ resolver[g] \in Reconciler
      /\ prefetch = [prefetch EXCEPT ![g] = prefetch[g]]
      /\ HeldRequests[g]
           = pool[g].requests + prefetch[g].lease.requests + resolver[g].lease.requests
      /\ HeldCost[g] = pool[g].cost + prefetch[g].lease.cost + resolver[g].lease.cost
  BY HeldNow
<1>2. ASSUME NEW w \in {"idle", "evaluate", "resolve", "lease", "add"}, Resolver(g, w),
             UNCHANGED <<policy, pool, prefetch, spent>>
      PROVE  BudgetTables' /\ HardBudgetHolds'
  <2> DEFINE c == [IdleResolver EXCEPT !.pc = w]
  <2>1. c \in Reconciler /\ c.lease = NoLease
    BY RestRecords, NextResolver
  <2>2. resolver' = [resolver EXCEPT ![g] = c]
    BY <1>2 DEF Resolver
  <2> HIDE DEF c
  <2> QED
    BY <1>2, <2>1, <2>2, ResolverRests
<1>3. CASE ReadBudget(g)
  <2> DEFINE on == \/ pool[g].requests > 0
                   \/ policy.requests < policy.limit /\ policy.cost < policy.costLimit
             c == [pc |-> "evaluate", budget |-> on, lease |-> NoLease]
  <2>1. /\ resolver' = [resolver EXCEPT ![g] = c]
        /\ UNCHANGED <<policy, pool, prefetch, spent>>
    BY <1>3 DEF ReadBudget
  <2>2. on \in BOOLEAN
    OBVIOUS
  <2>3. c \in Reconciler /\ c.lease = NoLease
    BY <2>2, RestRecords, BusyResolver
  <2> HIDE DEF c
  <2> QED
    BY <2>1, <2>3, ResolverRests
<1>4. CASE EvaluateOverflow(g)
  <2>1. UNCHANGED <<policy, pool, prefetch, spent>>
    BY <1>4 DEF EvaluateOverflow
  <2>2. Resolver(g, "idle") \/ Resolver(g, "resolve")
    BY <1>4 DEF EvaluateOverflow
  <2> QED
    BY <1>2, <2>1, <2>2
<1>5. CASE Resolve(g)
  <2>1. UNCHANGED <<policy, pool, prefetch, spent>> /\ (Resolver(g, "idle") \/ Resolver(g, "lease"))
    BY <1>5 DEF Resolve
  <2> QED
    BY <1>2, <2>1
<1>6. CASE ResolveLease(g)
  <2>1. UNCHANGED <<pool, prefetch, spent>>
    BY <1>6 DEF ResolveLease
  <2> DEFINE c == [IdleResolver EXCEPT !.pc = "add", !.lease = Granted]
  <2>2. CASE LeaseExternalBudget /\ resolver' = [resolver EXCEPT ![g] = c]
    <3>1. Granted \in Lease
      BY <2>2, GrantFits DEF LeaseExternalBudget, BudgetTables, HardBudgetHolds
    <3>2. c \in Reconciler /\ c.lease = Granted
      BY <3>1, NextResolver
    <3>3. prefetch' = [prefetch EXCEPT ![g] = prefetch[g]]
      BY <1>1, <2>1
    <3> HIDE DEF c
    <3> QED
      BY <1>1, <2>1, <2>2, <3>2, <3>3, BudgetLeased
  <2>3. CASE policy' = policy /\ Resolver(g, "idle")
    BY <1>2, <2>1, <2>3
  <2> QED
    BY <1>6, <2>2, <2>3 DEF ResolveLease
<1>7. CASE ResolveAdd(g)
  <2> DEFINE a == Added(pool[g], resolver[g].lease)
             c == [IdleResolver EXCEPT !.pc = "idle"]
  <2>1. /\ pool' = [pool EXCEPT ![g] = a] /\ resolver' = [resolver EXCEPT ![g] = c]
        /\ UNCHANGED <<policy, spent>> /\ prefetch' = [prefetch EXCEPT ![g] = prefetch[g]]
    BY <1>1, <1>7 DEF ResolveAdd, Resolver
  <2>2. resolver[g].lease \in Lease
    BY <1>1 DEF Reconciler
  <2>3. /\ a \in Lease /\ a.requests = pool[g].requests + resolver[g].lease.requests
        /\ a.cost = pool[g].cost + resolver[g].lease.cost
    BY <1>1, <2>2, AddedLease
  <2>4. /\ pool[g].requests \in Nat /\ prefetch[g].lease.requests \in Nat
        /\ resolver[g].lease.requests \in Nat
        /\ pool[g].cost \in Nat /\ prefetch[g].lease.cost \in Nat /\ resolver[g].lease.cost \in Nat
    BY <1>1, HeldNumbers
  <2>5. c \in Reconciler /\ c.lease.requests = 0 /\ c.lease.cost = 0
    BY RestRecords, NextResolver
  <2> HIDE DEF a, c
  <2>6. /\ a.requests + prefetch[g].lease.requests + c.lease.requests <= HeldRequests[g]
        /\ a.cost + prefetch[g].lease.cost + c.lease.cost <= HeldCost[g]
    BY <1>1, <2>3, <2>4, <2>5
  <2> QED
    BY <1>1, <2>1, <2>3, <2>5, <2>6, BudgetRests
<1> QED
  BY <1>3, <1>4, <1>5, <1>6, <1>7 DEF ResolverStep

\* A restarted process holds nothing.
LEMMA RestartBudget ==
  ASSUME BudgetTables, HardBudgetHolds, NEW g \in Gateways, GatewayRestarts(g)
  PROVE  BudgetTables' /\ HardBudgetHolds'
<1>1. /\ pool' = [pool EXCEPT ![g] = NoLease]
      /\ prefetch' = [prefetch EXCEPT ![g] = IdlePrefetch]
      /\ resolver' = [resolver EXCEPT ![g] = IdleResolver]
      /\ UNCHANGED <<policy, spent>>
  BY DEF GatewayRestarts
<1>2. HeldRequests[g] \in Nat /\ HeldCost[g] \in Nat
  BY <1>1, RestRecords, HeldMoves
<1>3. /\ NoLease.requests + IdlePrefetch.lease.requests + IdleResolver.lease.requests <= HeldRequests[g]
      /\ NoLease.cost + IdlePrefetch.lease.cost + IdleResolver.lease.cost <= HeldCost[g]
  BY <1>2, RestRecords
<1> QED
  BY <1>1, <1>3, RestRecords, BudgetRests

\* An operator changes limits and price, never below what is reserved.
LEMMA SetBudget ==
  ASSUME BudgetTables, HardBudgetHolds, SetExternalTargetPolicy
  PROVE  BudgetTables' /\ HardBudgetHolds'
<1>1. PICK on \in BOOLEAN, mode \in {"health", "health_and_queue"}, l \in Limits, c \in CostLimits,
           m \in Prices :
           LET p == [policy EXCEPT !.enabled = on, !.mode = mode, !.limit = l,
                                   !.costLimit = c, !.price = m] IN
           PolicyCheck(p) /\ policy' = p
  BY DEF SetExternalTargetPolicy
<1>2. l \in Nat \ {0} /\ c \in Nat \ {0} /\ m \in Nat \ {0}
  BY BudgetConstants
<1>3. policy' \in Policy /\ policy'.requests = policy.requests /\ policy'.cost = policy.cost
  BY <1>1, <1>2 DEF BudgetTables, Policy
<1>4. UNCHANGED <<pool, prefetch, resolver, spent>> /\ PolicyCheck(policy)'
  BY <1>1 DEF SetExternalTargetPolicy, PolicyCheck
<1>5. HeldRequests' = HeldRequests /\ HeldCost' = HeldCost
  BY <1>4 DEF HeldRequests, HeldCost
<1> QED
  BY <1>3, <1>4, <1>5 DEF BudgetTables, HardBudgetHolds

\* Nothing that budget moves through changes.
LEMMA BudgetStays ==
  ASSUME BudgetTables, HardBudgetHolds, UNCHANGED <<policy, pool, prefetch, resolver, spent>>
  PROVE  BudgetTables' /\ HardBudgetHolds'
<1>1. HeldRequests' = HeldRequests /\ HeldCost' = HeldCost
  BY DEF HeldRequests, HeldCost
<1> QED
  BY <1>1 DEF BudgetTables, HardBudgetHolds, PolicyCheck

-----------------------------------------------------------------------------
\* One observation of the overflow engine.
LEMMA ObservedFacts ==
  ASSUME NEW p \in OverflowPolicy, NEW s \in OverflowState, NEW trouble \in BOOLEAN
  PROVE  LET d == Observed(p, s, trouble) IN
         /\ d.high \in Nat /\ d.route \in {"external", "primary"}
         /\ d.low = IF trouble THEN 0 ELSE Counted(s.low, p.recovery)
         /\ s.external /\ d.route # "external" => ~trouble /\ d.low >= p.recovery
<1>1. s.high \in Nat /\ s.low \in Nat /\ s.external \in BOOLEAN /\ s.cooling \in BOOLEAN
      /\ p.breach \in Nat /\ p.recovery \in Nat
  BY DEF OverflowState, OverflowPolicy
<1> DEFINE high == IF trouble THEN Counted(s.high, p.breach) ELSE 0
           low == IF trouble THEN 0 ELSE Counted(s.low, p.recovery)
           leave == ~trouble /\ low >= p.recovery /\ ~s.cooling
           d == Observed(p, s, trouble)
<1>2. high \in Nat
  BY <1>1 DEF Counted
<1>3. \/ d = [route |-> "primary", action |-> "recover", high |-> high, low |-> low] /\ leave
      \/ d = [route |-> "external", action |-> "hold", high |-> high, low |-> low]
      \/ d = [route |-> "external", action |-> "overflow", high |-> high, low |-> low]
      \/ d = [route |-> "primary", action |-> "hold", high |-> high, low |-> low] /\ ~s.external
  BY DEF Observed, Decision
<1> HIDE DEF d, high
<1>4. d.high = high /\ d.low = low /\ d.route \in {"external", "primary"}
      /\ (s.external /\ d.route # "external" => leave)
  <2> HIDE DEF low, leave
  <2> QED
    BY <1>3
<1>5. /\ d.high \in Nat /\ d.route \in {"external", "primary"}
      /\ d.low = IF trouble THEN 0 ELSE Counted(s.low, p.recovery)
      /\ s.external /\ d.route # "external" => ~trouble /\ d.low >= p.recovery
  BY <1>2, <1>4
<1> QED
  BY <1>5 DEF d

\* EvaluateOverflow as ExternalBudget uses it.
PolicyOf(g) == [mode |-> policy.mode, breach |-> Breach, recovery |-> Recovery,
                budget |-> resolver[g].budget]
CalmAfter(g, sig) ==
  CASE resolver[g].budget /\ Troubled(sig) -> 0
    [] resolver[g].budget /\ Quiet(sig) -> Counted(calm, Recovery)
    [] OTHER -> calm

\* A quiet observation counted in step keeps the remembered count behind.
LEMMA CountedBehind ==
  ASSUME NEW low \in Nat, NEW c \in 0..Recovery, low <= c
  PROVE  /\ Counted(low, Recovery) \in Nat /\ Counted(c, Recovery) \in 0..Recovery
         /\ Counted(low, Recovery) <= Counted(c, Recovery)
  BY BudgetConstants DEF Counted

LEMMA EvaluateFacts ==
  ASSUME BudgetTables, OverflowInv, NEW g \in Gateways, NEW sig \in OverflowSignal
  PROVE  LET d == Evaluate(PolicyOf(g), hybrid, sig) IN
         /\ d.high \in Nat /\ d.low \in Nat
         /\ CalmAfter(g, sig) \in 0..Recovery /\ d.low <= CalmAfter(g, sig)
         /\ hybrid.external /\ d.route # "external" /\ resolver[g].budget
              => CalmAfter(g, sig) >= Recovery
<1> DEFINE p == PolicyOf(g)
           s == hybrid
           d == Evaluate(p, s, sig)
           c == CalmAfter(g, sig)
<1>1. policy \in Policy /\ resolver[g] \in Reconciler
  BY DEF BudgetTables
<1>2. policy.mode \in {"health", "health_and_queue"} /\ resolver[g].budget \in BOOLEAN
  BY <1>1 DEF Policy, Reconciler
<1>3. p \in OverflowPolicy /\ p.mode = policy.mode /\ p.budget = resolver[g].budget
      /\ p.recovery = Recovery
  BY <1>2, BudgetConstants DEF PolicyOf, OverflowPolicy
<1>4. s \in OverflowState /\ s.low \in Nat /\ s.high \in Nat /\ s.low <= calm /\ calm \in 0..Recovery
      /\ Recovery \in Nat
  BY BudgetConstants DEF OverflowInv, OverflowState
<1>5. sig.healthy \in BOOLEAN /\ sig.queue \in {"missing", "low", "high"}
  BY DEF OverflowSignal
<1>6. ASSUME NEW t \in BOOLEAN, d = Observed(p, s, t), resolver[g].budget,
             c = IF t THEN 0 ELSE Counted(calm, Recovery)
      PROVE  /\ d.high \in Nat /\ d.low \in Nat /\ c \in 0..Recovery /\ d.low <= c
             /\ s.external /\ d.route # "external" => c >= Recovery
  <2>1. /\ d.high \in Nat /\ d.low = IF t THEN 0 ELSE Counted(s.low, p.recovery)
        /\ s.external /\ d.route # "external" => ~t /\ d.low >= p.recovery
    BY <1>3, <1>4, <1>6, ObservedFacts
  <2> HIDE DEF p, d, c
  <2>2. CASE t
    <3>1. d.low = 0 /\ c = 0 /\ ~(s.external /\ d.route # "external")
      BY <1>6, <2>1, <2>2, Zenon
    <3> QED
      BY <1>4, <2>1, <3>1
  <2>3. CASE ~t
    <3>1. d.low = Counted(s.low, Recovery) /\ c = Counted(calm, Recovery)
      BY <1>3, <1>6, <2>1, <2>3
    <3>2. d.low \in Nat /\ c \in 0..Recovery /\ d.low <= c
      BY <1>4, <3>1, CountedBehind
    <3> QED
      BY <1>3, <1>4, <2>1, <2>3, <3>2
  <2> QED
    BY <2>2, <2>3
<1>7. CASE ~resolver[g].budget
  <2>1. c = calm
    BY <1>7 DEF CalmAfter
  <2>2. d = Denied(s, sig)
    BY <1>3, <1>7 DEF Evaluate
  <2>3. d.high = s.high /\ d.low = s.low
    BY <1>5, <2>2 DEF Denied, Decision
  <2> QED
    BY <1>4, <1>7, <2>1, <2>3
<1>8. CASE resolver[g].budget /\ policy.mode = "health"
  <2>1. d = Observed(p, s, ~sig.healthy)
    BY <1>3, <1>8 DEF Evaluate
  <2>2. c = IF ~sig.healthy THEN 0 ELSE Counted(calm, Recovery)
    BY <1>5, <1>8 DEF CalmAfter, Troubled, Quiet
  <2>3. (~sig.healthy) \in BOOLEAN
    BY <1>5
  <2> HIDE DEF c, d
  <2> QED
    BY <1>6, <1>8, <2>1, <2>2, <2>3 DEF c, d
<1>9. CASE resolver[g].budget /\ policy.mode = "health_and_queue"
  <2>1. CASE ~sig.healthy
    <3>1. d = Decision("external", "overflow", 0, 0)
      BY <1>3, <1>9, <2>1 DEF Evaluate
    <3>2. c = 0
      BY <1>9, <2>1 DEF CalmAfter, Troubled, Quiet
    <3> QED
      BY <1>4, <3>1, <3>2 DEF Decision
  <2>2. CASE sig.healthy /\ sig.queue = "missing"
    <3>1. d = Decision(IF s.external THEN "external" ELSE "primary", "hold", s.high, s.low)
      BY <1>3, <1>9, <2>2 DEF Evaluate
    <3>2. c = calm
      BY <1>9, <2>2 DEF CalmAfter, Troubled, Quiet
    <3> QED
      BY <1>4, <3>1, <3>2 DEF Decision
  <2>3. CASE sig.healthy /\ sig.queue # "missing"
    <3>1. d = Observed(p, s, sig.queue = "high")
      BY <1>3, <1>9, <2>3 DEF Evaluate
    <3>2. c = IF sig.queue = "high" THEN 0 ELSE Counted(calm, Recovery)
      BY <1>5, <1>9, <2>3 DEF CalmAfter, Troubled, Quiet
    <3>3. (sig.queue = "high") \in BOOLEAN
      OBVIOUS
    <3> HIDE DEF c, d
    <3> QED
      BY <1>6, <1>9, <3>1, <3>2, <3>3 DEF c, d
  <2> QED
    BY <1>5, <2>1, <2>2, <2>3
<1> QED
  BY <1>2, <1>7, <1>8, <1>9

\* The remembered state keeps its type and its place behind the observations,
\* and a route that goes back was preceded by enough of them.
LEMMA EvaluateInv ==
  ASSUME BudgetTables, OverflowInv, NEW g \in Gateways, EvaluateOverflow(g)
  PROVE  /\ OverflowInv'
         /\ hybrid.external /\ ~hybrid'.external
              => calm' >= Recovery \/ (resolver[g].pc = "evaluate" /\ ~resolver[g].budget)
<1>1. CASE UNCHANGED <<hybrid, calm>>
  BY <1>1 DEF OverflowInv
<1>2. ASSUME NEW sig \in OverflowSignal,
             hybrid' = Remembered(hybrid, Evaluate(PolicyOf(g), hybrid, sig)),
             calm' = CalmAfter(g, sig)
      PROVE  /\ OverflowInv'
             /\ hybrid.external /\ ~hybrid'.external
                  => calm' >= Recovery \/ (resolver[g].pc = "evaluate" /\ ~resolver[g].budget)
  <2> DEFINE d == Evaluate(PolicyOf(g), hybrid, sig)
             x == hybrid.cooling \/ (d.route = "external") # hybrid.external
  <2>1. /\ d.high \in Nat /\ d.low \in Nat
        /\ calm' \in 0..Recovery /\ d.low <= calm'
        /\ hybrid.external /\ d.route # "external" /\ resolver[g].budget => calm' >= Recovery
    BY <1>2, EvaluateFacts
  <2>2. x \in BOOLEAN
    BY DEF OverflowInv, OverflowState
  <2>3. hybrid' = [external |-> d.route = "external", high |-> d.high, low |-> d.low, cooling |-> x]
    BY <1>2 DEF Remembered
  <2> HIDE DEF d, x
  <2>4. hybrid' \in OverflowState /\ hybrid'.low = d.low /\ (hybrid'.external <=> d.route = "external")
    BY <2>1, <2>2, <2>3 DEF OverflowState
  <2>5. resolver[g].pc = "evaluate"
    BY DEF EvaluateOverflow
  <2>6. OverflowInv'
    BY <2>1, <2>4 DEF OverflowInv
  <2>7. ASSUME hybrid.external, ~hybrid'.external
        PROVE  calm' >= Recovery \/ (resolver[g].pc = "evaluate" /\ ~resolver[g].budget)
    <3>1. d.route # "external"
      BY <2>4, <2>7
    <3> QED
      BY <2>1, <2>5, <2>7, <3>1, Zenon
  <2> QED
    BY <2>6, <2>7
<1> QED
  BY <1>1, <1>2 DEF EvaluateOverflow, PolicyOf, CalmAfter

\* Only EvaluateOverflow and the end of the cooldown touch what is remembered.
LEMMA OverflowStays ==
  ASSUME OverflowInv, UNCHANGED <<hybrid, calm>> PROVE OverflowInv'
  BY DEF OverflowInv

LEMMA CooldownInv ==
  ASSUME OverflowInv, CooldownElapses PROVE OverflowInv' /\ hybrid'.external = hybrid.external
<1>1. hybrid' = [hybrid EXCEPT !.cooling = FALSE] /\ calm' = calm /\ hybrid \in OverflowState
  BY DEF CooldownElapses, OverflowInv
<1>2. hybrid' \in OverflowState /\ hybrid'.low = hybrid.low /\ hybrid'.external = hybrid.external
  BY <1>1 DEF OverflowState
<1> QED
  BY <1>1, <1>2 DEF OverflowInv

\* Every step keeps the registrations and the bounds.
LEMMA CountersStep ==
  ASSUME BudgetCounters, [BudgetNext]_budgetVars PROVE BudgetCounters'
<1> USE DEF BudgetCounters
<1>1. MaxPolicySets \in Nat /\ MaxFailures \in Nat
  BY BudgetConstants
<1>2. CASE SetExternalTargetPolicy
  BY <1>1, <1>2 DEF SetExternalTargetPolicy
<1>3. CASE CooldownElapses
  BY <1>3 DEF CooldownElapses
<1>4. ASSUME NEW g \in Gateways, Authorize(g) PROVE BudgetCounters'
  BY <1>4 DEF Authorize
<1>5. ASSUME NEW g \in Gateways, PrefetchStep(g) PROVE BudgetCounters'
  BY <1>1, <1>5 DEF PrefetchStep, PrefetchLease, PrefetchAdd, PrefetchClear
<1>6. ASSUME NEW g \in Gateways, ResolverStep(g) PROVE BudgetCounters'
  <2>1. CASE ReadBudget(g) \/ EvaluateOverflow(g) \/ ResolveAdd(g)
    BY <2>1 DEF ReadBudget, EvaluateOverflow, ResolveAdd
  <2>2. CASE Resolve(g)
    <3>1. registered' \in [Gateways -> BOOLEAN] /\ policySets' = policySets
      BY <2>2 DEF Resolve
    <3>2. failures' = failures \/ (failures < MaxFailures /\ failures' = failures + 1)
      BY <2>2 DEF Resolve
    <3> QED
      BY <1>1, <3>1, <3>2
  <2>3. CASE ResolveLease(g)
    BY <1>1, <2>3 DEF ResolveLease
  <2> QED
    BY <1>6, <2>1, <2>2, <2>3 DEF ResolverStep
<1>7. ASSUME NEW g \in Gateways, GatewayRestarts(g) PROVE BudgetCounters'
  BY <1>1, <1>7 DEF GatewayRestarts
<1>8. CASE UNCHANGED budgetVars
  BY <1>8 DEF budgetVars
<1> QED
  BY <1>2, <1>3, <1>4, <1>5, <1>6, <1>7, <1>8 DEF BudgetNext

\* Every step keeps the budget.
LEMMA BudgetStep ==
  ASSUME BudgetTables, HardBudgetHolds, [BudgetNext]_budgetVars
  PROVE  BudgetTables' /\ HardBudgetHolds'
<1>1. CASE SetExternalTargetPolicy
  BY <1>1, SetBudget
<1>2. CASE CooldownElapses
  BY <1>2, BudgetStays DEF CooldownElapses
<1>3. ASSUME NEW g \in Gateways,
             Authorize(g) \/ PrefetchStep(g) \/ ResolverStep(g) \/ GatewayRestarts(g)
      PROVE  BudgetTables' /\ HardBudgetHolds'
  BY <1>3, AuthorizeBudget, PrefetchBudget, ResolverBudget, RestartBudget
<1>4. CASE UNCHANGED budgetVars
  BY <1>4, BudgetStays DEF budgetVars
<1> QED
  BY <1>1, <1>2, <1>3, <1>4 DEF BudgetNext

\* Every step keeps the remembered count behind the observations, and goes back
\* from the external route only after enough of them or without budget.
Recovers ==
  hybrid.external /\ ~hybrid'.external => calm' >= Recovery \/ \E g \in Gateways :
    resolver[g].pc = "evaluate" /\ ~resolver[g].budget

LEMMA OverflowStep ==
  ASSUME BudgetTables, OverflowInv, [BudgetNext]_budgetVars
  PROVE  OverflowInv' /\ Recovers
<1>1. ASSUME UNCHANGED <<hybrid, calm>> PROVE OverflowInv' /\ Recovers
  BY <1>1, OverflowStays DEF Recovers
<1>2. CASE SetExternalTargetPolicy
  BY <1>1, <1>2 DEF SetExternalTargetPolicy
<1>3. CASE CooldownElapses
  BY <1>3, CooldownInv DEF Recovers
<1>4. ASSUME NEW g \in Gateways, Authorize(g) \/ GatewayRestarts(g) PROVE OverflowInv' /\ Recovers
  BY <1>1, <1>4 DEF Authorize, GatewayRestarts
<1>5. ASSUME NEW g \in Gateways, PrefetchStep(g) PROVE OverflowInv' /\ Recovers
  BY <1>1, <1>5 DEF PrefetchStep, PrefetchLease, PrefetchAdd, PrefetchClear
<1>6. ASSUME NEW g \in Gateways, EvaluateOverflow(g) PROVE OverflowInv' /\ Recovers
  BY <1>6, EvaluateInv DEF Recovers
<1>7. ASSUME NEW g \in Gateways, ReadBudget(g) \/ Resolve(g) \/ ResolveLease(g) \/ ResolveAdd(g)
      PROVE  OverflowInv' /\ Recovers
  BY <1>1, <1>7 DEF ReadBudget, Resolve, ResolveLease, ResolveAdd
<1>8. CASE UNCHANGED budgetVars
  BY <1>1, <1>8 DEF budgetVars
<1> QED
  BY <1>2, <1>3, <1>4, <1>5, <1>6, <1>7, <1>8 DEF BudgetNext, ResolverStep

\* No process holds anything at the start.
LEMMA BudgetStart == ASSUME BudgetInit PROVE BudgetInv
<1>1. \A g \in Gateways : pool[g] = NoLease /\ prefetch[g] = IdlePrefetch /\ resolver[g] = IdleResolver
  BY DEF BudgetInit
<1>2. \A g \in Gateways : HeldRequests[g] = 0 /\ HeldCost[g] = 0
  BY <1>1, RestRecords DEF HeldRequests, HeldCost
<1>3. Total(HeldRequests, Gateways) = 0 /\ Total(HeldCost, Gateways) = 0
  BY <1>2, TotalZero
<1>4. PICK mode \in {"health", "health_and_queue"}, l \in Limits, c \in CostLimits, m \in Prices :
        /\ m <= c
        /\ policy = [enabled |-> TRUE, mode |-> mode, limit |-> l, costLimit |-> c,
                     price |-> m, requests |-> 0, cost |-> 0]
  BY DEF BudgetInit
<1>5. l \in Nat \ {0} /\ c \in Nat \ {0} /\ m \in Nat \ {0}
  BY BudgetConstants
<1>6. policy \in Policy /\ PolicyCheck(policy) /\ policy.requests = 0 /\ policy.cost = 0
  BY <1>4, <1>5 DEF Policy, PolicyCheck
<1>7. spent \in Spending /\ spent.requests = 0 /\ spent.cost = 0
  BY DEF BudgetInit, Spending
<1>8. BudgetTables
  BY <1>6, <1>7, RestRecords DEF BudgetTables, BudgetInit
<1>9. HardBudgetHolds
  BY <1>3, <1>6, <1>7 DEF HardBudgetHolds
<1>10. BudgetCounters /\ OverflowInv
  BY BudgetConstants DEF BudgetInit, BudgetCounters, OverflowInv, OverflowState, NoOverflow
<1> QED
  BY <1>8, <1>9, <1>10, SplitBudget

LEMMA BudgetInvStep == BudgetInv /\ [BudgetNext]_budgetVars => BudgetInv'
  BY SplitBudget, SplitBudgetNext, BudgetStep, OverflowStep, CountersStep

\* The inductive invariant holds throughout.
THEOREM BudgetInvariance == BudgetSpec => []BudgetInv
  BY BudgetStart, BudgetInvStep, PTL DEF BudgetSpec

\* The policy row, the pools and the reconcilers keep their types.
THEOREM BudgetTypes == BudgetSpec => []BudgetTypeOK
<1>1. BudgetInv => BudgetTypeOK
  BY DEF BudgetInv
<1> QED
  BY <1>1, BudgetInvariance, PTL

\* However many processes lease, prefetch, spend and restart while an operator
\* changes limits and price, what was authorized and what is still leased stays
\* within the reservations, and these within the limits.
THEOREM HardBudget == BudgetSpec => []HardBudgetHolds
<1>1. BudgetInv => HardBudgetHolds
  BY DEF BudgetInv
<1> QED
  BY <1>1, BudgetInvariance, PTL

\* Traffic returns to the primary only after enough quiet observations in a row,
\* unless the budget is exhausted.
THEOREM RecoveryIsCalm == BudgetSpec => RecoveryNeedsCalm
<1>1. BudgetInv /\ [BudgetNext]_budgetVars
        => [hybrid.external /\ ~hybrid'.external => calm' >= Recovery \/ \E g \in Gateways :
              resolver[g].pc = "evaluate" /\ ~resolver[g].budget]_budgetVars
  BY SplitBudget, OverflowStep DEF Recovers
<1> QED
  BY <1>1, BudgetInvariance, PTL DEF BudgetSpec, RecoveryNeedsCalm

-----------------------------------------------------------------------------
(* Sandboxes: the invariant.                                              *)

\* Nothing happens at a time that has not come.
TimeInv ==
  /\ metered <= sandbox.since /\ sandbox.since <= clock
  /\ customer.since <= clock /\ customer.at <= clock
  /\ sweeper.since <= clock /\ sweeper.at <= clock /\ sweeper.now <= clock
  /\ creator.pc # "idle" => clock <= LastCreate

\* How far the creation is when the hold, or the sandbox, is there.
Unstarted == {"idle", "activate", "undo_compute", "undo_workspace", "undo_status", "undo_hold"}
Reserving == {"workspace", "refs", "compute", "track", "activate"}
CreationInv ==
  /\ hold.activated => creator.pc = "idle" /\ sandbox.sb
  /\ sandbox.sb => hold.state # "none" /\ creator.pc \in Unstarted
  /\ creator.pc \in Reserving => hold.state # "none"
  /\ creator.pc = "activate" => sandbox.sb

\* What the customer's call and the reconciler's job imply.
JobsInv ==
  /\ customer.pc = "workspace" \/ customer.pc = "close" => customer.action \in {"remove", "delete"}
  /\ customer.pc = "record" /\ customer.action = "observe" /\ customer.result = customer.status
       => customer.result = "unknown"
  /\ sweeper.job = "activated" => hold.activated
  /\ sweeper.job = "unreserved" => hold.state = "released"
  /\ sweeper.pc \in {"get", "observed"} => sweeper.job \in {"activated", "unreserved"}

\* Between the deletion and the settlement, and after it, nobody brings the row
\* back to running.
CustomerDeleted ==
  customer.pc = "close" /\ customer.action = "delete" /\ hold.state # "released" =>
    /\ sandbox.deleted /\ sandbox.status # "running"
    /\ hold.activated \/ creator.pc = "activate" => sandbox.status = "deleted"
SweeperDeleted ==
  sweeper.pc = "close" /\ sweeper.job = "activated" =>
    /\ sandbox.deleted /\ sandbox.status # "running"
    /\ sandbox.status = "deleted" \/ customer.pc = "idle"
Settled ==
  hold.state = "settled" =>
    /\ hold.charged = Min({metered, Lifetime})
    /\ sandbox.deleted /\ sandbox.status # "running"
    /\ IF hold.activated
       THEN /\ customer.pc = "idle" \/ sweeper.pc = "idle"
            /\ sandbox.status = "deleted" \/ (customer.pc = "idle" /\ sweeper.pc = "idle")
       ELSE customer.pc = "idle"

SandboxInv ==
  SandboxTypeOK /\ TimeInv /\ CreationInv /\ JobsInv /\ CustomerDeleted /\ SweeperDeleted /\ Settled

-----------------------------------------------------------------------------
(* Sandboxes: the times and the records.                                   *)

LEMMA MaxOfTwo ==
  ASSUME NEW a \in Nat, NEW b \in Nat
  PROVE  /\ Max({a, b}) \in Nat /\ Max({a, b}) >= a /\ Max({a, b}) >= b
         /\ Max({a, b}) = a \/ Max({a, b}) = b
<1>1. \E x \in {a, b} : \A y \in {a, b} : x >= y
  OBVIOUS
<1>2. Max({a, b}) \in {a, b} /\ \A y \in {a, b} : Max({a, b}) >= y
  BY <1>1, Zenon DEF Max
<1> QED BY <1>2

LEMMA MinOfTwo ==
  ASSUME NEW a \in Nat, NEW b \in Nat
  PROVE  Min({a, b}) \in 0..b
<1>1. \E x \in {a, b} : \A y \in {a, b} : x <= y
  OBVIOUS
<1>2. Min({a, b}) \in {a, b} /\ \A y \in {a, b} : Min({a, b}) <= y
  BY <1>1, Zenon DEF Min
<1> QED BY <1>2

LEMMA TimesAre == MaxClock \in Nat /\ Lifetime \in Nat /\ LastCreate \in Nat /\ LastCreate + Lifetime <= MaxClock
  BY NativeSandboxConstants

\* The fields of the records.
LEMMA RecordsAre ==
  ASSUME SandboxTypeOK
  PROVE  /\ sandbox.status \in SandboxStatuses /\ sandbox.ws \in BOOLEAN /\ sandbox.sb \in BOOLEAN
         /\ sandbox.deleted \in BOOLEAN /\ sandbox.since \in 0..MaxClock
         /\ hold.state \in {"none", "reserved", "released", "settled"} /\ hold.activated \in BOOLEAN
         /\ customer.at \in 0..MaxClock /\ customer.since \in 0..MaxClock
         /\ sweeper.at \in 0..MaxClock /\ sweeper.since \in 0..MaxClock /\ sweeper.now \in 0..MaxClock
         /\ sweeper.expires \in 0..MaxClock
         /\ brezel.since \in 0..MaxClock /\ clock \in 0..MaxClock /\ metered \in Nat
  BY DEF SandboxTypeOK, SandboxRows, SandboxHolds, Customers, Sweepers, Providers

LEMMA FaultIs ==
  ASSUME SandboxTypeOK, SandboxFault \/ UNCHANGED used
  PROVE  used' \in Uses
  BY NativeSandboxConstants DEF SandboxTypeOK, Uses, SandboxFault

-----------------------------------------------------------------------------
(* Sandboxes: the creation.                                                *)

\* The creation goes on, or gives up, without touching the row or the hold.
LEMMA CreatorMoves ==
  ASSUME SandboxInv, creator.pc # "idle", creator' \in Creators, brezel' \in Providers, used' \in Uses,
         creator'.pc \in Unstarted \ {"activate"} \/ (creator'.pc \in Reserving \ {"activate"}
            /\ creator.pc \notin Unstarted /\ hold.state # "none"),
         UNCHANGED <<sandbox, hold, metered, clock, customer, sweeper>>
  PROVE  SandboxInv'
<1>1. SandboxTypeOK'
  BY DEF SandboxInv, SandboxTypeOK
<1>2. CreationInv'
  BY DEF SandboxInv, CreationInv, Reserving, Unstarted
<1>3. TimeInv' /\ JobsInv'
  BY DEF SandboxInv, TimeInv, JobsInv
<1>4. CustomerDeleted' /\ SweeperDeleted' /\ Settled'
  BY DEF SandboxInv, CustomerDeleted, SweeperDeleted, Settled, Unstarted, Reserving
<1> QED BY <1>1, <1>2, <1>3, <1>4 DEF SandboxInv

Steps == {"reserve", "workspace", "refs", "compute", "track", "activate"}
Undoing == {"undo_compute", "undo_workspace", "undo_status", "undo_hold"}

LEMMA CreatorIs ==
  ASSUME SandboxTypeOK, NEW pc \in Steps \union Undoing, CreatorAt(pc) \/ (creator.pc \in Steps /\ Undo(pc))
  PROVE  creator' \in Creators /\ creator'.pc = pc
<1>0. PICK old : old = creator
  OBVIOUS
<1>1. old \in Creators
  BY <1>0 DEF SandboxTypeOK
<1>2. CASE CreatorAt(pc)
  BY <1>0, <1>1, <1>2 DEF CreatorAt, Creators, Steps, Undoing
<1>3. CASE creator.pc \in Steps /\ Undo(pc)
  BY <1>0, <1>1, <1>3 DEF Undo, Creators, Steps, Undoing
<1> QED BY <1>2, <1>3

LEMMA IdleCreatorIs == IdleCreator \in Creators /\ IdleCreator.pc = "idle"
  BY DEF Creators, IdleCreator

LEMMA ProviderIs ==
  ASSUME NEW b \in Providers
  PROVE  /\ \A ws \in {"none", "present", "gone"} : [b EXCEPT !.ws = ws] \in Providers
         /\ \A sb \in Live \union Ended, t \in 0..MaxClock : [b EXCEPT !.sb = sb, !.since = t] \in Providers
         /\ \A sb \in Live \union Ended, t, e \in 0..MaxClock :
              [b EXCEPT !.sb = sb, !.since = t, !.ends = e] \in Providers
  BY DEF Providers

LEMMA ProviderKept ==
  ASSUME SandboxTypeOK, TimeInv
  PROVE  /\ WorkspaceCreated \in Providers /\ WorkspaceDeleted \in Providers
         /\ ComputeDeletions \subseteq Providers
         /\ creator.pc # "idle" => ComputeCreated \in Providers
<1>0. PICK b, t : b = brezel /\ t = clock
  OBVIOUS
<1>1. b \in Providers /\ t \in 0..MaxClock /\ b.ws \in {"none", "present", "gone"}
  BY <1>0 DEF SandboxTypeOK, Providers
<1>2. WorkspaceCreated \in Providers
  BY <1>0, <1>1, ProviderIs DEF WorkspaceCreated
<1>3. WorkspaceDeleted \in Providers
  BY <1>0, <1>1, ProviderIs DEF WorkspaceDeleted
<1>4. ASSUME NEW next \in ComputeDeletions PROVE next \in Providers
  <2>1. "deleting" \in Live \union Ended /\ "deleted" \in Live \union Ended
    BY DEF Live, Ended
  <2>2. next = b \/ \E sb \in {"deleting", "deleted"} : next = [b EXCEPT !.sb = sb, !.since = t]
    BY <1>0, <1>4 DEF ComputeDeletions
  <2>3. ASSUME NEW sb \in {"deleting", "deleted"}, next = [b EXCEPT !.sb = sb, !.since = t]
        PROVE  next \in Providers
    BY <1>1, <2>1, <2>3 DEF Providers
  <2> QED BY <1>1, <2>2, <2>3
<1>5. ASSUME creator.pc # "idle" PROVE ComputeCreated \in Providers
  <2>1. "running" \in Live \union Ended
    BY DEF Live
  <2>2. PICK e \in 0..MaxClock : e = clock + Lifetime
    BY <1>0, <1>1, <1>5, TimesAre DEF TimeInv
  <2> QED BY <1>0, <1>1, <2>1, <2>2, ProviderIs DEF ComputeCreated
<1> QED BY <1>2, <1>3, <1>4, <1>5

-----------------------------------------------------------------------------
(* Sandboxes: each step of the creation.                                   *)

LEMMA CreateStep ==
  ASSUME SandboxInv, CreateNativeSandbox
  PROVE  SandboxInv'
<1>0. PICK row, new : row = sandbox /\ new = [row EXCEPT !.status = "creating_workspace", !.since = clock]
  OBVIOUS
<1>1. /\ row \in SandboxRows /\ clock \in 0..MaxClock
      /\ new \in SandboxRows /\ new.status = "creating_workspace" /\ new.since = clock
      /\ new.sb = row.sb /\ new.deleted = row.deleted
  BY <1>0 DEF SandboxInv, SandboxTypeOK, SandboxRows, SandboxStatuses
<1>2. /\ creator' \in Creators /\ creator'.pc = "reserve" /\ creator.pc = "idle" /\ clock < LastCreate
      /\ ~sandbox.sb /\ sandbox' \in {row, new}
      /\ UNCHANGED <<hold, metered, brezel, clock, customer, sweeper>>
  BY <1>0, <1>1 DEF CreateNativeSandbox, Creators, IdleCreator, SandboxRows
<1>3. used' \in Uses
  BY NativeSandboxConstants DEF CreateNativeSandbox, SandboxInv, SandboxTypeOK, Uses
<1>4. sandbox' = row \/ (sandbox' = new /\ row.status = "absent")
  BY <1>0 DEF CreateNativeSandbox
<1>5. SandboxTypeOK'
  BY <1>0, <1>1, <1>2, <1>3 DEF SandboxInv, SandboxTypeOK
<1>6. TimeInv'
  <2>1. TimeInv /\ clock \in Nat /\ metered \in Nat /\ row.since \in Nat /\ LastCreate \in Nat
    BY <1>0, RecordsAre, TimesAre DEF SandboxInv
  <2>2. sandbox'.since \in {row.since, clock}
    BY <1>1, <1>2
  <2> QED BY <1>0, <1>2, <2>1, <2>2 DEF TimeInv
<1>7. CreationInv' /\ JobsInv'
  BY <1>0, <1>1, <1>2 DEF SandboxInv, CreationInv, JobsInv, Reserving, Unstarted
<1>8. CustomerDeleted' /\ SweeperDeleted' /\ Settled'
  BY <1>0, <1>1, <1>2, <1>4 DEF SandboxInv, CreationInv, JobsInv, CustomerDeleted, SweeperDeleted, Settled
<1> QED BY <1>5, <1>6, <1>7, <1>8 DEF SandboxInv

LEMMA ReserveStep ==
  ASSUME SandboxInv, ReserveManagedSandboxSpend
  PROVE  SandboxInv'
<1>1. /\ creator.pc = "reserve" /\ SandboxTypeOK /\ ~hold.activated /\ ~sandbox.sb
      /\ UNCHANGED <<sandbox, metered, brezel, clock, customer, sweeper>>
  BY RecordsAre DEF SandboxInv, CreationInv, ReserveManagedSandboxSpend, Unstarted
<1>2. /\ creator' \in Creators /\ creator'.pc \in {"compute", "workspace", "undo_status"} /\ used' \in Uses
      /\ (hold' = hold /\ creator'.pc \in Reserving => hold.state # "none")
  <2>1. PICK pc \in {"compute", "workspace", "undo_status"} :
          /\ CreatorAt(pc) \/ Undo(pc)
          /\ pc = "undo_status" \/ hold.state \in {"reserved", "settled"} \/ hold'.state = "reserved"
    BY <1>1 DEF ReserveManagedSandboxSpend, SandboxTypeOK, SandboxHolds
  <2>2. creator' \in Creators /\ creator'.pc = pc
    BY <1>1, <2>1, CreatorIs DEF Steps, Undoing
  <2>3. used' \in Uses
    BY <1>1, FaultIs DEF ReserveManagedSandboxSpend
  <2> QED BY <2>1, <2>2, <2>3 DEF Reserving
<1>3. CASE hold' = hold
  <2>2. brezel' \in Providers
    BY <1>1 DEF SandboxTypeOK
  <2> QED BY <1>1, <1>2, <1>3, <2>2, CreatorMoves DEF Reserving, Unstarted
<1>4. CASE /\ hold.state = "none"
           /\ hold' = [hold EXCEPT !.state = "reserved", !.created = clock, !.expires = clock + Lifetime]
  <2>1. PICK e \in 0..MaxClock : e = clock + Lifetime
    BY <1>1, TimesAre, RecordsAre DEF SandboxInv, TimeInv
  <2>2. PICK old, t : old = hold /\ t = clock
    OBVIOUS
  <2>3. old \in SandboxHolds /\ t \in 0..MaxClock
    BY <1>1, <2>2 DEF SandboxTypeOK
  <2>4. /\ hold' \in SandboxHolds /\ hold'.state = "reserved" /\ hold'.activated = hold.activated
    BY <1>4, <2>1, <2>2, <2>3 DEF SandboxHolds
  <2>5. SandboxTypeOK'
    BY <1>1, <1>2, <2>4 DEF SandboxTypeOK
  <2>6. TimeInv' /\ CreationInv'
    BY <1>1, <1>2, <2>4 DEF SandboxInv, TimeInv, CreationInv, Reserving, Unstarted
  <2>7. JobsInv' /\ CustomerDeleted' /\ SweeperDeleted' /\ Settled'
    BY <1>1, <1>2, <1>4, <2>4 DEF SandboxInv, JobsInv, CustomerDeleted, SweeperDeleted, Settled
  <2> QED BY <2>5, <2>6, <2>7 DEF SandboxInv
<1> QED BY <1>3, <1>4 DEF ReserveManagedSandboxSpend

LEMMA ProviderCallsStep ==
  ASSUME SandboxInv, CreateWorkspace \/ CreateCompute
  PROVE  SandboxInv'
<1>1. SandboxTypeOK /\ TimeInv /\ creator.pc \in {"workspace", "compute"}
  BY DEF SandboxInv, CreateWorkspace, CreateCompute
<1>2. used' \in Uses
  BY <1>1, FaultIs DEF CreateWorkspace, CreateCompute
<1>3. brezel' \in Providers
  BY <1>1, ProviderKept DEF CreateWorkspace, CreateCompute, SandboxTypeOK
<1>4. creator' \in Creators /\ creator'.pc \in {"refs", "track", "undo_status", "undo_workspace"}
  <2>1. CASE CreatorAt("refs") \/ Undo("undo_status") \/ Undo("undo_workspace")
    BY <1>1, <2>1, CreatorIs DEF Steps, Undoing
  <2>2. CASE creator' = [creator EXCEPT !.pc = "track", !.state = ComputeCreated.sb]
    <3>1. PICK next, old : next \in Providers /\ next = ComputeCreated /\ old = creator
      BY <1>1, ProviderKept
    <3>2. next.sb \in {"none"} \union Live \union Ended /\ next.sb # "none" /\ old \in Creators
      BY <1>1, <3>1 DEF SandboxTypeOK, Providers, ComputeCreated
    <3> QED BY <2>2, <3>1, <3>2 DEF Creators
  <2> QED BY <2>1, <2>2 DEF CreateWorkspace, CreateCompute
<1>5. hold.state # "none" /\ creator.pc \notin Unstarted
  BY <1>1 DEF SandboxInv, CreationInv, Reserving, Unstarted
<1>6. UNCHANGED <<sandbox, hold, metered, clock, customer, sweeper>>
  BY DEF CreateWorkspace, CreateCompute
<1> QED BY <1>1, <1>2, <1>3, <1>4, <1>5, <1>6, CreatorMoves DEF Reserving, Unstarted

\* An identity is recorded: the row is not deleted.
LEMMA RecordStep ==
  ASSUME SandboxInv, RecordWorkspace \/ RecordCompute
  PROVE  SandboxInv'
<1>1. /\ SandboxTypeOK /\ TimeInv /\ creator.pc \in {"refs", "track"}
      /\ UNCHANGED <<hold, metered, brezel, clock, customer, sweeper>>
      /\ hold.state # "none" /\ ~hold.activated
  BY RecordsAre DEF SandboxInv, RecordWorkspace, RecordCompute, CreationInv, Reserving
<1>2. used' \in Uses
  BY <1>1, FaultIs DEF RecordWorkspace, RecordCompute
<1>3. CASE UNCHANGED sandbox /\ (Undo("undo_workspace") \/ Undo("undo_compute"))
  <2>1. creator' \in Creators /\ creator'.pc \in {"undo_workspace", "undo_compute"}
    BY <1>1, <1>3, CreatorIs DEF Steps, Undoing
  <2>2. brezel' \in Providers
    BY <1>1 DEF SandboxTypeOK
  <2> QED BY <1>1, <1>2, <1>3, <2>1, <2>2, CreatorMoves DEF Unstarted
<1>4. CASE /\ ~RefsRefused
           /\ \/ /\ SetNativeSandboxProviderRefs(TRUE, FALSE, "creating")
                 /\ creator' = [creator EXCEPT !.pc = "compute", !.ws = TRUE] /\ creator.pc = "refs"
              \/ /\ SetNativeSandboxProviderRefs(TRUE, TRUE, creator.state)
                 /\ CreatorAt("activate") /\ creator.pc = "track"
  <2>0. PICK old, row, t, sb, status, since :
          /\ old = creator /\ row = sandbox /\ t = clock
          /\ sb = (old.pc = "track") /\ status = (IF sb THEN old.state ELSE "creating")
          /\ since = (IF row.status # status THEN t ELSE row.since)
    OBVIOUS
  <2>1. /\ old \in Creators /\ row \in SandboxRows /\ t \in 0..MaxClock /\ sb \in BOOLEAN
        /\ status \in SandboxStatuses /\ since \in 0..MaxClock /\ since >= row.since /\ since <= t
        /\ row.sb \in BOOLEAN
    BY <1>1, <2>0 DEF SandboxTypeOK, TimeInv, SandboxRows, Creators, SandboxStatuses, Live, Ended
  <2>2. sandbox' = [row EXCEPT !.ws = TRUE, !.sb = row.sb \/ sb, !.status = status, !.since = since]
    BY <1>4, <2>0, <2>1 DEF SetNativeSandboxProviderRefs, SandboxRows
  <2>3. /\ sandbox' \in SandboxRows /\ sandbox'.since = since /\ sandbox'.deleted = row.deleted
        /\ sandbox'.sb = (row.sb \/ sb)
    <3>1. PICK b \in BOOLEAN : b = (row.sb \/ sb)
      BY <2>1
    <3> QED BY <2>1, <2>2, <3>1 DEF SandboxRows
  <2>4. /\ creator' \in Creators
        /\ (creator'.pc = "activate" /\ sb) \/ (creator'.pc = "compute" /\ ~sb)
    BY <1>4, <2>0, <2>1 DEF Creators, CreatorAt
  <2>5. ~sandbox.deleted /\ ~sandbox'.deleted /\ ~sandbox.sb
    BY <1>1, <1>4, <2>0, <2>3 DEF RefsRefused, SandboxInv, CreationInv, Unstarted
  <2>6. SandboxTypeOK'
    BY <1>1, <1>2, <2>3, <2>4 DEF SandboxTypeOK
  <2>7. TimeInv'
    BY <1>1, <2>0, <2>1, <2>3, RecordsAre DEF TimeInv
  <2>8. CreationInv'
    BY <1>1, <2>0, <2>1, <2>3, <2>4, <2>5 DEF CreationInv, Unstarted, Reserving
  <2>9. JobsInv' /\ CustomerDeleted' /\ SweeperDeleted' /\ Settled'
    BY <1>1, <2>5 DEF SandboxInv, JobsInv, CustomerDeleted, SweeperDeleted, Settled
  <2> QED BY <2>6, <2>7, <2>8, <2>9 DEF SandboxInv
<1> QED BY <1>1, <1>3, <1>4 DEF RecordWorkspace, RecordCompute

LEMMA ActivateHoldStep ==
  ASSUME SandboxInv, ActivateManagedSandboxSpend
  PROVE  SandboxInv'
<1>1. /\ SandboxTypeOK /\ TimeInv /\ creator.pc = "activate" /\ sandbox.sb /\ hold.state # "none"
      /\ ~hold.activated
      /\ UNCHANGED <<sandbox, metered, brezel, clock, customer, sweeper>>
  BY RecordsAre DEF SandboxInv, ActivateManagedSandboxSpend, CreationInv, Reserving
<1>2. used' \in Uses
  BY <1>1, FaultIs DEF ActivateManagedSandboxSpend
<1>3. CASE UNCHANGED hold /\ Undo("undo_compute")
  <2>1. creator' \in Creators /\ creator'.pc = "undo_compute"
    BY <1>1, <1>3, CreatorIs DEF Steps, Undoing
  <2>2. brezel' \in Providers
    BY <1>1 DEF SandboxTypeOK
  <2> QED BY <1>1, <1>2, <1>3, <2>1, <2>2, CreatorMoves DEF Unstarted
<1>4. CASE /\ hold.state = "reserved" /\ creator' = IdleCreator
           /\ hold' = [hold EXCEPT !.activated = TRUE, !.expires = clock + Lifetime]
  <2>1. PICK e \in 0..MaxClock : e = clock + Lifetime
    BY <1>1, TimesAre, RecordsAre DEF TimeInv
  <2>2. PICK old : old = hold
    OBVIOUS
  <2>3. old \in SandboxHolds
    BY <1>1, <2>2 DEF SandboxTypeOK
  <2>4. hold' \in SandboxHolds /\ hold'.state = "reserved" /\ hold'.activated
    BY <1>4, <2>1, <2>2, <2>3 DEF SandboxHolds
  <2>5. creator' \in Creators /\ creator'.pc = "idle"
    BY <1>4 DEF Creators, IdleCreator
  <2>6. SandboxTypeOK'
    BY <1>1, <1>2, <2>4, <2>5 DEF SandboxTypeOK
  <2>7. TimeInv' /\ CreationInv' /\ JobsInv'
    BY <1>1, <1>4, <2>4, <2>5 DEF SandboxInv, TimeInv, CreationInv, JobsInv, Reserving, Unstarted
  <2>8. CustomerDeleted' /\ SweeperDeleted' /\ Settled'
    BY <1>1, <1>4, <2>4, <2>5 DEF SandboxInv, JobsInv, CustomerDeleted, SweeperDeleted, Settled
  <2> QED BY <2>6, <2>7, <2>8 DEF SandboxInv
<1> QED BY <1>1, <1>3, <1>4 DEF ActivateManagedSandboxSpend

LEMMA UndoProviderStep ==
  ASSUME SandboxInv, UndoCompute \/ UndoWorkspace
  PROVE  SandboxInv'
<1>1. SandboxTypeOK /\ TimeInv /\ creator.pc \in {"undo_compute", "undo_workspace"}
  BY DEF SandboxInv, UndoCompute, UndoWorkspace
<1>2. used' \in Uses
  BY <1>1 DEF UndoCompute, UndoWorkspace, SandboxTypeOK
<1>3. brezel' \in Providers
  BY <1>1, ProviderKept DEF UndoCompute, UndoWorkspace
<1>4. creator' \in Creators /\ creator'.pc \in {"idle", "undo_workspace", "undo_status", "undo_hold"}
  <2>0. PICK old : old = creator
    OBVIOUS
  <2>1. PICK pending \in BOOLEAN, pc \in {"undo_workspace", "undo_status", "undo_hold"} :
          \/ creator' = IdleCreator \/ creator' = [old EXCEPT !.pc = pc]
          \/ creator' = [old EXCEPT !.pc = pc, !.pending = pending]
    BY <2>0 DEF UndoCompute, UndoWorkspace
  <2>2. old \in Creators
    BY <1>1, <2>0 DEF SandboxTypeOK
  <2>3. CASE creator' = IdleCreator
    BY <2>3, IdleCreatorIs
  <2>4. CASE creator' = [old EXCEPT !.pc = pc]
    BY <2>1, <2>2, <2>4 DEF Creators
  <2>5. CASE creator' = [old EXCEPT !.pc = pc, !.pending = pending]
    BY <2>1, <2>2, <2>5 DEF Creators
  <2> QED BY <2>1, <2>3, <2>4, <2>5
<1>6. UNCHANGED <<sandbox, hold, metered, clock, customer, sweeper>>
  BY DEF UndoCompute, UndoWorkspace
<1> QED BY <1>1, <1>2, <1>3, <1>4, <1>6, CreatorMoves DEF Reserving, Unstarted

-----------------------------------------------------------------------------
(* Sandboxes: what the statements of the store leave.                      *)

LEMMA SandboxStatusIs ==
  ASSUME SandboxTypeOK, TimeInv, NEW status \in SandboxStatuses, SetNativeSandboxStatus(status)
  PROVE  /\ sandbox' \in SandboxRows /\ sandbox'.status = status /\ sandbox'.sb = sandbox.sb
         /\ sandbox'.deleted = (sandbox.deleted \/ status = "deleted")
         /\ sandbox'.since \in Nat /\ sandbox'.since >= sandbox.since /\ sandbox'.since <= clock
<1>0. PICK row, t, since, deleted : /\ row = sandbox /\ t = clock
                                    /\ since = (IF row.status # status THEN t ELSE row.since)
                                    /\ deleted = (row.deleted \/ status = "deleted")
  OBVIOUS
<1>1. /\ row \in SandboxRows /\ since \in 0..MaxClock /\ since >= row.since /\ since <= t /\ deleted \in BOOLEAN
  BY <1>0, RecordsAre DEF SandboxTypeOK, TimeInv
<1>2. sandbox' = [row EXCEPT !.status = status, !.since = since, !.deleted = deleted]
  BY <1>0, <1>1 DEF SetNativeSandboxStatus, SandboxRows
<1>3. sandbox' \in SandboxRows /\ sandbox'.status = status /\ sandbox'.sb = row.sb
      /\ sandbox'.deleted = deleted /\ sandbox'.since = since
  BY <1>1, <1>2 DEF SandboxRows
<1> QED BY <1>0, <1>1, <1>3, TimesAre

LEMMA TransitionIs ==
  ASSUME SandboxTypeOK, TimeInv, NEW status \in SandboxStatuses, NEW at \in 0..MaxClock, at <= clock,
         RecordNativeSandboxTransition(status, at)
  PROVE  /\ sandbox' \in SandboxRows /\ sandbox'.status = status /\ sandbox'.sb = sandbox.sb
         /\ sandbox'.deleted = (sandbox.deleted \/ status = "deleted")
         /\ sandbox'.since \in Nat /\ metered' \in Nat /\ metered' <= sandbox'.since /\ sandbox'.since <= clock
         /\ sandbox.status # "running" => metered' = metered
         /\ sandbox.status = "deleted" => status = "deleted"
<1>0. PICK row, later, since, deleted :
        /\ row = sandbox /\ later = OccurredAt(at)
        /\ since = (IF row.status # status THEN later ELSE row.since)
        /\ deleted = (row.deleted \/ status = "deleted")
  OBVIOUS
<1>1. /\ row \in SandboxRows /\ row.since \in Nat /\ row.since <= clock /\ metered <= row.since
      /\ clock \in 0..MaxClock /\ metered \in Nat /\ at \in Nat /\ deleted \in BOOLEAN
  BY <1>0, RecordsAre, TimesAre DEF SandboxTypeOK, TimeInv
<1>2. later \in 0..MaxClock /\ later >= row.since /\ later <= clock
  BY <1>0, <1>1, MaxOfTwo, TimesAre DEF OccurredAt
<1>3. since \in 0..MaxClock /\ since >= row.since /\ since <= clock
  BY <1>0, <1>1, <1>2, TimesAre
<1>4. metered' = metered + (IF row.status # status /\ row.status = "running" THEN later - row.since ELSE 0)
  BY <1>0 DEF RecordNativeSandboxTransition, Elapsed, OccurredAt
<1>5. sandbox' = [row EXCEPT !.status = status, !.since = since, !.deleted = deleted]
  BY <1>0, <1>1 DEF RecordNativeSandboxTransition, SandboxRows
<1>6. /\ sandbox' \in SandboxRows /\ sandbox'.status = status /\ sandbox'.sb = row.sb
      /\ sandbox'.deleted = deleted /\ sandbox'.since = since
  BY <1>1, <1>3, <1>5 DEF SandboxRows
<1>7. metered' \in Nat /\ metered' <= since
  BY <1>0, <1>1, <1>2, <1>3, <1>4
<1>8. sandbox.status = "deleted" => status = "deleted"
  BY DEF RecordNativeSandboxTransition, TransitionRefused
<1>9. sandbox.status # "running" => metered' = metered
  BY <1>0, <1>1, <1>4
<1> QED BY <1>0, <1>3, <1>6, <1>7, <1>8, <1>9, TimesAre

LEMMA FinalizeIs ==
  ASSUME SandboxTypeOK, NEW state \in {"released", "settled"}, Finalize(state)
  PROVE  /\ hold' \in SandboxHolds /\ hold'.activated = hold.activated
         /\ hold.state # "reserved" => hold' = hold
         /\ hold.state = "reserved" =>
              hold'.state = state /\ (state = "settled" => hold'.charged = Min({metered, Lifetime}))
<1>0. PICK old, charged : old = hold /\ charged = (IF state = "settled" THEN Min({metered, Lifetime}) ELSE 0)
  OBVIOUS
<1>1. old \in SandboxHolds /\ charged \in 0..Lifetime
  BY <1>0, MinOfTwo, RecordsAre, TimesAre DEF SandboxTypeOK
<1>2. hold' = IF old.state # "reserved" THEN old ELSE [old EXCEPT !.state = state, !.charged = charged]
  BY <1>0 DEF Finalize
<1>3. CASE old.state # "reserved"
  BY <1>0, <1>1, <1>2, <1>3
<1>4. CASE old.state = "reserved"
  BY <1>0, <1>1, <1>2, <1>4 DEF SandboxHolds
<1> QED BY <1>3, <1>4

LEMMA UndoStatusStep ==
  ASSUME SandboxInv, UndoStatus
  PROVE  SandboxInv'
<1>1. /\ SandboxTypeOK /\ TimeInv /\ creator.pc = "undo_status" /\ ~hold.activated
      /\ UNCHANGED <<hold, metered, brezel, clock, customer, sweeper, used>>
  BY RecordsAre DEF SandboxInv, UndoStatus, CreationInv
<1>2. PICK status \in {"cleanup_pending", "failed"} : SetNativeSandboxStatus(status)
  BY DEF UndoStatus
<1>3. /\ sandbox' \in SandboxRows /\ sandbox'.status = status /\ sandbox'.sb = sandbox.sb
      /\ sandbox'.deleted = sandbox.deleted
      /\ sandbox'.since \in Nat /\ sandbox'.since >= sandbox.since /\ sandbox'.since <= clock
  <2>1. status \in SandboxStatuses
    BY DEF SandboxStatuses
  <2> QED BY <1>1, <1>2, <2>1, SandboxStatusIs, RecordsAre
<1>4. creator' \in Creators /\ creator'.pc \in {"idle", "undo_hold"}
  <2>1. creator' = IdleCreator \/ CreatorAt("undo_hold")
    BY DEF UndoStatus, CreatorAt
  <2> QED BY <1>1, <2>1, CreatorIs, IdleCreatorIs DEF Steps, Undoing
<1>5. SandboxTypeOK'
  BY <1>1, <1>3, <1>4 DEF SandboxTypeOK
<1>6. TimeInv'
  BY <1>1, <1>3, RecordsAre DEF TimeInv
<1>7. CreationInv' /\ JobsInv'
  BY <1>1, <1>3, <1>4 DEF SandboxInv, CreationInv, JobsInv, Reserving, Unstarted
<1>8. CustomerDeleted' /\ SweeperDeleted' /\ Settled'
  BY <1>1, <1>3, <1>4 DEF SandboxInv, JobsInv, CustomerDeleted, SweeperDeleted, Settled
<1> QED BY <1>5, <1>6, <1>7, <1>8 DEF SandboxInv

LEMMA UndoHoldStep ==
  ASSUME SandboxInv, UndoHold
  PROVE  SandboxInv'
<1>1. /\ SandboxTypeOK /\ TimeInv /\ creator.pc = "undo_hold" /\ ~hold.activated
      /\ UNCHANGED <<sandbox, metered, brezel, clock, customer, sweeper, used>>
  BY RecordsAre DEF SandboxInv, UndoHold, CreationInv
<1>2. /\ hold' \in SandboxHolds /\ hold'.activated = hold.activated
      /\ hold' = hold \/ (hold.state = "reserved" /\ hold'.state = "released")
  BY <1>1, FinalizeIs DEF UndoHold
<1>4. creator' \in Creators /\ creator'.pc \in {"idle", "undo_status"}
  <2>1. creator' = IdleCreator \/ CreatorAt("undo_status")
    BY DEF UndoHold, CreatorAt
  <2> QED BY <1>1, <2>1, CreatorIs, IdleCreatorIs DEF Steps, Undoing
<1>5. SandboxTypeOK'
  BY <1>1, <1>2, <1>4 DEF SandboxTypeOK
<1>6. TimeInv'
  BY <1>1, <1>4 DEF TimeInv, SandboxInv
<1>7. CreationInv' /\ JobsInv'
  BY <1>1, <1>2, <1>4 DEF SandboxInv, CreationInv, JobsInv, Reserving, Unstarted
<1>8. CustomerDeleted' /\ SweeperDeleted' /\ Settled'
  BY <1>1, <1>2, <1>4 DEF SandboxInv, JobsInv, CustomerDeleted, SweeperDeleted, Settled
<1> QED BY <1>5, <1>6, <1>7, <1>8 DEF SandboxInv

-----------------------------------------------------------------------------
(* Sandboxes: the customer.                                                *)

\* What a customer's call may know.
CustomerKnows(c) ==
  /\ c \in Customers /\ c.since <= clock /\ c.at <= clock
  /\ c.pc = "workspace" \/ c.pc = "close" => c.action \in {"remove", "delete"}
  /\ c.pc = "record" /\ c.action = "observe" /\ c.result = c.status => c.result = "unknown"

LEMMA CustomerMoves ==
  ASSUME SandboxInv, CustomerKnows(customer'), customer.pc # "idle" \/ ~sandbox.deleted, customer'.pc # "close",
         brezel' \in Providers, used' \in Uses, UNCHANGED <<sandbox, hold, metered, clock, creator, sweeper>>
  PROVE  SandboxInv'
<1>1. SandboxTypeOK'
  BY DEF SandboxInv, SandboxTypeOK, CustomerKnows
<1>2. TimeInv' /\ CreationInv' /\ JobsInv'
  BY DEF SandboxInv, TimeInv, CreationInv, JobsInv, CustomerKnows
<1>3. CustomerDeleted' /\ SweeperDeleted' /\ Settled'
  BY DEF SandboxInv, CustomerDeleted, SweeperDeleted, Settled
<1> QED BY <1>1, <1>2, <1>3 DEF SandboxInv

LEMMA IdleCustomerIs ==
  ASSUME SandboxTypeOK
  PROVE  CustomerKnows(IdleCustomer) /\ IdleCustomer.pc = "idle"
<1>1. clock \in 0..MaxClock /\ MaxClock \in Nat
  BY TimesAre DEF SandboxTypeOK
<1>2. IdleCustomer \in Customers
  BY <1>1 DEF IdleCustomer, Customers, SandboxStatuses
<1> QED BY <1>1, <1>2 DEF CustomerKnows, IdleCustomer

LEMMA OwnedStep ==
  ASSUME SandboxInv, NEW action \in {"pause", "resume", "delete", "remove", "observe"}, OwnedSandbox(action)
  PROVE  SandboxInv'
<1>1. SandboxTypeOK /\ ~sandbox.deleted /\ UNCHANGED <<sandbox, hold, metered, brezel, clock, creator, sweeper>>
  BY DEF SandboxInv, OwnedSandbox
<1>2. used' \in Uses
  BY <1>1, NativeSandboxConstants DEF OwnedSandbox, SandboxTypeOK, Uses
<1>3. PICK pc, ws, status, since :
        /\ pc \in {"call", "workspace", "record"} /\ (pc # "call" => action = "remove")
        /\ ws = sandbox.ws
        /\ status = (IF action = "observe" THEN sandbox.status ELSE IdleCustomer.status)
        /\ since = (IF action = "observe" THEN sandbox.since ELSE IdleCustomer.since)
        /\ customer' = [IdleCustomer EXCEPT !.pc = pc, !.action = action, !.ws = ws, !.result = "deleted",
                                            !.status = status, !.since = since]
  BY DEF OwnedSandbox
<1>4. PICK idle, t : idle = IdleCustomer /\ t = clock
  OBVIOUS
<1>5. /\ idle \in Customers /\ t \in 0..MaxClock /\ idle.at <= t /\ MaxClock \in Nat
      /\ ws \in BOOLEAN /\ status \in SandboxStatuses /\ since \in 0..MaxClock /\ since <= t
      /\ idle.at \in 0..MaxClock
  BY <1>1, <1>3, <1>4, IdleCustomerIs, RecordsAre, TimesAre DEF CustomerKnows, Customers, SandboxInv, TimeInv
<1>6. /\ customer' \in Customers /\ customer'.pc = pc /\ customer'.action = action
      /\ customer'.since = since /\ customer'.at = idle.at
  <2>1. "deleted" \in SandboxStatuses
    BY DEF SandboxStatuses
  <2>2. customer' = [idle EXCEPT !.pc = pc, !.action = action, !.ws = ws, !.result = "deleted",
                                 !.status = status, !.since = since]
    BY <1>3, <1>4
  <2> QED BY <1>3, <1>5, <2>1, <2>2 DEF Customers
<1>7. CustomerKnows(customer')
  BY <1>3, <1>4, <1>5, <1>6 DEF CustomerKnows
<1>8. brezel' \in Providers
  BY <1>1 DEF SandboxTypeOK
<1> QED BY <1>1, <1>2, <1>3, <1>6, <1>7, <1>8, CustomerMoves

\* The customer's call gets an answer.
LEMMA AnsweredIs ==
  ASSUME SandboxInv, NEW pc \in {"workspace", "record"}, NEW result \in SandboxStatuses,
         customer' = [customer EXCEPT !.result = result, !.pc = pc],
         customer.action # "observe", pc = "workspace" => customer.action \in {"remove", "delete"}
  PROVE  CustomerKnows(customer') /\ customer'.pc = pc
<1>0. PICK old : old = customer
  OBVIOUS
<1>1. old \in Customers /\ old.since <= clock /\ old.at <= clock
  BY <1>0 DEF SandboxInv, SandboxTypeOK, TimeInv
<1>2. /\ customer' \in Customers /\ customer'.pc = pc /\ customer'.action = old.action
      /\ customer'.since = old.since /\ customer'.at = old.at
  BY <1>0, <1>1 DEF Customers
<1> QED BY <1>0, <1>1, <1>2 DEF CustomerKnows

LEMMA MutateStep ==
  ASSUME SandboxInv, MutateLifecycle
  PROVE  SandboxInv'
<1>1. /\ SandboxTypeOK /\ TimeInv /\ customer.pc = "call" /\ customer.action \in {"pause", "resume", "delete"}
      /\ UNCHANGED <<sandbox, hold, metered, clock, creator, sweeper, used>>
  BY DEF SandboxInv, MutateLifecycle
<1>2. PICK b, t : b = brezel /\ t = clock
  OBVIOUS
<1>3. b \in Providers /\ t \in 0..MaxClock
  BY <1>1, <1>2 DEF SandboxTypeOK
<1>4. brezel' \in Providers /\ (customer.action # "delete" => brezel'.sb \in Live)
  <2>1. CASE customer.action = "delete"
    BY <1>1, <2>1, ProviderKept DEF MutateLifecycle
  <2>2. CASE customer.action # "delete"
    <3>1. PICK sb \in {"standby", "running"} : brezel' = [b EXCEPT !.sb = sb, !.since = t]
      BY <1>2, <2>2 DEF MutateLifecycle
    <3> QED BY <1>3, <2>2, <3>1 DEF Providers, Live
  <2> QED BY <2>1, <2>2
<1>5. PICK result, pc : /\ result = (IF customer.action = "delete" /\ brezel'.sb # "deleting" THEN "deleted" ELSE brezel'.sb)
                        /\ pc = NextStep(result)
  OBVIOUS
<1>6. result \in SandboxStatuses /\ pc \in {"workspace", "record"} /\ (pc = "workspace" => customer.action = "delete")
  BY <1>4, <1>5 DEF NextStep, SandboxStatuses, Live
<1>7. customer' = [customer EXCEPT !.result = result, !.pc = pc]
  BY <1>5 DEF MutateLifecycle
<1>8. CustomerKnows(customer') /\ customer'.pc = pc
  BY <1>1, <1>6, <1>7, AnsweredIs
<1>9. used' \in Uses
  BY <1>1 DEF SandboxTypeOK
<1> QED BY <1>1, <1>4, <1>6, <1>8, <1>9, CustomerMoves

\* The customer's call ends without having changed anything.
LEMMA CustomerStops ==
  ASSUME SandboxInv, customer' = IdleCustomer, used' \in Uses, brezel' = brezel,
         UNCHANGED <<sandbox, hold, metered, clock, creator, sweeper>>, customer.pc # "idle"
  PROVE  SandboxInv'
<1>1. CustomerKnows(customer') /\ customer'.pc = "idle"
  BY IdleCustomerIs DEF SandboxInv
<1>2. brezel' \in Providers
  BY DEF SandboxInv, SandboxTypeOK
<1> QED BY <1>1, <1>2, CustomerMoves

LEMMA SandboxRefusedStep ==
  ASSUME SandboxInv, LifecycleRefused
  PROVE  SandboxInv'
  BY CustomerStops DEF LifecycleRefused, SandboxInv, SandboxTypeOK

LEMMA TransitionAtIs ==
  ASSUME SandboxInv, NEW since \in 0..MaxClock, NEW now \in 0..MaxClock, since <= clock, now <= clock
  PROVE  TransitionAt(brezel.since, since, now) \in 0..MaxClock /\ TransitionAt(brezel.since, since, now) <= clock
<1>1. PICK u : u = brezel.since
  OBVIOUS
<1>2. u \in 0..MaxClock /\ MaxClock \in Nat /\ clock \in Nat
  BY <1>1, RecordsAre, TimesAre DEF SandboxInv
<1>3. Max({u, since}) \in {u, since} /\ Max({u, since}) \in Nat
  BY <1>2, MaxOfTwo
<1> QED BY <1>1, <1>2, <1>3 DEF TransitionAt

LEMMA ObserveStep ==
  ASSUME SandboxInv, ObserveSandbox
  PROVE  SandboxInv'
<1>1. /\ SandboxTypeOK /\ customer.pc = "call" /\ customer.action = "observe"
      /\ UNCHANGED <<sandbox, hold, metered, brezel, clock, creator, sweeper>>
  BY DEF SandboxInv, ObserveSandbox
<1>2. used' \in Uses
  BY <1>1, FaultIs DEF ObserveSandbox
<1>3. CASE customer' = IdleCustomer
  BY <1>1, <1>2, <1>3, CustomerStops
<1>4. CASE customer' # IdleCustomer
  <2>0. PICK old, t, u : old = customer /\ t = clock /\ u = TransitionAt(brezel.since, old.since, t)
    OBVIOUS
  <2>1. /\ old \in Customers /\ t \in 0..MaxClock /\ old.since \in 0..MaxClock /\ old.since <= t
        /\ u \in 0..MaxClock /\ u <= t /\ t <= clock /\ MaxClock \in Nat
    <3>1. /\ old \in Customers /\ t \in 0..MaxClock /\ old.since \in 0..MaxClock /\ old.since <= t
          /\ t <= clock /\ MaxClock \in Nat
      BY <1>1, <2>0, RecordsAre, TimesAre DEF SandboxInv, SandboxTypeOK, TimeInv
    <3> QED BY <2>0, <3>1, TransitionAtIs
  <2>2. PICK result \in SandboxStatuses, at \in {t, u} :
          /\ customer' = [old EXCEPT !.pc = "record", !.result = result, !.at = at]
          /\ result = old.status => result = "unknown"
    <3>1. CASE SandboxFault /\ customer' = [old EXCEPT !.pc = "record", !.result = "unknown", !.at = t]
      BY <3>1 DEF SandboxStatuses
    <3>2. CASE \E noted \in Reports :
                 /\ Interpreted(noted) # old.status
                 /\ customer' = [old EXCEPT !.pc = "record", !.result = Interpreted(noted),
                                   !.at = IF noted = "absent" THEN t ELSE u]
      <4>1. PICK noted \in Reports :
                 /\ Interpreted(noted) # old.status
                 /\ customer' = [old EXCEPT !.pc = "record", !.result = Interpreted(noted),
                                   !.at = IF noted = "absent" THEN t ELSE u]
        BY <3>2
      <4>2. noted \in {"absent"} \union Live \union Ended
        BY <1>1 DEF Reports, SandboxTypeOK, Providers, Live, Ended
      <4>3. Interpreted(noted) \in SandboxStatuses
        BY <4>2 DEF Interpreted, SandboxStatuses, Live, Ended
      <4> QED BY <4>1, <4>3
    <3> QED BY <1>4, <2>0, <3>1, <3>2 DEF ObserveSandbox
  <2>3. /\ customer' \in Customers /\ customer'.pc = "record" /\ customer'.result = result /\ customer'.at = at
        /\ customer'.status = old.status /\ customer'.since = old.since
    BY <2>1, <2>2 DEF Customers
  <2>4. CustomerKnows(customer')
    BY <1>1, <2>0, <2>1, <2>2, <2>3 DEF CustomerKnows
  <2>5. brezel' \in Providers
    BY <1>1 DEF SandboxTypeOK
  <2> QED BY <1>1, <1>2, <2>3, <2>4, <2>5, CustomerMoves
<1> QED BY <1>3, <1>4

LEMMA CustomerWorkspaceStep ==
  ASSUME SandboxInv, CustomerDeletesWorkspace
  PROVE  SandboxInv'
<1>1. /\ SandboxTypeOK /\ TimeInv /\ customer.pc = "workspace" /\ customer.action \in {"remove", "delete"}
      /\ UNCHANGED <<sandbox, hold, metered, clock, creator, sweeper, used>>
  BY DEF SandboxInv, CustomerDeletesWorkspace, JobsInv
<1>2. brezel' \in Providers /\ used' \in Uses
  BY <1>1, ProviderKept DEF CustomerDeletesWorkspace, SandboxTypeOK
<1>3. PICK result \in {"cleanup_pending", "deleted"} : customer' = [customer EXCEPT !.pc = "record", !.result = result]
  BY DEF CustomerDeletesWorkspace
<1>4. result \in SandboxStatuses
  BY DEF SandboxStatuses
<1>5. customer' = [customer EXCEPT !.result = result, !.pc = "record"]
  BY <1>1, <1>3 DEF SandboxTypeOK, Customers
<1>6. CustomerKnows(customer') /\ customer'.pc = "record"
  BY <1>1, <1>4, <1>5, AnsweredIs
<1> QED BY <1>1, <1>2, <1>6, CustomerMoves

LEMMA CustomerRecordsStep ==
  ASSUME SandboxInv, CustomerRecords
  PROVE  SandboxInv'
<1>1. /\ SandboxTypeOK /\ TimeInv /\ customer.pc = "record" /\ UNCHANGED <<hold, brezel, clock, creator, sweeper, used>>
      /\ used' \in Uses
  BY DEF SandboxInv, CustomerRecords, SandboxTypeOK
<1>2. CASE UNCHANGED <<sandbox, metered>> /\ customer' = IdleCustomer
  BY <1>1, <1>2, CustomerStops
<1>3. CASE /\ customer.action = "observe" /\ customer.result = customer.status
           /\ SetNativeSandboxStatus(customer.result) /\ customer' = IdleCustomer /\ UNCHANGED metered
  <2>1. customer.result = "unknown" /\ "unknown" \in SandboxStatuses
    BY <1>1, <1>3 DEF SandboxInv, JobsInv, SandboxStatuses
  <2>2. /\ sandbox' \in SandboxRows /\ sandbox'.status = "unknown" /\ sandbox'.sb = sandbox.sb
        /\ sandbox'.deleted = sandbox.deleted
        /\ sandbox'.since \in Nat /\ sandbox'.since >= sandbox.since /\ sandbox'.since <= clock
    BY <1>1, <1>3, <2>1, SandboxStatusIs, RecordsAre
  <2>3. CustomerKnows(customer') /\ customer'.pc = "idle"
    BY <1>1, <1>3, IdleCustomerIs DEF CustomerKnows
  <2>4. SandboxTypeOK'
    BY <1>1, <1>3, <2>2, <2>3 DEF SandboxTypeOK, CustomerKnows
  <2>5. TimeInv'
    BY <1>1, <1>3, <2>2, <2>3, RecordsAre DEF TimeInv, CustomerKnows
  <2>6. CreationInv' /\ JobsInv'
    BY <1>1, <2>2, <2>3 DEF SandboxInv, CreationInv, JobsInv, CustomerKnows
  <2>7. CustomerDeleted' /\ SweeperDeleted' /\ Settled'
    BY <1>1, <1>3, <2>2, <2>3 DEF SandboxInv, CustomerDeleted, SweeperDeleted, Settled
  <2> QED BY <2>4, <2>5, <2>6, <2>7 DEF SandboxInv
<1>4. CASE \E at \in {customer.at, clock} :
             /\ RecordNativeSandboxTransition(customer.result, at)
             /\ customer' = IF customer.action \in {"delete", "remove"} /\ customer.result = "deleted"
                            THEN [IdleCustomer EXCEPT !.pc = "close", !.action = customer.action] ELSE IdleCustomer
  <2>0. PICK at \in {customer.at, clock} : RecordNativeSandboxTransition(customer.result, at)
    BY <1>4
  <2>1. PICK status, action : status = customer.result /\ action = customer.action
    OBVIOUS
  <2>2. status \in SandboxStatuses /\ at \in 0..MaxClock /\ at <= clock
    BY <1>1, <2>1, RecordsAre, TimesAre DEF SandboxTypeOK, TimeInv, Customers
  <2>3. /\ sandbox' \in SandboxRows /\ sandbox'.status = status /\ sandbox'.sb = sandbox.sb
        /\ sandbox'.deleted = (sandbox.deleted \/ status = "deleted")
        /\ sandbox'.since \in Nat /\ metered' \in Nat /\ metered' <= sandbox'.since /\ sandbox'.since <= clock
        /\ sandbox.status # "running" => metered' = metered
        /\ sandbox.status = "deleted" => status = "deleted"
    BY <1>1, <2>0, <2>1, <2>2, TransitionIs
  <2>4. /\ customer' \in Customers /\ customer'.since <= clock /\ customer'.at <= clock
        /\ \/ customer'.pc = "idle"
           \/ customer'.pc = "close" /\ customer'.action = action /\ action \in {"delete", "remove"} /\ status = "deleted"
    <3>1. PICK idle : idle = IdleCustomer
      OBVIOUS
    <3>2. idle \in Customers /\ idle.pc = "idle" /\ idle.since <= clock /\ idle.at <= clock
      BY <1>1, <3>1, IdleCustomerIs DEF CustomerKnows
    <3>3. \/ customer' = idle
          \/ /\ customer' = [idle EXCEPT !.pc = "close", !.action = action]
             /\ action \in {"delete", "remove"} /\ status = "deleted"
      BY <1>4, <2>1, <3>1
    <3> QED BY <3>2, <3>3 DEF Customers
  <2>5. SandboxTypeOK'
    BY <1>1, <2>3, <2>4 DEF SandboxTypeOK
  <2>6. TimeInv'
    BY <1>1, <2>3, <2>4 DEF TimeInv
  <2>7. CreationInv' /\ JobsInv'
    BY <1>1, <2>3, <2>4 DEF SandboxInv, CreationInv, JobsInv
  <2>8. CustomerDeleted'
    BY <1>1, <2>3, <2>4, RecordsAre DEF CustomerDeleted
  <2>9. SweeperDeleted'
    BY <1>1, <2>3, <2>4, RecordsAre DEF SandboxInv, SweeperDeleted
  <2>10. Settled'
    BY <1>1, <2>3, <2>4, RecordsAre DEF SandboxInv, Settled
  <2> QED BY <2>5, <2>6, <2>7, <2>8, <2>9, <2>10 DEF SandboxInv
<1> QED BY <1>2, <1>3, <1>4 DEF CustomerRecords

LEMMA CustomerClosesStep ==
  ASSUME SandboxInv, CustomerCloses
  PROVE  SandboxInv'
<1>1. /\ SandboxTypeOK /\ TimeInv /\ customer.pc = "close" /\ customer.action \in {"remove", "delete"}
      /\ UNCHANGED <<sandbox, metered, brezel, clock, creator, sweeper, used>>
  BY DEF SandboxInv, CustomerCloses, JobsInv
<1>2. /\ hold' \in SandboxHolds /\ hold'.activated = hold.activated
      /\ \/ hold' = hold
         \/ hold.state = "reserved" /\ hold'.state = "released"
         \/ /\ hold.state = "reserved" /\ hold'.state = "settled" /\ customer.action = "delete"
            /\ hold'.charged = Min({metered, Lifetime})
  <2>1. PICK state \in {"released", "settled"} : Finalize(state) /\ (state = "settled" => customer.action = "delete")
    BY <1>1 DEF CustomerCloses
  <2> QED BY <1>1, <2>1, FinalizeIs
<1>3. CustomerKnows(customer') /\ customer'.pc = "idle"
  BY <1>1, IdleCustomerIs DEF CustomerCloses, CustomerKnows
<1>4. SandboxTypeOK'
  BY <1>1, <1>2, <1>3 DEF SandboxTypeOK, CustomerKnows
<1>5. TimeInv' /\ CreationInv' /\ JobsInv'
  BY <1>1, <1>2, <1>3 DEF SandboxInv, TimeInv, CreationInv, JobsInv, CustomerKnows
<1>6. CustomerDeleted' /\ SweeperDeleted'
  BY <1>1, <1>2, <1>3 DEF SandboxInv, CustomerDeleted, SweeperDeleted
<1>7. Settled'
  BY <1>1, <1>2, <1>3 DEF SandboxInv, CustomerDeleted, Settled
<1> QED BY <1>4, <1>5, <1>6, <1>7 DEF SandboxInv

-----------------------------------------------------------------------------
(* Sandboxes: the reconciler.                                              *)

\* What a job of the reconciler may know.
SweeperKnows(s) ==
  /\ s \in Sweepers /\ s.since <= clock /\ s.at <= clock /\ s.now <= clock
  /\ s.job = "activated" => hold.activated
  /\ s.job = "unreserved" => hold.state = "released"
  /\ s.pc \in {"get", "observed"} => s.job \in {"activated", "unreserved"}

LEMMA SweeperMoves ==
  ASSUME SandboxInv, SweeperKnows(sweeper'), sweeper.pc # "idle" \/ hold.state # "settled", sweeper'.pc # "close",
         brezel' \in Providers, used' \in Uses, UNCHANGED <<sandbox, hold, metered, clock, creator, customer>>
  PROVE  SandboxInv'
<1>1. SandboxTypeOK'
  BY DEF SandboxInv, SandboxTypeOK, SweeperKnows
<1>2. TimeInv' /\ CreationInv' /\ JobsInv'
  BY DEF SandboxInv, TimeInv, CreationInv, JobsInv, SweeperKnows
<1>3. CustomerDeleted' /\ SweeperDeleted' /\ Settled'
  BY DEF SandboxInv, CustomerDeleted, SweeperDeleted, Settled
<1> QED BY <1>1, <1>2, <1>3 DEF SandboxInv

LEMMA SweeperNow == ASSUME SandboxInv PROVE SweeperKnows(sweeper)
  BY DEF SandboxInv, SandboxTypeOK, TimeInv, JobsInv, SweeperKnows

LEMMA IdleSweeperIs ==
  ASSUME SandboxTypeOK
  PROVE  SweeperKnows(IdleSweeper) /\ IdleSweeper.pc = "idle" /\ IdleSweeper.job = "none"
<1>1. clock \in 0..MaxClock /\ MaxClock \in Nat
  BY TimesAre DEF SandboxTypeOK
<1>2. IdleSweeper \in Sweepers
  BY <1>1 DEF IdleSweeper, Sweepers, SandboxStatuses
<1> QED BY <1>1, <1>2 DEF SweeperKnows, IdleSweeper

LEMMA SweeperStops ==
  ASSUME SandboxInv, sweeper' = IdleSweeper, used' \in Uses, brezel' \in Providers,
         UNCHANGED <<sandbox, hold, metered, clock, creator, customer>>, sweeper.pc # "idle"
  PROVE  SandboxInv'
<1>1. SweeperKnows(sweeper') /\ sweeper'.pc = "idle"
  BY IdleSweeperIs DEF SandboxInv
<1> QED BY <1>1, SweeperMoves

LEMMA StartJobStep ==
  ASSUME SandboxInv, NEW job \in {"unactivated", "activated", "orphan", "unreserved", "interrupted"}, StartJob(job)
  PROVE  SandboxInv'
<1>1. SandboxTypeOK /\ UNCHANGED <<sandbox, hold, metered, brezel, clock, creator, customer, used>>
  BY DEF SandboxInv, StartJob
<1>2. /\ hold.state # "settled" /\ (job = "activated" => hold.activated)
      /\ job = "unreserved" => hold.state = "released"
  BY <1>1, RecordsAre DEF SandboxInv, StartJob, Job, OpenHold, CreationInv, Settled
<1>3. PICK pc, row, t, expires, idle :
        /\ pc = FirstStep(job) /\ row = sandbox /\ t = clock
        /\ expires = (IF job = "activated" THEN hold.expires ELSE 0) /\ idle = IdleSweeper
  OBVIOUS
<1>4. /\ row \in SandboxRows /\ t \in 0..MaxClock /\ row.since <= t /\ expires \in 0..MaxClock /\ idle \in Sweepers
      /\ pc \in {"get", "pending", "recover"} /\ (pc = "get" => job \in {"activated", "unreserved"})
  BY <1>1, <1>3, IdleSweeperIs, TimesAre DEF SandboxInv, SandboxTypeOK, TimeInv, FirstStep, SandboxHolds, SweeperKnows
<1>5. sweeper' = [idle EXCEPT !.pc = pc, !.job = job, !.status = row.status, !.ws = row.ws, !.sb = row.sb,
                              !.since = row.since, !.now = t, !.at = t, !.expires = expires]
  BY <1>3 DEF StartJob
<1>6. /\ sweeper' \in Sweepers /\ sweeper'.pc = pc /\ sweeper'.job = job /\ sweeper'.since = row.since
      /\ sweeper'.now = t /\ sweeper'.at = t
  BY <1>4, <1>5 DEF Sweepers, SandboxRows
<1>7. SweeperKnows(sweeper')
  BY <1>1, <1>2, <1>3, <1>4, <1>6, TimesAre DEF SweeperKnows
<1>8. brezel' \in Providers /\ used' \in Uses
  BY <1>1 DEF SandboxTypeOK
<1> QED BY <1>1, <1>2, <1>4, <1>6, <1>7, <1>8, SweeperMoves

LEMMA GetsStep ==
  ASSUME SandboxInv, SweeperGets
  PROVE  SandboxInv'
<1>1. /\ SandboxTypeOK /\ sweeper.pc = "get"
      /\ UNCHANGED <<sandbox, hold, metered, brezel, clock, creator, customer>>
  BY DEF SandboxInv, SweeperGets
<1>2. used' \in Uses /\ brezel' \in Providers
  BY <1>1, FaultIs DEF SweeperGets, SandboxTypeOK
<1>3. CASE sweeper' = IdleSweeper
  BY <1>1, <1>2, <1>3, SweeperStops
<1>4. CASE sweeper' # IdleSweeper
  <2>0. PICK old, u : old = sweeper /\ u = TransitionAt(brezel.since, old.since, old.now)
    OBVIOUS
  <2>1. SweeperKnows(old) /\ old \in Sweepers /\ old.at \in 0..MaxClock /\ old.now \in 0..MaxClock
    BY <1>1, <2>0, SweeperNow, RecordsAre DEF SweeperKnows
  <2>2. u \in 0..MaxClock /\ u <= clock
    BY <1>1, <2>0, <2>1, TransitionAtIs, RecordsAre DEF SweeperKnows
  <2>3. PICK noted \in SandboxStatuses, at \in {old.now, u, old.at} :
          sweeper' = [old EXCEPT !.pc = "observed", !.seen = noted, !.at = at]
    <3>1. CASE sweeper' = [old EXCEPT !.pc = "observed", !.seen = "unknown"]
      <4>1. sweeper' = [old EXCEPT !.pc = "observed", !.seen = "unknown", !.at = old.at]
        BY <2>1, <3>1 DEF Sweepers
      <4>2. "unknown" \in SandboxStatuses
        BY DEF SandboxStatuses
      <4> QED BY <4>1, <4>2
    <3>2. CASE \E noted \in Reports :
                 sweeper' = [old EXCEPT !.pc = "observed", !.seen = noted,
                               !.at = IF noted = "absent" THEN old.now ELSE u]
      <4>1. PICK noted \in Reports :
                 sweeper' = [old EXCEPT !.pc = "observed", !.seen = noted,
                               !.at = IF noted = "absent" THEN old.now ELSE u]
        BY <3>2
      <4>2. noted \in SandboxStatuses
        BY <1>1 DEF Reports, SandboxTypeOK, Providers, Live, Ended, SandboxStatuses
      <4> QED BY <4>1, <4>2
    <3> QED BY <1>4, <2>0, <3>1, <3>2 DEF SweeperGets
  <2>4. /\ sweeper' \in Sweepers /\ sweeper'.pc = "observed" /\ sweeper'.job = old.job /\ sweeper'.at = at
        /\ sweeper'.since = old.since /\ sweeper'.now = old.now
    BY <2>1, <2>2, <2>3 DEF Sweepers
  <2>5. SweeperKnows(sweeper')
    BY <1>1, <2>0, <2>1, <2>2, <2>3, <2>4 DEF SweeperKnows
  <2> QED BY <1>1, <1>2, <2>4, <2>5, SweeperMoves
<1> QED BY <1>3, <1>4

\* The reconciler records a transition: to running only from a job that found
\* the hold activated, or closed.
LEMMA SweeperRecords ==
  ASSUME SandboxInv, sweeper.pc # "idle", NEW status \in SandboxStatuses, NEW at \in 0..MaxClock, at <= clock,
         RecordNativeSandboxTransition(status, at), status = "running" => sweeper.job \in {"activated", "unreserved"},
         SweeperKnows(sweeper'), sweeper'.pc = "close" => status = "deleted",
         UNCHANGED <<hold, brezel, clock, creator, customer, used>>
  PROVE  SandboxInv'
<1>1. SandboxTypeOK /\ TimeInv
  BY DEF SandboxInv
<1>2. /\ sandbox' \in SandboxRows /\ sandbox'.status = status /\ sandbox'.sb = sandbox.sb
      /\ sandbox'.deleted = (sandbox.deleted \/ status = "deleted")
      /\ sandbox'.since \in Nat /\ metered' \in Nat /\ metered' <= sandbox'.since /\ sandbox'.since <= clock
      /\ sandbox.status # "running" => metered' = metered
      /\ sandbox.status = "deleted" => status = "deleted"
  BY <1>1, TransitionIs
<1>3. SandboxTypeOK'
  BY <1>1, <1>2 DEF SandboxTypeOK, SweeperKnows
<1>4. TimeInv'
  BY <1>1, <1>2 DEF TimeInv, SweeperKnows
<1>5. CreationInv' /\ JobsInv'
  BY <1>1, <1>2 DEF SandboxInv, CreationInv, JobsInv, SweeperKnows
<1>6. CustomerDeleted'
  BY <1>1, <1>2, RecordsAre DEF SandboxInv, JobsInv, CustomerDeleted
<1>7. SweeperDeleted'
  BY <1>1, <1>2, RecordsAre DEF SweeperDeleted
<1>8. Settled'
  BY <1>1, <1>2, RecordsAre DEF SandboxInv, JobsInv, Settled
<1> QED BY <1>3, <1>4, <1>5, <1>6, <1>7, <1>8 DEF SandboxInv

LEMMA ObservesStep ==
  ASSUME SandboxInv, SweeperObserves
  PROVE  SandboxInv'
<1>1. /\ SandboxTypeOK /\ TimeInv /\ sweeper.pc = "observed" /\ sweeper.job \in {"activated", "unreserved"}
      /\ UNCHANGED <<hold, brezel, clock, creator, customer, used>>
      /\ used' \in Uses /\ brezel' \in Providers
  BY DEF SandboxInv, SweeperObserves, SandboxTypeOK, JobsInv
<1>0. PICK old : old = sweeper
  OBVIOUS
<1>2. /\ SweeperKnows(old) /\ old \in Sweepers /\ old.at \in 0..MaxClock /\ old.now \in 0..MaxClock
      /\ old.since \in 0..MaxClock /\ old.expires \in 0..MaxClock /\ old.seen \in SandboxStatuses
      /\ old.at <= clock /\ old.now <= clock /\ old.since <= clock /\ clock \in 0..MaxClock /\ MaxClock \in Nat
  BY <1>0, <1>1, SweeperNow, RecordsAre, TimesAre DEF SweeperKnows, Sweepers
<1>3. CASE UNCHANGED <<sandbox, metered>> /\ sweeper' = IdleSweeper
  BY <1>1, <1>3, SweeperStops
<1>4. CASE /\ IF Records THEN RecordNativeSandboxTransition(sweeper.seen, sweeper.at)
              ELSE UNCHANGED <<sandbox, metered>>
           /\ LET status == IF Records THEN sweeper.seen ELSE sweeper.status
                  since == IF Records THEN sandbox'.since ELSE sweeper.since IN
              sweeper' = IF ~SandboxIsOver /\ ~Expired THEN IdleSweeper
                         ELSE [sweeper EXCEPT !.pc = IF status = "cleanup_pending" THEN "delete" ELSE "pending",
                                 !.status = status, !.since = 0, !.seen = "absent", !.expires = 0,
                                 !.at = IF sweeper.job = "activated" THEN EndedAt(since) ELSE @]
  <2>1. PICK since, ended, status, pc :
          /\ since = (IF Records THEN sandbox'.since ELSE old.since)
          /\ status = (IF Records THEN old.seen ELSE old.status)
          /\ pc = (IF status = "cleanup_pending" THEN "delete" ELSE "pending")
          /\ ended = (IF old.job = "activated" THEN EndedAt(since) ELSE old.at)
    OBVIOUS
  <2>2. Records => /\ sandbox' \in SandboxRows /\ sandbox'.since <= clock /\ sandbox'.since \in Nat
    BY <1>0, <1>1, <1>2, <1>4, TransitionIs
  <2>3. since \in 0..MaxClock /\ since <= clock
    BY <1>2, <2>1, <2>2
  <2>4. ended \in 0..MaxClock /\ ended <= clock
    <3>1. PICK over : over = (IF Expired THEN old.expires ELSE old.now)
      OBVIOUS
    <3>2. over \in 0..MaxClock /\ over <= clock
      BY <1>0, <1>2, <3>1 DEF Expired
    <3>3. Max({since, over}) \in 0..MaxClock /\ Max({since, over}) <= clock
      BY <1>2, <2>3, <3>2, MaxOfTwo
    <3>4. EndedAt(since) = Max({since, over})
      BY <1>0, <3>1 DEF EndedAt
    <3> QED BY <1>2, <2>1, <3>3, <3>4
  <2>5. \/ sweeper' = IdleSweeper
        \/ sweeper' = [old EXCEPT !.pc = pc, !.status = status, !.since = 0, !.seen = "absent", !.expires = 0,
                                  !.at = ended]
    BY <1>0, <1>4, <2>1
  <2>6. SweeperKnows(sweeper') /\ sweeper'.pc # "close"
    <3>0. IdleSweeper.pc # "close" /\ SweeperKnows(IdleSweeper)
      BY <1>1, IdleSweeperIs
    <3>1. CASE sweeper' = IdleSweeper
      BY <1>1, <3>0, <3>1 DEF SweeperKnows
    <3>2. CASE sweeper' = [old EXCEPT !.pc = pc, !.status = status, !.since = 0, !.seen = "absent", !.expires = 0,
                                  !.at = ended]
      <4>1. "absent" \in SandboxStatuses /\ status \in SandboxStatuses /\ pc \in {"delete", "pending"}
        BY <1>2, <2>1 DEF SandboxStatuses, Sweepers
      <4>0. 0 \in 0..MaxClock
        BY TimesAre
      <4>2. /\ sweeper' \in Sweepers /\ sweeper'.pc = pc /\ sweeper'.job = old.job /\ sweeper'.since = 0
            /\ sweeper'.now = old.now /\ sweeper'.at = ended
        BY <1>2, <2>4, <3>2, <4>0, <4>1 DEF Sweepers
      <4> QED BY <1>1, <1>2, <2>4, <4>1, <4>2 DEF SweeperKnows
    <3> QED BY <2>5, <3>1, <3>2
  <2>7. CASE Records
    BY <1>0, <1>1, <1>2, <1>4, <2>6, <2>7, SweeperRecords
  <2>8. CASE ~Records
    BY <1>1, <1>4, <2>6, <2>8, SweeperMoves
  <2> QED BY <2>7, <2>8
<1> QED BY <1>3, <1>4 DEF SweeperObserves

LEMMA MarksPendingStep ==
  ASSUME SandboxInv, SweeperMarksPending
  PROVE  SandboxInv'
<1>1. /\ SandboxTypeOK /\ sweeper.pc = "pending" /\ UNCHANGED <<hold, brezel, clock, creator, customer, used>>
      /\ used' \in Uses /\ brezel' \in Providers
  BY DEF SandboxInv, SweeperMarksPending, SandboxTypeOK
<1>2. CASE UNCHANGED <<sandbox, metered>> /\ sweeper' = IdleSweeper
  BY <1>1, <1>2, SweeperStops
<1>3. CASE /\ RecordNativeSandboxTransition("cleanup_pending", sweeper.at)
           /\ sweeper' = [sweeper EXCEPT !.pc = "recover", !.status = "cleanup_pending",
                            !.ws = sandbox.ws, !.sb = sandbox.sb, !.since = 0]
  <2>0. PICK old, ws, sb : old = sweeper /\ ws = sandbox.ws /\ sb = sandbox.sb
    OBVIOUS
  <2>1. /\ SweeperKnows(old) /\ old \in Sweepers /\ ws \in BOOLEAN /\ sb \in BOOLEAN
        /\ old.at \in 0..MaxClock /\ old.at <= clock /\ clock \in 0..MaxClock /\ MaxClock \in Nat
        /\ "cleanup_pending" \in SandboxStatuses
    BY <1>1, <2>0, SweeperNow, RecordsAre, TimesAre DEF SweeperKnows, SandboxStatuses
  <2>2. /\ sweeper' \in Sweepers /\ sweeper'.pc = "recover" /\ sweeper'.job = old.job /\ sweeper'.since = 0
        /\ sweeper'.now = old.now /\ sweeper'.at = old.at
    <3>1. sweeper' = [old EXCEPT !.pc = "recover", !.status = "cleanup_pending", !.ws = ws, !.sb = sb, !.since = 0]
      BY <1>3, <2>0
    <3>2. 0 \in 0..MaxClock
      BY <2>1
    <3> QED BY <2>1, <3>1, <3>2 DEF Sweepers
  <2>3. SweeperKnows(sweeper')
    BY <1>1, <2>1, <2>2 DEF SweeperKnows
  <2> QED BY <1>1, <1>3, <2>0, <2>1, <2>2, <2>3, SweeperRecords
<1> QED BY <1>2, <1>3 DEF SweeperMarksPending

LEMMA RecoverStep ==
  ASSUME SandboxInv, RecoverWorkspace
  PROVE  SandboxInv'
<1>1. /\ SandboxTypeOK /\ TimeInv /\ sweeper.pc = "recover"
      /\ UNCHANGED <<hold, metered, clock, creator, customer, used>> /\ used' \in Uses
  BY DEF SandboxInv, RecoverWorkspace, SandboxTypeOK
<1>2. brezel' \in Providers
  BY <1>1, ProviderKept DEF RecoverWorkspace, SandboxTypeOK
<1>3. PICK old, row, t : old = sweeper /\ row = sandbox /\ t = clock
  OBVIOUS
<1>4. SweeperKnows(old) /\ old \in Sweepers /\ row \in SandboxRows /\ t \in 0..MaxClock /\ row.since <= t
  BY <1>1, <1>3, SweeperNow DEF SweeperKnows, SandboxTypeOK, TimeInv
<1>5. CASE UNCHANGED sandbox /\ sweeper' = IdleSweeper
  BY <1>1, <1>2, <1>5, SweeperStops
<1>6. CASE UNCHANGED sandbox /\ sweeper' = [sweeper EXCEPT !.pc = "delete"]
  <2>1. /\ sweeper' \in Sweepers /\ sweeper'.pc = "delete" /\ sweeper'.job = old.job /\ sweeper'.since = old.since
        /\ sweeper'.now = old.now /\ sweeper'.at = old.at
    BY <1>3, <1>4, <1>6 DEF Sweepers
  <2>2. SweeperKnows(sweeper')
    BY <1>1, <1>4, <2>1 DEF SweeperKnows
  <2> QED BY <1>1, <1>2, <1>6, <2>1, <2>2, SweeperMoves
<1>7. CASE /\ ~RefsRefused /\ SetNativeSandboxProviderRefs(TRUE, FALSE, "cleanup_pending")
           /\ sweeper' = [sweeper EXCEPT !.pc = "delete", !.ws = TRUE, !.sb = sandbox.sb]
  <2>1. /\ sweeper' \in Sweepers /\ sweeper'.pc = "delete" /\ sweeper'.job = old.job /\ sweeper'.since = old.since
        /\ sweeper'.now = old.now /\ sweeper'.at = old.at
    BY <1>3, <1>4, <1>7 DEF Sweepers, SandboxRows
  <2>2. SweeperKnows(sweeper')
    BY <1>1, <1>4, <2>1 DEF SweeperKnows
  <2>3. PICK since : since = (IF row.status # "cleanup_pending" THEN t ELSE row.since)
    OBVIOUS
  <2>4. since \in 0..MaxClock /\ since >= row.since /\ since <= t
    BY <1>4, <2>3 DEF SandboxRows
  <2>5. sandbox' = [row EXCEPT !.ws = TRUE, !.sb = row.sb, !.status = "cleanup_pending", !.since = since]
    BY <1>3, <1>4, <1>7, <2>3 DEF SetNativeSandboxProviderRefs, SandboxRows
  <2>6. /\ sandbox' \in SandboxRows /\ sandbox'.since = since /\ sandbox'.deleted = row.deleted
        /\ sandbox'.sb = row.sb /\ sandbox'.status = "cleanup_pending"
    <3>1. "cleanup_pending" \in SandboxStatuses
      BY DEF SandboxStatuses
    <3> QED BY <1>4, <2>4, <2>5, <3>1 DEF SandboxRows
  <2>7. ~sandbox.deleted /\ ~sandbox'.deleted
    BY <1>3, <1>7, <2>6 DEF RefsRefused
  <2>8. SandboxTypeOK'
    BY <1>1, <1>2, <2>1, <2>6 DEF SandboxTypeOK
  <2>9. TimeInv'
    BY <1>1, <1>3, <2>2, <2>4, <2>6, RecordsAre DEF TimeInv, SweeperKnows
  <2>10. CreationInv' /\ JobsInv'
    BY <1>1, <1>3, <2>2, <2>6 DEF SandboxInv, CreationInv, JobsInv, SweeperKnows
  <2>11. CustomerDeleted' /\ Settled'
    BY <1>1, <2>6, <2>7 DEF SandboxInv, CustomerDeleted, Settled, CreationInv
  <2>12. SweeperDeleted'
    BY <2>1, <2>7 DEF SweeperDeleted
  <2> QED BY <2>8, <2>9, <2>10, <2>11, <2>12 DEF SandboxInv
<1> QED BY <1>5, <1>6, <1>7 DEF RecoverWorkspace

LEMMA DeletesStep ==
  ASSUME SandboxInv, SweeperDeletesCompute \/ SweeperDeletesWorkspace
  PROVE  SandboxInv'
<1>1. /\ SandboxTypeOK /\ TimeInv /\ sweeper.pc \in {"delete", "workspace"}
      /\ UNCHANGED <<sandbox, hold, metered, clock, creator, customer, used>> /\ used' \in Uses
  BY DEF SandboxInv, SweeperDeletesCompute, SweeperDeletesWorkspace, SandboxTypeOK
<1>2. brezel' \in Providers
  BY <1>1, ProviderKept DEF SweeperDeletesCompute, SweeperDeletesWorkspace, SandboxTypeOK
<1>3. CASE sweeper' = IdleSweeper
  BY <1>1, <1>2, <1>3, SweeperStops
<1>4. CASE \E pc \in {"workspace", "deleted"} : sweeper' = [sweeper EXCEPT !.pc = pc]
  <2>0. PICK old : old = sweeper
    OBVIOUS
  <2>1. PICK pc \in {"workspace", "deleted"} : sweeper' = [old EXCEPT !.pc = pc]
    BY <1>4, <2>0
  <2>2. SweeperKnows(old) /\ old \in Sweepers
    BY <1>1, <2>0, SweeperNow DEF SweeperKnows
  <2>3. /\ sweeper' \in Sweepers /\ sweeper'.pc = pc /\ sweeper'.job = old.job /\ sweeper'.since = old.since
        /\ sweeper'.now = old.now /\ sweeper'.at = old.at
    BY <2>1, <2>2 DEF Sweepers
  <2>4. SweeperKnows(sweeper')
    BY <1>1, <2>2, <2>3 DEF SweeperKnows
  <2> QED BY <1>1, <1>2, <2>3, <2>4, SweeperMoves
<1> QED BY <1>3, <1>4 DEF SweeperDeletesCompute, SweeperDeletesWorkspace

LEMMA MarksDeletedStep ==
  ASSUME SandboxInv, SweeperMarksDeleted
  PROVE  SandboxInv'
<1>1. /\ SandboxTypeOK /\ sweeper.pc = "deleted" /\ UNCHANGED <<hold, brezel, clock, creator, customer, used>>
  BY DEF SandboxInv, SweeperMarksDeleted
<1>2. PICK at \in {sweeper.at, sweeper.now} : RecordNativeSandboxTransition("deleted", at)
  BY DEF SweeperMarksDeleted
<1>3. PICK job, idle : job = sweeper.job /\ idle = IdleSweeper
  OBVIOUS
<1>4. /\ at \in 0..MaxClock /\ at <= clock /\ "deleted" \in SandboxStatuses
      /\ SweeperKnows(idle) /\ idle \in Sweepers /\ (job = "activated" => hold.activated)
  BY <1>1, <1>2, <1>3, IdleSweeperIs, SweeperNow, RecordsAre DEF SweeperKnows, SandboxStatuses
<1>5. sweeper' = idle \/ (job \in {"unactivated", "activated"} /\ sweeper' = [idle EXCEPT !.pc = "close", !.job = job])
  BY <1>3 DEF SweeperMarksDeleted
<1>6. CASE sweeper' = idle
  <2>1. SweeperKnows(sweeper')
    BY <1>1, <1>4, <1>6 DEF SweeperKnows
  <2> QED BY <1>1, <1>2, <1>4, <2>1, SweeperRecords
<1>7. CASE job \in {"unactivated", "activated"} /\ sweeper' = [idle EXCEPT !.pc = "close", !.job = job]
  <2>1. /\ sweeper' \in Sweepers /\ sweeper'.pc = "close" /\ sweeper'.job = job /\ sweeper'.since = idle.since
        /\ sweeper'.now = idle.now /\ sweeper'.at = idle.at
    BY <1>4, <1>7 DEF Sweepers
  <2>2. SweeperKnows(sweeper')
    BY <1>1, <1>4, <1>7, <2>1 DEF SweeperKnows
  <2> QED BY <1>1, <1>2, <1>4, <2>2, SweeperRecords
<1> QED BY <1>5, <1>6, <1>7

LEMMA SweeperClosesStep ==
  ASSUME SandboxInv, SweeperCloses
  PROVE  SandboxInv'
<1>1. /\ SandboxTypeOK /\ TimeInv /\ sweeper.pc = "close"
      /\ UNCHANGED <<sandbox, metered, brezel, clock, creator, customer, used>>
  BY DEF SandboxInv, SweeperCloses
<1>2. /\ hold' \in SandboxHolds /\ hold'.activated = hold.activated
      /\ \/ hold' = hold
         \/ hold.state = "reserved" /\ hold'.state = "released"
         \/ /\ hold.state = "reserved" /\ hold'.state = "settled" /\ sweeper.job = "activated"
            /\ hold'.charged = Min({metered, Lifetime})
  <2>1. PICK state \in {"released", "settled"} : Finalize(state) /\ (state = "settled" => sweeper.job = "activated")
    BY DEF SweeperCloses
  <2> QED BY <1>1, <2>1, FinalizeIs
<1>3. SweeperKnows(IdleSweeper) /\ sweeper' = IdleSweeper /\ sweeper'.pc = "idle" /\ sweeper'.job = "none"
  BY <1>1, IdleSweeperIs DEF SweeperCloses
<1>4. SandboxTypeOK'
  BY <1>1, <1>2, <1>3 DEF SandboxTypeOK, SweeperKnows
<1>5. TimeInv' /\ CreationInv' /\ JobsInv'
  BY <1>1, <1>2, <1>3 DEF SandboxInv, TimeInv, CreationInv, JobsInv, SweeperKnows
<1>6. CustomerDeleted' /\ SweeperDeleted'
  BY <1>1, <1>2, <1>3 DEF SandboxInv, CustomerDeleted, SweeperDeleted
<1>7. Settled'
  BY <1>1, <1>2, <1>3, RecordsAre DEF SandboxInv, JobsInv, SweeperDeleted, Settled
<1> QED BY <1>4, <1>5, <1>6, <1>7 DEF SandboxInv

-----------------------------------------------------------------------------
(* Sandboxes: the provider, time, processes that stop, and the theorems.   *)

LEMMA SurroundingsStep ==
  ASSUME SandboxInv, FinishDeletion \/ Expire \/ Tick
  PROVE  SandboxInv'
<1>0. PICK b, t : b = brezel /\ t = clock
  OBVIOUS
<1>1. /\ SandboxTypeOK /\ TimeInv /\ UNCHANGED <<sandbox, hold, metered, creator, customer, sweeper, used>>
      /\ b \in Providers /\ t \in 0..MaxClock /\ MaxClock \in Nat /\ LastCreate \in Nat
  BY <1>0, TimesAre DEF SandboxInv, SandboxTypeOK, FinishDeletion, Expire, Tick
<1>2. brezel' \in Providers
  <2>1. \/ brezel' = b \/ \E sb \in {"deleted", "expired"} : brezel' = [b EXCEPT !.sb = sb, !.since = t]
    BY <1>0 DEF FinishDeletion, Expire, Tick
  <2> QED BY <1>1, <2>1 DEF Providers, Ended
<1>3. clock' \in 0..MaxClock /\ clock' >= clock /\ (creator.pc # "idle" => clock' <= LastCreate)
  BY <1>0, <1>1 DEF FinishDeletion, Expire, Tick, TimeInv
<1>4. SandboxTypeOK'
  BY <1>1, <1>2, <1>3 DEF SandboxTypeOK
<1>5. TimeInv'
  BY <1>1, <1>3, RecordsAre DEF TimeInv
<1>6. CreationInv' /\ JobsInv'
  BY <1>1 DEF SandboxInv, CreationInv, JobsInv
<1>7. CustomerDeleted' /\ SweeperDeleted' /\ Settled'
  BY <1>1 DEF SandboxInv, CustomerDeleted, SweeperDeleted, Settled
<1> QED BY <1>4, <1>5, <1>6, <1>7 DEF SandboxInv

LEMMA SandboxStopsStep ==
  ASSUME SandboxInv, Stops
  PROVE  SandboxInv'
<1>1. /\ SandboxTypeOK /\ UNCHANGED <<sandbox, hold, metered, brezel, clock>>
      /\ used' \in Uses /\ brezel' \in Providers
  BY FaultIs DEF SandboxInv, Stops, SandboxTypeOK
<1>2. CASE creator.pc # "idle" /\ creator' = IdleCreator /\ UNCHANGED <<customer, sweeper>>
  <2>1. creator' \in Creators /\ creator'.pc \in Unstarted \ {"activate"}
    BY <1>2, IdleCreatorIs DEF Unstarted
  <2> QED BY <1>1, <1>2, <2>1, CreatorMoves
<1>3. CASE customer.pc # "idle" /\ customer' = IdleCustomer /\ UNCHANGED <<creator, sweeper>>
  BY <1>1, <1>3, CustomerStops
<1>4. CASE sweeper.pc # "idle" /\ sweeper' = IdleSweeper /\ UNCHANGED <<creator, customer>>
  BY <1>1, <1>4, SweeperStops
<1> QED BY <1>2, <1>3, <1>4 DEF Stops

LEMMA SandboxStarts ==
  ASSUME SandboxInit
  PROVE  SandboxInv
<1>1. 0 \in 0..MaxClock /\ 0 \in 0..Lifetime
  BY TimesAre
<1>2. sandbox \in SandboxRows /\ hold \in SandboxHolds /\ brezel \in Providers
  BY <1>1 DEF SandboxInit, SandboxRows, SandboxHolds, Providers, SandboxStatuses
<1>3. creator \in Creators /\ customer \in Customers /\ sweeper \in Sweepers
  BY <1>1 DEF SandboxInit, Creators, Customers, Sweepers, IdleCreator, IdleCustomer, IdleSweeper, SandboxStatuses
<1>4. used \in Uses
  BY NativeSandboxConstants DEF SandboxInit, Uses
<1>5. SandboxTypeOK
  BY <1>1, <1>2, <1>3, <1>4 DEF SandboxInit, SandboxTypeOK
<1>6. TimeInv /\ CreationInv /\ JobsInv /\ CustomerDeleted /\ SweeperDeleted /\ Settled
  BY <1>1 DEF SandboxInit, TimeInv, CreationInv, JobsInv, CustomerDeleted, SweeperDeleted, Settled,
    IdleCreator, IdleCustomer, IdleSweeper, Reserving
<1> QED BY <1>5, <1>6 DEF SandboxInv

LEMMA SandboxStays ==
  ASSUME SandboxInv, [SandboxNext]_sandboxVars
  PROVE  SandboxInv'
<1>1. CASE UNCHANGED sandboxVars
  BY <1>1 DEF sandboxVars, SandboxInv, SandboxTypeOK, TimeInv, CreationInv, JobsInv, CustomerDeleted,
    SweeperDeleted, Settled
<1>2. CASE CreateNativeSandbox \/ CreatorStep
  BY <1>2, CreateStep, ReserveStep, ProviderCallsStep, RecordStep, ActivateHoldStep, UndoProviderStep,
    UndoStatusStep, UndoHoldStep DEF CreatorStep
<1>3. CASE \E action \in {"pause", "resume", "delete", "remove", "observe"} : OwnedSandbox(action)
  BY <1>3, OwnedStep
<1>4. CASE CustomerStep
  BY <1>4, MutateStep, SandboxRefusedStep, ObserveStep, CustomerWorkspaceStep, CustomerRecordsStep, CustomerClosesStep
    DEF CustomerStep
<1>5. CASE SweeperStep
  BY <1>5, StartJobStep, GetsStep, ObservesStep, MarksPendingStep, RecoverStep, DeletesStep, MarksDeletedStep,
    SweeperClosesStep DEF SweeperStep
<1>6. CASE ProviderStep \/ Tick
  BY <1>6, SurroundingsStep DEF ProviderStep
<1>7. CASE Stops
  BY <1>7, SandboxStopsStep
<1> QED BY <1>1, <1>2, <1>3, <1>4, <1>5, <1>6, <1>7 DEF SandboxNext

\* The inductive invariant of a sandbox: times that have come, how far the
\* creation is when there is a hold, and that no process still at work can bring
\* a row back to running between its deletion and the settlement, or after it.
THEOREM SandboxInvariance == SandboxSpec => []SandboxInv
<1>1. SandboxInit => SandboxInv
  BY SandboxStarts
<1>2. SandboxInv /\ [SandboxNext]_sandboxVars => SandboxInv'
  BY SandboxStays
<1> QED BY <1>1, <1>2, PTL DEF SandboxSpec

\* The types of a sandbox's row, hold and processes; times stay within the clock.
THEOREM SandboxTypes == SandboxSpec => []SandboxTypeOK
<1>1. SandboxInv => SandboxTypeOK
  BY DEF SandboxInv
<1> QED BY <1>1, SandboxInvariance, PTL

\* Nothing is metered twice, and a settled hold was charged what the meter shows
\* for good, whatever the creation, the customer and the reconciler do at once.
THEOREM BillStaysExact == SandboxSpec => []BillIsExact
<1>1. SandboxInv => BillIsExact
  BY DEF SandboxInv, TimeInv, Settled, BillIsExact
<1> QED BY <1>1, SandboxInvariance, PTL

-----------------------------------------------------------------------------
(* Routes: the invariant.                                                  *)

\* The routes a directory knows of, and those of them that the reaper and the
\* delete fence look at.
Known(dir) == Published(dir) \union dir.retired
Kept(dir) == Concrete(dir) \union dir.retired

\* Only a serverless target is ever said to be cold.
ColdInv ==
  /\ \A r \in Published(directory) : r.cold => r.kind = "direct"
  /\ \A r \in pass.compiled : r.cold => r.kind = "direct"
  /\ \A r \in refresh.compiled : r.cold => r.kind = "direct"
  /\ \A q \in Requests : request[q].route # NoRoute /\ request[q].route.cold => request[q].route.kind = "direct"

\* The router of a concrete route runs.
ConcreteRuns ==
  \A r \in Concrete(directory) : r.kind = "router" => <<r.dep, r.gen>> \in routers

HeldCurrent(q) == request[q].route # NoRoute /\ request[q].current /\ request[q].route.kind = "router"

\* What the reaper is about to stop is not concrete, and was not when any
\* request that still runs acquired it.
ReapInv ==
  pass.pc = "reap" =>
    \A r \in pass.reaping : r.kind = "router" =>
      /\ routeID(r) \notin IDs(Concrete(directory))
      /\ \A q \in Requests : HeldCurrent(q) => routeID(request[q].route) # routeID(r)

\* A route that was concrete when a running request acquired it is concrete or retired.
HeldKnown ==
  \A q \in Requests : HeldCurrent(q) => routeID(request[q].route) \in IDs(Kept(directory))

RoutersKnown == \A p \in routers : <<p[1], "router", p[2]>> \in IDs(Known(directory))

\* A request that held a deployment's router when the delete fence was first checked.
Early(q, d) == HeldCurrent(q) /\ request[q].route.dep = d /\ q \notin cleanup[d].late

\* Past the first check of the fence such a request holds a route that is retired
\* and stays so; past the second there is none.
FenceInv ==
  \A d \in Deployments : \A q \in Requests : Early(q, d) =>
    /\ cleanup[d].passed # 0 => routeID(request[q].route) \in IDs(directory.retired)
    /\ cleanup[d].passed # 2

RouteInv ==
  /\ RouteTypeOK /\ ColdInv /\ ConcreteRuns /\ ReapInv /\ HeldKnown /\ RoutersKnown /\ FenceInv
  /\ CurrentRouterSurvives

-----------------------------------------------------------------------------
(* Routes: what the operations of the directory do.                        *)

LEMMA DirectoryFields ==
  ASSUME NEW dir \in Directory
  PROVE  /\ dir.items \in [Aliases -> Route \union {NoRoute}] /\ dir.retired \subseteq Route
         /\ dir.endpoint.routes \subseteq Route /\ dir.blocked \in BOOLEAN
         /\ dir.endpoint \in [present: BOOLEAN, routes: SUBSET Route]
         /\ dir.health \in [Deployments -> OverflowState]
  BY DEF Directory

LEMMA RoutesAre ==
  ASSUME NEW dir \in Directory
  PROVE  Concrete(dir) \subseteq Route /\ Published(dir) \subseteq Route /\ Known(dir) \subseteq Route
         /\ Kept(dir) \subseteq Route
<1>1. /\ dir.items \in [Aliases -> Route \union {NoRoute}] /\ dir.retired \subseteq Route
      /\ dir.endpoint.routes \subseteq Route
  BY DirectoryFields
<1>2. Concrete(dir) \subseteq Route
  BY <1>1 DEF Concrete
<1> QED BY <1>1, <1>2 DEF Published, Known, Kept

\* The identity of a route survives its retirement.
LEMMA IdentityIs ==
  ASSUME NEW r \in Route
  PROVE  /\ Identity(r) \in Route /\ routeID(Identity(r)) = routeID(r)
         /\ Identity(r).kind = r.kind /\ Identity(r).dep = r.dep /\ Identity(r).gen = r.gen
<1>1. r.dep \in Aliases
  BY DEF Route, Aliases
<1>2. /\ Identity(r) \in Route /\ Identity(r).kind = r.kind /\ Identity(r).dep = r.dep /\ Identity(r).gen = r.gen
  BY <1>1 DEF Route, Identity
<1> QED BY <1>2 DEF routeID

LEMMA RetireIs ==
  ASSUME NEW dir \in Directory, NEW routes \in SUBSET Route
  PROVE  /\ Retire(dir, routes) \in Directory
         /\ Retire(dir, routes).items = dir.items /\ Retire(dir, routes).endpoint = dir.endpoint
         /\ Retire(dir, routes).health = dir.health /\ Retire(dir, routes).blocked = dir.blocked
         /\ dir.retired \subseteq Retire(dir, routes).retired
         /\ IDs(routes) \subseteq IDs(Retire(dir, routes).retired)
<1>1. PICK retired : retired = dir.retired \union {Identity(r) : r \in routes}
  OBVIOUS
<1>2. retired \subseteq Route
  BY <1>1, DirectoryFields, IdentityIs
<1>3. Retire(dir, routes) = [dir EXCEPT !.retired = retired]
  BY <1>1 DEF Retire
<1>4. /\ Retire(dir, routes) \in Directory /\ Retire(dir, routes).retired = retired
      /\ Retire(dir, routes).items = dir.items /\ Retire(dir, routes).endpoint = dir.endpoint
      /\ Retire(dir, routes).health = dir.health /\ Retire(dir, routes).blocked = dir.blocked
  BY <1>2, <1>3 DEF Directory
<1>5. IDs(routes) \subseteq IDs(retired)
  <2>1. SUFFICES ASSUME NEW r \in routes PROVE routeID(r) \in IDs(retired)
    BY DEF IDs
  <2>2. Identity(r) \in retired /\ routeID(Identity(r)) = routeID(r)
    BY <1>1, IdentityIs
  <2> QED BY <2>2 DEF IDs
<1> QED BY <1>1, <1>4, <1>5

\* An operation that only changes the items of a directory that may have retired
\* what it replaces.
LEMMA ItemsKept ==
  ASSUME NEW dir \in Directory, NEW new \in Directory, new.endpoint = dir.endpoint,
         dir.retired \subseteq new.retired,
         \A a \in Aliases : dir.items[a] # NoRoute => routeID(dir.items[a]) \in IDs(Kept(new))
  PROVE  IDs(Known(dir)) \subseteq IDs(Known(new)) /\ IDs(Kept(dir)) \subseteq IDs(Kept(new))
<1>1. \A r \in Concrete(dir) : routeID(r) \in IDs(Kept(new))
  BY DEF Concrete
<1>2. IDs(Kept(dir)) \subseteq IDs(Kept(new))
  BY <1>1 DEF IDs, Kept
<1>3. IDs(Kept(new)) \subseteq IDs(Known(new))
  BY DEF IDs, Kept, Known, Published
<1>4. IDs(dir.endpoint.routes) \subseteq IDs(Known(new))
  BY DEF IDs, Known, Published
<1>5. IDs(Known(dir)) \subseteq IDs(Known(new))
  BY <1>2, <1>3, <1>4 DEF IDs, Kept, Known, Published
<1> QED BY <1>2, <1>5

LEMMA PutRouteIs ==
  ASSUME NEW dir \in Directory, NEW r \in Route
  PROVE  /\ PutRoute(dir, r) \in Directory /\ PutRoute(dir, r).endpoint = dir.endpoint
         /\ PutRoute(dir, r).items = [dir.items EXCEPT ![r.alias] = r]
         /\ IDs(Known(dir)) \subseteq IDs(Known(PutRoute(dir, r)))
         /\ IDs(Kept(dir)) \subseteq IDs(Kept(PutRoute(dir, r)))
         /\ dir.retired \subseteq PutRoute(dir, r).retired
         /\ r \in Concrete(PutRoute(dir, r)) /\ Concrete(PutRoute(dir, r)) \subseteq Concrete(dir) \union {r}
<1>1. PICK old, new : old = dir.items[r.alias] /\ new = PutRoute(dir, r)
  OBVIOUS
<1>2. PICK kept : kept = IF old # NoRoute /\ routeID(old) # routeID(r) THEN Retire(dir, {old}) ELSE dir
  OBVIOUS
<1>3. r.alias \in Aliases /\ old \in Route \union {NoRoute} /\ r # NoRoute
  BY <1>1, DirectoryFields, RouteServingConstants DEF Route
<1>4. /\ kept \in Directory /\ kept.items = dir.items /\ kept.endpoint = dir.endpoint
      /\ dir.retired \subseteq kept.retired
      /\ old # NoRoute /\ routeID(old) # routeID(r) => routeID(old) \in IDs(kept.retired)
  <2>1. CASE old # NoRoute /\ routeID(old) # routeID(r)
    <3>1. {old} \in SUBSET Route /\ old \in {old}
      BY <1>3, <2>1
    <3>2. kept = Retire(dir, {old}) /\ routeID(old) \in IDs({old})
      BY <1>2, <2>1 DEF IDs
    <3> QED BY <3>1, <3>2, RetireIs
  <2>2. CASE ~(old # NoRoute /\ routeID(old) # routeID(r))
    <3>1. kept = dir
      BY <1>2, <2>2
    <3> QED BY <2>2, <3>1
  <2> QED BY <2>1, <2>2
<1>5. new = [kept EXCEPT !.items[r.alias] = r]
  BY <1>1, <1>2 DEF PutRoute
<1>6. PICK items : items = [dir.items EXCEPT ![r.alias] = r]
  OBVIOUS
<1>7. items \in [Aliases -> Route \union {NoRoute}] /\ items[r.alias] = r
      /\ \A a \in Aliases : a # r.alias => items[a] = dir.items[a]
  BY <1>3, <1>6, DirectoryFields
<1>8. new = [kept EXCEPT !.items = items]
  BY <1>4, <1>5, <1>6 DEF Directory
<1>9. /\ new \in Directory /\ new.items = items /\ new.endpoint = dir.endpoint /\ new.retired = kept.retired
  BY <1>4, <1>7, <1>8 DEF Directory
<1>10. r \in Concrete(new) /\ Concrete(new) \subseteq Concrete(dir) \union {r}
  BY <1>3, <1>7, <1>9 DEF Concrete
<1>11. ASSUME NEW a \in Aliases, dir.items[a] # NoRoute
       PROVE  routeID(dir.items[a]) \in IDs(Kept(new))
  <2>1. CASE a # r.alias
    <3>1. dir.items[a] \in Kept(new)
      BY <1>7, <1>9, <1>11, <2>1 DEF Kept, Concrete
    <3> QED BY <3>1 DEF IDs
  <2>2. CASE a = r.alias /\ routeID(old) = routeID(r)
    BY <1>1, <1>10, <2>2 DEF IDs, Kept
  <2>3. CASE a = r.alias /\ routeID(old) # routeID(r)
    BY <1>1, <1>4, <1>9, <1>11, <2>3 DEF IDs, Kept
  <2> QED BY <2>1, <2>2, <2>3
<1>12. dir.retired \subseteq new.retired
  BY <1>4, <1>9
<1>13. IDs(Known(dir)) \subseteq IDs(Known(new)) /\ IDs(Kept(dir)) \subseteq IDs(Kept(new))
  BY <1>9, <1>11, <1>12, ItemsKept
<1> QED BY <1>1, <1>6, <1>9, <1>10, <1>12, <1>13

\* Aliases are withdrawn: their routes are retired.
LEMMA WithdrawnIs ==
  ASSUME NEW dir \in Directory, NEW aliases \in SUBSET Aliases
  PROVE  /\ Withdrawn(dir, aliases) \in Directory /\ Withdrawn(dir, aliases).endpoint = dir.endpoint
         /\ IDs(Known(dir)) \subseteq IDs(Known(Withdrawn(dir, aliases)))
         /\ IDs(Kept(dir)) \subseteq IDs(Kept(Withdrawn(dir, aliases)))
         /\ dir.retired \subseteq Withdrawn(dir, aliases).retired
         /\ Concrete(Withdrawn(dir, aliases)) \subseteq Concrete(dir)
<1>1. PICK gone, new, kept, items :
        /\ gone = {dir.items[a] : a \in aliases} \ {NoRoute}
        /\ new = Withdrawn(dir, aliases)
        /\ kept = Retire(dir, gone)
        /\ items = [a \in Aliases |-> IF a \in aliases THEN NoRoute ELSE dir.items[a]]
  OBVIOUS
<1>2. gone \in SUBSET Route /\ dir.items \in [Aliases -> Route \union {NoRoute}]
  BY <1>1, DirectoryFields
<1>3. /\ kept \in Directory /\ kept.items = dir.items /\ kept.endpoint = dir.endpoint
      /\ dir.retired \subseteq kept.retired /\ IDs(gone) \subseteq IDs(kept.retired)
  BY <1>1, <1>2, RetireIs
<1>4. items \in [Aliases -> Route \union {NoRoute}]
      /\ \A a \in Aliases : items[a] = IF a \in aliases THEN NoRoute ELSE dir.items[a]
  BY <1>1, <1>2
<1>5. new = [kept EXCEPT !.items = items]
  BY <1>1, <1>3 DEF Withdrawn, Directory
<1>6. new \in Directory /\ new.items = items /\ new.endpoint = dir.endpoint /\ new.retired = kept.retired
  BY <1>3, <1>4, <1>5 DEF Directory
<1>7. Concrete(new) \subseteq Concrete(dir)
  BY <1>4, <1>6 DEF Concrete
<1>8. ASSUME NEW a \in Aliases, dir.items[a] # NoRoute
      PROVE  routeID(dir.items[a]) \in IDs(Kept(new))
  <2>1. CASE a \in aliases
    <3>1. dir.items[a] \in gone
      BY <1>1, <1>8, <2>1
    <3>2. routeID(dir.items[a]) \in IDs(kept.retired)
      BY <1>3, <3>1 DEF IDs
    <3> QED BY <1>6, <3>2 DEF IDs, Kept
  <2>2. CASE a \notin aliases
    <3>1. dir.items[a] \in Kept(new)
      BY <1>4, <1>6, <1>8, <2>2 DEF Kept, Concrete
    <3> QED BY <3>1 DEF IDs
  <2> QED BY <2>1, <2>2
<1>9. dir.retired \subseteq new.retired
  BY <1>3, <1>6
<1>10. IDs(Known(dir)) \subseteq IDs(Known(new)) /\ IDs(Kept(dir)) \subseteq IDs(Kept(new))
  BY <1>6, <1>8, <1>9, ItemsKept
<1> QED BY <1>1, <1>6, <1>7, <1>9, <1>10

\* One alias is withdrawn.
LEMMA RemoveForTenantIs ==
  ASSUME NEW dir \in Directory, NEW a \in Aliases
  PROVE  /\ RemoveForTenant(dir, a) \in Directory /\ RemoveForTenant(dir, a).endpoint = dir.endpoint
         /\ IDs(Known(dir)) \subseteq IDs(Known(RemoveForTenant(dir, a)))
         /\ IDs(Kept(dir)) \subseteq IDs(Kept(RemoveForTenant(dir, a)))
         /\ dir.retired \subseteq RemoveForTenant(dir, a).retired
         /\ Concrete(RemoveForTenant(dir, a)) \subseteq Concrete(dir)
<1>1. PICK old, new, kept, items :
        /\ old = dir.items[a]
        /\ new = RemoveForTenant(dir, a)
        /\ kept = IF old # NoRoute THEN Retire(dir, {old}) ELSE dir
        /\ items = [dir.items EXCEPT ![a] = NoRoute]
  OBVIOUS
<1>2. old \in Route \union {NoRoute} /\ dir.items \in [Aliases -> Route \union {NoRoute}]
  BY <1>1, DirectoryFields
<1>3. /\ kept \in Directory /\ kept.items = dir.items /\ kept.endpoint = dir.endpoint
      /\ dir.retired \subseteq kept.retired
      /\ old # NoRoute => routeID(old) \in IDs(kept.retired)
  <2>1. CASE old # NoRoute
    <3>1. {old} \in SUBSET Route
      BY <1>2, <2>1
    <3>2. kept = Retire(dir, {old}) /\ routeID(old) \in IDs({old})
      BY <1>1, <2>1 DEF IDs
    <3> QED BY <3>1, <3>2, RetireIs
  <2>2. CASE old = NoRoute
    <3>1. kept = dir
      BY <1>1, <2>2
    <3> QED BY <2>2, <3>1
  <2> QED BY <2>1, <2>2
<1>4. items \in [Aliases -> Route \union {NoRoute}] /\ items[a] = NoRoute
      /\ \A b \in Aliases : b # a => items[b] = dir.items[b]
  BY <1>1, <1>2
<1>5. new = [kept EXCEPT !.items = items]
  BY <1>1, <1>3 DEF RemoveForTenant, Directory
<1>6. new \in Directory /\ new.items = items /\ new.endpoint = dir.endpoint /\ new.retired = kept.retired
  BY <1>3, <1>4, <1>5 DEF Directory
<1>7. Concrete(new) \subseteq Concrete(dir)
  BY <1>4, <1>6 DEF Concrete
<1>8. ASSUME NEW b \in Aliases, dir.items[b] # NoRoute
      PROVE  routeID(dir.items[b]) \in IDs(Kept(new))
  <2>1. CASE b = a
    BY <1>1, <1>3, <1>6, <1>8, <2>1 DEF IDs, Kept
  <2>2. CASE b # a
    <3>1. dir.items[b] \in Kept(new)
      BY <1>4, <1>6, <1>8, <2>2 DEF Kept, Concrete
    <3> QED BY <3>1 DEF IDs
  <2> QED BY <2>1, <2>2
<1>9. dir.retired \subseteq new.retired
  BY <1>3, <1>6
<1>10. IDs(Known(dir)) \subseteq IDs(Known(new)) /\ IDs(Kept(dir)) \subseteq IDs(Kept(new))
  BY <1>6, <1>8, <1>9, ItemsKept
<1> QED BY <1>1, <1>6, <1>7, <1>9, <1>10

\* The health that a publication remembers is an overflow state.
LEMMA DecayedIs ==
  ASSUME NEW dir \in Directory, NEW planned, NEW routes
  PROVE  Decayed(dir, planned, routes) \in [Deployments -> OverflowState]
<1>1. dir.health \in [Deployments -> OverflowState]
  BY DirectoryFields
<1>2. ASSUME NEW s \in OverflowState, NEW present \in BOOLEAN
      PROVE  [Remembered(s, Evaluate([mode |-> "health", breach |-> 2, recovery |-> 2, budget |-> TRUE], s,
                                     [healthy |-> present, queue |-> "missing"])) EXCEPT !.cooling = FALSE]
               \in OverflowState
  <2>1. PICK p, d, sig :
          /\ p = [mode |-> "health", breach |-> 2, recovery |-> 2, budget |-> TRUE]
          /\ sig = [healthy |-> present, queue |-> "missing"]
          /\ d = Evaluate(p, s, sig)
    OBVIOUS
  <2>2. d = Observed(p, s, ~present)
    BY <2>1 DEF Evaluate
  <2>3. s.high \in Nat /\ s.low \in Nat /\ s.external \in BOOLEAN /\ s.cooling \in BOOLEAN
    BY DEF OverflowState
  <2>4. Counted(s.high, 2) \in Nat /\ Counted(s.low, 2) \in Nat
    BY <2>3 DEF Counted
  <2>5. p.breach = 2 /\ p.recovery = 2
    BY <2>1
  <2>6. d.high \in Nat /\ d.low \in Nat
    BY <2>2, <2>4, <2>5 DEF Observed, Decision
  <2>7. PICK e, x, high, low :
          /\ e = (d.route = "external") /\ x = (s.cooling \/ (d.route = "external") # s.external)
          /\ high = d.high /\ low = d.low
    OBVIOUS
  <2>8. Remembered(s, d) = [external |-> e, high |-> high, low |-> low, cooling |-> x]
    BY <2>7 DEF Remembered
  <2>9. e \in BOOLEAN /\ x \in BOOLEAN /\ high \in Nat /\ low \in Nat
    BY <2>6, <2>7
  <2>10. Remembered(s, d) \in OverflowState
    BY <2>8, <2>9 DEF OverflowState
  <2>11. [Remembered(s, d) EXCEPT !.cooling = FALSE] \in OverflowState
    BY <2>10 DEF OverflowState
  <2> QED BY <2>1, <2>11
<1>3. ASSUME NEW d \in Deployments
      PROVE  Decayed(dir, planned, routes)[d] \in OverflowState
  <2>1. dir.health[d] \in OverflowState
    BY <1>1
  <2>2. (\E r \in routes : r.dep = d) \in BOOLEAN
    OBVIOUS
  <2>3. CASE d \in planned
    BY <1>2, <2>1, <2>2, <2>3 DEF Decayed
  <2>4. CASE d \notin planned
    BY <2>1, <2>4 DEF Decayed
  <2> QED BY <2>3, <2>4
<1> QED BY <1>3 DEF Decayed

\* What a publication leaves out is retired.
LEMMA PublishEndpointIs ==
  ASSUME NEW dir \in Directory, NEW p \in [weighted: BOOLEAN, bindings: SUBSET Deployments],
         NEW routes \in SUBSET Route
  PROVE  /\ PublishEndpoint(dir, p, routes) \in Directory /\ PublishEndpoint(dir, p, routes).items = dir.items
         /\ IDs(Known(dir)) \subseteq IDs(Known(PublishEndpoint(dir, p, routes)))
         /\ dir.retired \subseteq PublishEndpoint(dir, p, routes).retired
         /\ PublishEndpoint(dir, p, routes).endpoint.routes \subseteq routes
<1>1. PICK health : health = (IF p.weighted THEN Decayed(dir, p.bindings, routes) ELSE dir.health)
  OBVIOUS
<1>2. PICK effective : effective = (IF p.weighted THEN {r \in routes : ~health[r.dep].external} ELSE routes)
  OBVIOUS
<1>3. PICK gone, new, kept, endpoint :
        /\ gone = {r \in dir.endpoint.routes : routeID(r) \notin IDs(effective)}
        /\ new = PublishEndpoint(dir, p, routes)
        /\ kept = Retire(dir, gone)
        /\ endpoint = [present |-> TRUE, routes |-> effective]
  OBVIOUS
<1>4. health \in [Deployments -> OverflowState] /\ effective \subseteq routes
  BY <1>1, <1>2, DecayedIs, DirectoryFields
<1>5. gone \in SUBSET Route
  BY <1>3, DirectoryFields
<1>6. /\ kept \in Directory /\ kept.items = dir.items /\ dir.retired \subseteq kept.retired
      /\ IDs(gone) \subseteq IDs(kept.retired)
  BY <1>3, <1>5, RetireIs
<1>7. endpoint \in [present: BOOLEAN, routes: SUBSET Route] /\ endpoint.routes = effective
  BY <1>3, <1>4
<1>8. new = [kept EXCEPT !.endpoint = endpoint, !.blocked = FALSE, !.health = health]
  BY <1>1, <1>2, <1>3 DEF PublishEndpoint
<1>9. new \in Directory /\ new.items = dir.items /\ new.retired = kept.retired /\ new.endpoint = endpoint
  BY <1>4, <1>6, <1>7, <1>8 DEF Directory
<1>10. ASSUME NEW r \in Known(dir)
       PROVE  routeID(r) \in IDs(Known(new))
  <2>1. CASE r \in Concrete(dir) \union dir.retired
    <3>1. r \in Known(new)
      BY <1>6, <1>9, <2>1 DEF Known, Published, Concrete
    <3> QED BY <3>1 DEF IDs
  <2>2. CASE r \in gone
    <3>1. routeID(r) \in IDs(kept.retired)
      BY <1>6, <2>2 DEF IDs
    <3> QED BY <1>9, <3>1 DEF IDs, Known
  <2>3. CASE r \in dir.endpoint.routes /\ r \notin gone
    <3>1. routeID(r) \in IDs(effective)
      BY <1>3, <2>3
    <3> QED BY <1>7, <1>9, <3>1 DEF IDs, Known, Published
  <2> QED BY <1>10, <2>1, <2>2, <2>3 DEF Known, Published
<1>11. IDs(Known(dir)) \subseteq IDs(Known(new))
  BY <1>10 DEF IDs
<1> QED BY <1>3, <1>4, <1>6, <1>7, <1>9, <1>11

LEMMA RemoveEndpointIs ==
  ASSUME NEW dir \in Directory
  PROVE  /\ RemoveEndpoint(dir) \in Directory /\ RemoveEndpoint(dir).items = dir.items
         /\ IDs(Known(dir)) \subseteq IDs(Known(RemoveEndpoint(dir)))
         /\ dir.retired \subseteq RemoveEndpoint(dir).retired
         /\ RemoveEndpoint(dir).endpoint.routes = {}
<1>1. PICK new, kept, health, gone :
        /\ new = RemoveEndpoint(dir) /\ gone = dir.endpoint.routes
        /\ kept = Retire(dir, gone) /\ health = [d \in Deployments |-> NoOverflow]
  OBVIOUS
<1>2. gone \in SUBSET Route
  BY <1>1, DirectoryFields
<1>3. /\ kept \in Directory /\ kept.items = dir.items /\ dir.retired \subseteq kept.retired
      /\ IDs(gone) \subseteq IDs(kept.retired)
  BY <1>1, <1>2, RetireIs
<1>4. NoOverflow \in OverflowState
  BY DEF NoOverflow, OverflowState
<1>5. health \in [Deployments -> OverflowState]
  BY <1>1, <1>4
<1>6. NoEndpoint \in [present: BOOLEAN, routes: SUBSET Route] /\ NoEndpoint.routes = {}
  BY DEF NoEndpoint
<1>7. new = [kept EXCEPT !.endpoint = NoEndpoint, !.blocked = TRUE, !.health = health]
  BY <1>1 DEF RemoveEndpoint
<1>8. new \in Directory /\ new.items = dir.items /\ new.retired = kept.retired /\ new.endpoint = NoEndpoint
  BY <1>3, <1>5, <1>6, <1>7 DEF Directory
<1>9. IDs(Known(dir)) \subseteq IDs(Known(new))
  BY <1>1, <1>3, <1>8 DEF IDs, Known, Published, Concrete
<1> QED BY <1>1, <1>3, <1>6, <1>8, <1>9

LEMMA ForgetRetiredIs ==
  ASSUME NEW dir \in Directory, NEW r
  PROVE  /\ ForgetRetired(dir, r) \in Directory /\ ForgetRetired(dir, r).items = dir.items
         /\ ForgetRetired(dir, r).endpoint = dir.endpoint
         /\ ForgetRetired(dir, r).retired = dir.retired \ {Identity(r)}
<1>1. PICK retired : retired = dir.retired \ {Identity(r)}
  OBVIOUS
<1>2. ForgetRetired(dir, r) = [dir EXCEPT !.retired = retired] /\ retired \subseteq Route
  BY <1>1, DirectoryFields DEF ForgetRetired
<1> QED BY <1>1, <1>2 DEF Directory

-----------------------------------------------------------------------------
(* Routes: the steps.                                                      *)

LEMMA IdleIs ==
  /\ Idle \in Runs /\ Idle.pc = "idle" /\ Idle.compiled = {} /\ Idle.reaping = {}
  /\ NoPlan \in [weighted: BOOLEAN, bindings: SUBSET Deployments]
  BY DEF Idle, Runs, NoPlan

\* A step that keeps the requests, forgets no route and stops no router.
LEMMA DirectoryMoves ==
  ASSUME RouteInv, RouteTypeOK', ColdInv', UNCHANGED <<request, cleanup>>, routers \subseteq routers',
         directory.retired \subseteq directory'.retired,
         IDs(Known(directory)) \subseteq IDs(Known(directory')),
         IDs(Kept(directory)) \subseteq IDs(Kept(directory')),
         \A p \in routers' \ routers : <<p[1], "router", p[2]>> \in IDs(Known(directory')),
         \A r \in Concrete(directory') :
           r \in Concrete(directory) \/ (r.kind = "router" => <<r.dep, r.gen>> \in routers'),
         \/ pass'.pc # "reap"
         \/ /\ Concrete(directory') = Concrete(directory)
            /\ pass.pc = "reap" /\ pass'.reaping \subseteq pass.reaping
  PROVE  RouteInv'
<1>1. ConcreteRuns'
  BY DEF RouteInv, ConcreteRuns
<1>2. ReapInv'
  BY DEF RouteInv, ReapInv, HeldCurrent
<1>3. HeldKnown'
  BY DEF RouteInv, HeldKnown, HeldCurrent
<1>4. RoutersKnown'
  BY DEF RouteInv, RoutersKnown
<1>5. CurrentRouterSurvives'
  BY DEF RouteInv, CurrentRouterSurvives
<1>6. FenceInv'
  <2>1. \A d \in Deployments : \A q \in Requests : Early(q, d)' = Early(q, d)
    BY DEF Early, HeldCurrent
  <2>2. IDs(directory.retired) \subseteq IDs(directory'.retired)
    BY DEF IDs
  <2> QED BY <2>1, <2>2 DEF RouteInv, FenceInv
<1> QED BY <1>1, <1>2, <1>3, <1>4, <1>5, <1>6 DEF RouteInv

\* A step that keeps the directory, the routers, the requests and the deletions.
LEMMA NothingMoves ==
  ASSUME RouteInv, RouteTypeOK', ColdInv', UNCHANGED <<directory, routers, request, cleanup>>,
         pass'.pc # "reap" \/ UNCHANGED pass
  PROVE  RouteInv'
<1>1. CASE pass'.pc # "reap"
  BY <1>1, DirectoryMoves
<1>2. CASE pass'.pc = "reap"
  <2>1. pass' = pass
    BY <1>2
  <2>2. pass.pc = "reap" /\ pass'.reaping \subseteq pass.reaping
    BY <1>2, <2>1
  <2> QED BY <2>2, DirectoryMoves
<1> QED BY <1>1, <1>2

LEMMA ReapBeginStep ==
  ASSUME RouteInv, ReapBegin
  PROVE  RouteInv'
<1>1. UNCHANGED <<directory, desired, plan, fleet, generation, routers, capacity, refresh, request, cleanup,
                  events>>
  BY DEF ReapBegin
<1>2. PICK ready : ready = RetiredReady(directory, Pinned)
  OBVIOUS
<1>3. ready \subseteq directory.retired /\ directory.retired \subseteq Route
  BY <1>2, DirectoryFields DEF RetiredReady, RouteInv, RouteTypeOK
<1>4. pass' = [Idle EXCEPT !.pc = "reap", !.reaping = ready]
  BY <1>2 DEF ReapBegin
<1>5. pass' \in Runs /\ pass'.pc = "reap" /\ pass'.reaping = ready /\ pass'.compiled = {}
  BY <1>3, <1>4, IdleIs DEF Runs
<1>6. RouteTypeOK'
  BY <1>1, <1>5 DEF RouteInv, RouteTypeOK
<1>7. ColdInv'
  BY <1>1, <1>5 DEF RouteInv, ColdInv
<1>8. ASSUME NEW r \in ready
      PROVE  /\ routeID(r) \notin IDs(Concrete(directory))
             /\ \A q \in Requests : HeldCurrent(q) => routeID(request[q].route) # routeID(r)
  <2>1. routeID(r) \notin IDs(Published(directory)) /\ routeID(r) \notin Pinned
    BY <1>2, <1>8 DEF RetiredReady
  <2>2. \A q \in Requests : HeldCurrent(q) => routeID(request[q].route) \in Pinned
    BY DEF Pinned, HeldCurrent
  <2>3. IDs(Concrete(directory)) \subseteq IDs(Published(directory))
    BY DEF IDs, Published
  <2> QED BY <2>1, <2>2, <2>3
<1>9. ReapInv'
  BY <1>1, <1>5, <1>8 DEF ReapInv, HeldCurrent
<1>10. ConcreteRuns' /\ HeldKnown' /\ RoutersKnown' /\ CurrentRouterSurvives'
  BY <1>1 DEF RouteInv, ConcreteRuns, HeldKnown, RoutersKnown, CurrentRouterSurvives, HeldCurrent
<1>11. FenceInv'
  BY <1>1 DEF RouteInv, FenceInv, Early, HeldCurrent
<1> QED BY <1>6, <1>7, <1>9, <1>10, <1>11 DEF RouteInv

\* One withdrawn route is stopped and forgotten.
LEMMA ReapStep ==
  ASSUME RouteInv, Reap
  PROVE  RouteInv'
<1>1. UNCHANGED <<desired, plan, fleet, generation, capacity, refresh, request, cleanup, events>>
      /\ pass.pc = "reap"
  BY DEF Reap
<1>2. PICK r \in pass.reaping :
        /\ routers' = Stopped(r) /\ directory' = ForgetRetired(directory, r)
        /\ pass' = [pass EXCEPT !.reaping = @ \ {r}]
  BY DEF Reap
<1>3. PICK dir, old : dir = directory /\ old = pass
  OBVIOUS
<1>4. dir \in Directory /\ old \in Runs /\ old.reaping \subseteq Route /\ r \in Route
  BY <1>2, <1>3 DEF RouteInv, RouteTypeOK, Runs
<1>5. /\ directory' \in Directory /\ directory'.items = dir.items /\ directory'.endpoint = dir.endpoint
      /\ directory'.retired = dir.retired \ {Identity(r)}
  BY <1>2, <1>3, <1>4, ForgetRetiredIs
<1>6. Concrete(directory') = Concrete(dir) /\ Published(directory') = Published(dir)
  BY <1>5 DEF Concrete, Published
<1>7. /\ pass' \in Runs /\ pass'.pc = old.pc /\ pass'.reaping = old.reaping \ {r} /\ pass'.compiled = old.compiled
  <2>1. pass' = [old EXCEPT !.reaping = old.reaping \ {r}] /\ old.reaping \ {r} \subseteq Route
    BY <1>2, <1>3, <1>4
  <2> QED BY <1>4, <2>1 DEF Runs
<1>8. routers' \subseteq routers /\ (r.kind # "router" => routers' = routers)
      /\ (r.kind = "router" => routers' = routers \ {<<r.dep, r.gen>>})
  BY <1>2 DEF Stopped
<1>9. RouteTypeOK'
  BY <1>1, <1>3, <1>5, <1>7, <1>8 DEF RouteInv, RouteTypeOK
<1>10. ColdInv'
  BY <1>1, <1>3, <1>6, <1>7 DEF RouteInv, ColdInv
<1>11. r.kind = "router" =>
         /\ routeID(r) \notin IDs(Concrete(directory))
         /\ \A q \in Requests : HeldCurrent(q) => routeID(request[q].route) # routeID(r)
  BY <1>1, <1>2 DEF RouteInv, ReapInv
<1>12. ASSUME NEW s, s.kind = "router", r.kind = "router", routeID(s) # routeID(r)
       PROVE  <<s.dep, s.gen>> # <<r.dep, r.gen>>
  BY <1>12 DEF routeID
<1>13. ConcreteRuns'
  <2>1. SUFFICES ASSUME NEW s \in Concrete(directory), s.kind = "router"
                 PROVE  <<s.dep, s.gen>> \in routers'
    BY <1>3, <1>6 DEF ConcreteRuns
  <2>2. <<s.dep, s.gen>> \in routers
    BY <2>1 DEF RouteInv, ConcreteRuns
  <2>3. r.kind = "router" => routeID(s) # routeID(r)
    BY <1>11, <2>1 DEF IDs
  <2> QED BY <1>8, <1>12, <2>1, <2>2, <2>3
<1>14. CurrentRouterSurvives'
  <2>1. SUFFICES ASSUME NEW q \in Requests, HeldCurrent(q)
                 PROVE  <<request[q].route.dep, request[q].route.gen>> \in routers'
    BY <1>1 DEF CurrentRouterSurvives, HeldCurrent
  <2>2. PICK s : s = request[q].route
    OBVIOUS
  <2>3. <<s.dep, s.gen>> \in routers /\ s.kind = "router"
    BY <2>1, <2>2 DEF RouteInv, CurrentRouterSurvives, HeldCurrent
  <2>4. r.kind = "router" => routeID(s) # routeID(r)
    BY <1>11, <2>1, <2>2
  <2> QED BY <1>8, <1>12, <2>2, <2>3, <2>4
<1>15. ReapInv'
  BY <1>1, <1>3, <1>6, <1>7 DEF RouteInv, ReapInv, HeldCurrent
<1>16. HeldKnown'
  <2>1. SUFFICES ASSUME NEW q \in Requests, HeldCurrent(q)
                 PROVE  routeID(request[q].route) \in IDs(Kept(directory'))
    BY <1>1 DEF HeldKnown, HeldCurrent
  <2>2. PICK s \in Kept(directory) : routeID(s) = routeID(request[q].route)
    BY <2>1 DEF RouteInv, HeldKnown, IDs
  <2>3. s # Identity(r)
    <3>1. routeID(Identity(r)) = routeID(r) /\ Identity(r).kind = r.kind
      BY <1>4, IdentityIs
    <3>2. s = Identity(r) => r.kind = "router"
      BY <2>1, <2>2, <3>1 DEF HeldCurrent, routeID
    <3> QED BY <1>11, <2>1, <2>2, <3>1, <3>2
  <2>4. s \in Kept(directory')
    BY <1>3, <1>5, <1>6, <2>2, <2>3 DEF Kept
  <2> QED BY <2>2, <2>4 DEF IDs
<1>17. RoutersKnown'
  <2>1. SUFFICES ASSUME NEW p \in routers'
                 PROVE  <<p[1], "router", p[2]>> \in IDs(Known(directory'))
    BY DEF RoutersKnown
  <2>2. p \in routers /\ p \in Deployments \X Generations
    BY <1>8, <2>1 DEF RouteInv, RouteTypeOK
  <2>3. PICK s \in Known(directory) : routeID(s) = <<p[1], "router", p[2]>>
    BY <2>2 DEF RouteInv, RoutersKnown, IDs
  <2>4. s # Identity(r)
    <3>1. routeID(Identity(r)) = <<r.dep, r.kind, r.gen>>
      BY <1>4, IdentityIs DEF routeID
    <3>2. s = Identity(r) => r.kind = "router" /\ p = <<r.dep, r.gen>>
      BY <2>2, <2>3, <3>1
    <3> QED BY <1>8, <2>1, <3>2
  <2>5. s \in Known(directory')
    BY <1>3, <1>5, <1>6, <2>3, <2>4 DEF Known
  <2> QED BY <2>3, <2>5 DEF IDs
<1>18. FenceInv'
  <2>1. SUFFICES ASSUME NEW d \in Deployments, NEW q \in Requests, Early(q, d)
                 PROVE  /\ cleanup[d].passed # 0 => routeID(request[q].route) \in IDs(directory'.retired)
                        /\ cleanup[d].passed # 2
    BY <1>1 DEF FenceInv, Early, HeldCurrent
  <2>2. cleanup[d].passed # 2
    BY <2>1 DEF RouteInv, FenceInv
  <2>3. ASSUME cleanup[d].passed # 0
        PROVE  routeID(request[q].route) \in IDs(directory'.retired)
    <3>1. PICK s \in directory.retired : routeID(s) = routeID(request[q].route)
      BY <2>1, <2>3 DEF RouteInv, FenceInv, IDs
    <3>2. HeldCurrent(q) /\ request[q].route.kind = "router"
      BY <2>1 DEF Early, HeldCurrent
    <3>3. routeID(Identity(r)) = routeID(r) /\ Identity(r).kind = r.kind
      BY <1>4, IdentityIs
    <3>4. s = Identity(r) => r.kind = "router"
      BY <3>1, <3>2, <3>3 DEF routeID
    <3>5. s # Identity(r)
      BY <1>11, <3>1, <3>2, <3>3, <3>4
    <3>6. s \in directory'.retired
      BY <1>3, <1>5, <3>1, <3>5
    <3> QED BY <3>1, <3>6 DEF IDs
  <2> QED BY <2>2, <2>3
<1> QED BY <1>9, <1>10, <1>13, <1>14, <1>15, <1>16, <1>17, <1>18 DEF RouteInv

\* The pass reads the deployments and withdraws what is not to run.
LEMMA ReadDeploymentsStep ==
  ASSUME RouteInv, ReadDeployments
  PROVE  RouteInv'
<1>1. UNCHANGED <<desired, plan, fleet, generation, routers, capacity, refresh, request, cleanup, events>>
  BY DEF ReadDeployments
<1>2. PICK running, dir, old : /\ running = {d \in Deployments : desired[d] = "running"}
                               /\ dir = directory /\ old = pass
  OBVIOUS
<1>3. dir \in Directory /\ old \in Runs /\ Aliases \ running \in SUBSET Aliases
  BY <1>2 DEF RouteInv, RouteTypeOK
<1>4. directory' = Withdrawn(dir, Aliases \ running)
      /\ pass' = [old EXCEPT !.pc = "deploy", !.seen = running, !.todo = running]
  BY <1>2 DEF ReadDeployments
<1>5. /\ directory' \in Directory /\ directory'.endpoint = dir.endpoint
      /\ IDs(Known(dir)) \subseteq IDs(Known(directory')) /\ IDs(Kept(dir)) \subseteq IDs(Kept(directory'))
      /\ Concrete(directory') \subseteq Concrete(dir) /\ dir.retired \subseteq directory'.retired
  BY <1>3, <1>4, WithdrawnIs
<1>6. pass' \in Runs /\ pass'.pc = "deploy" /\ pass'.compiled = old.compiled
  <2>1. running \subseteq Deployments
    BY <1>2
  <2> QED BY <1>3, <1>4, <2>1 DEF Runs
<1>7. RouteTypeOK'
  BY <1>1, <1>5, <1>6 DEF RouteInv, RouteTypeOK
<1>8. ColdInv'
  BY <1>1, <1>2, <1>5, <1>6 DEF RouteInv, ColdInv, Published
<1> QED BY <1>1, <1>2, <1>5, <1>6, <1>7, <1>8, DirectoryMoves

\* A concrete route is put by the pass: a router's runs, and no router is cold.
LEMMA PutMoves ==
  ASSUME RouteInv, RouteTypeOK', NEW r \in Route, r.cold => r.kind = "direct",
         r.kind = "router" => <<r.dep, r.gen>> \in routers',
         directory' = PutRoute(directory, r), pass'.pc = "deploy", pass'.compiled = pass.compiled,
         UNCHANGED <<refresh, request, cleanup>>, routers \subseteq routers',
         routers' \ routers \subseteq {<<r.dep, r.gen>>}, routers' # routers => r.kind = "router"
  PROVE  RouteInv'
<1>1. PICK dir : dir = directory
  OBVIOUS
<1>2. dir \in Directory
  BY <1>1 DEF RouteInv, RouteTypeOK
<1>3. /\ directory'.endpoint = dir.endpoint
      /\ IDs(Known(dir)) \subseteq IDs(Known(directory')) /\ IDs(Kept(dir)) \subseteq IDs(Kept(directory'))
      /\ r \in Concrete(directory') /\ Concrete(directory') \subseteq Concrete(dir) \union {r}
      /\ dir.retired \subseteq directory'.retired
  BY <1>1, <1>2, PutRouteIs
<1>4. ColdInv'
  BY <1>1, <1>3 DEF RouteInv, ColdInv, Published
<1>5. \A p \in routers' \ routers : <<p[1], "router", p[2]>> \in IDs(Known(directory'))
  <2>1. SUFFICES ASSUME NEW p \in routers' \ routers
                 PROVE  <<p[1], "router", p[2]>> \in IDs(Known(directory'))
    OBVIOUS
  <2>2. p = <<r.dep, r.gen>> /\ r.kind = "router"
    BY <2>1
  <2>3. routeID(r) = <<p[1], "router", p[2]>> /\ r \in Known(directory')
    BY <1>3, <2>2 DEF routeID, Known, Published
  <2> QED BY <2>3 DEF IDs
<1> QED BY <1>1, <1>3, <1>4, <1>5, DirectoryMoves

LEMMA SnapshotIs ==
  ASSUME NEW d \in Deployments, NEW kind \in Kinds, NEW gen \in Generations \union {0}, NEW cold \in BOOLEAN
  PROVE  /\ Snapshot(d, kind, gen, cold) \in Route /\ Snapshot(d, kind, gen, cold).kind = kind
         /\ Snapshot(d, kind, gen, cold).dep = d /\ Snapshot(d, kind, gen, cold).gen = gen
         /\ Snapshot(d, kind, gen, cold).cold = cold
<1>1. d \in Aliases
  BY DEF Aliases
<1> QED BY <1>1 DEF Snapshot, Route

LEMMA ReconcileStep ==
  ASSUME RouteInv, NEW d \in Deployments, ReconcileDeployment(d)
  PROVE  RouteInv'
<1>1. UNCHANGED <<desired, plan, fleet, capacity, refresh, request, cleanup, events>>
  BY DEF ReconcileDeployment
<1>2. PICK dir, old : dir = directory /\ old = pass
  OBVIOUS
<1>3. dir \in Directory /\ old \in Runs /\ old.todo \subseteq Deployments /\ old.pc = "deploy" /\ RouteTypeOK
  BY <1>2 DEF RouteInv, RouteTypeOK, Runs, ReconcileDeployment
<1>4. pass' \in Runs /\ pass'.pc = "deploy" /\ pass'.compiled = old.compiled
  <2>1. pass' = [old EXCEPT !.todo = old.todo \ {d}] /\ old.todo \ {d} \subseteq Deployments
    BY <1>2, <1>3 DEF ReconcileDeployment
  <2> QED BY <1>3, <2>1 DEF Runs
<1>5. ASSUME NEW r \in Route, directory' = PutRoute(directory, r), routers' \subseteq Deployments \X Generations,
             generation' \in [Deployments -> Generation]
      PROVE  RouteTypeOK'
  <2>1. directory' \in Directory
    BY <1>2, <1>3, <1>5, PutRouteIs
  <2> QED BY <1>1, <1>3, <1>4, <1>5, <2>1 DEF RouteTypeOK
<1>6. "router" \in Kinds /\ "direct" \in Kinds /\ "external" \in Kinds /\ 0 \in Generations \union {0}
      /\ d \in Aliases
  BY DEF Kinds, Aliases
<1>7. CASE StartRouter(d)
  <2>1. PICK g : g = NextGeneration(d)
    OBVIOUS
  <2>2. g \in Generations
    BY <1>7, <2>1 DEF StartRouter, NextGeneration
  <2>3. PICK r : r = Snapshot(d, "router", g, FALSE)
    OBVIOUS
  <2>4. r \in Route /\ r.kind = "router" /\ r.dep = d /\ r.gen = g /\ ~r.cold
    BY <1>6, <2>2, <2>3 DEF Snapshot, Route
  <2>5. routers' = routers \union {<<d, g>>} /\ directory' = PutRoute(directory, r)
        /\ generation' = [generation EXCEPT ![d] = [number |-> g, workers |-> fleet[d]]]
    BY <1>7, <2>1, <2>3 DEF StartRouter
  <2>6. routers' \subseteq Deployments \X Generations
    BY <1>3, <2>2, <2>5 DEF RouteTypeOK
  <2>7. generation' \in [Deployments -> Generation]
    <3>1. PICK w, new : w = fleet[d] /\ new = [number |-> g, workers |-> w]
      OBVIOUS
    <3>2. w \in Fleets
      BY <1>3, <3>1 DEF RouteTypeOK
    <3>3. new \in Generation
      BY <2>2, <3>1, <3>2 DEF Generation
    <3> QED BY <1>3, <2>5, <3>1, <3>3 DEF RouteTypeOK
  <2>8. RouteTypeOK'
    BY <1>5, <2>4, <2>5, <2>6, <2>7
  <2> QED BY <1>1, <1>2, <1>4, <2>4, <2>5, <2>8, PutMoves
<1>8. ASSUME NEW r \in Route, r.cold => r.kind = "direct", r.kind = "router" => <<r.dep, r.gen>> \in routers,
             directory' = PutRoute(directory, r), UNCHANGED <<routers, generation>>
      PROVE  RouteInv'
  <2>1. RouteTypeOK'
    BY <1>3, <1>5, <1>8 DEF RouteTypeOK
  <2> QED BY <1>1, <1>2, <1>4, <1>8, <2>1, PutMoves
<1>9. CASE KeepRouter(d)
  <2>1. CASE directory' = directory
    <3>1. UNCHANGED <<routers, generation>>
      BY <1>9 DEF KeepRouter
    <3>2. RouteTypeOK'
      BY <1>1, <1>3, <1>4, <2>1, <3>1 DEF RouteTypeOK
    <3>3. ColdInv'
      BY <1>1, <1>2, <1>4, <2>1 DEF RouteInv, ColdInv
    <3> QED BY <1>1, <1>4, <2>1, <3>1, <3>2, <3>3, NothingMoves
  <2>2. CASE directory' = PutRoute(directory, Snapshot(d, "router", generation[d].number, FALSE))
    <3>1. PICK g, r : g = generation[d].number /\ r = Snapshot(d, "router", g, FALSE)
      OBVIOUS
    <3>2. g \in Generations \union {0} /\ <<d, g>> \in routers
      BY <1>3, <1>9, <3>1 DEF KeepRouter, NeedsRouter, RouteTypeOK, Generation
    <3>3. r \in Route /\ r.kind = "router" /\ r.dep = d /\ r.gen = g /\ ~r.cold
      BY <1>6, <3>1, <3>2 DEF Snapshot, Route
    <3> QED BY <1>8, <1>9, <2>2, <3>1, <3>2, <3>3 DEF KeepRouter
  <2> QED BY <1>9, <2>1, <2>2 DEF KeepRouter
<1>10. CASE directory' = RemoveForTenant(directory, d) /\ UNCHANGED <<routers, generation>>
  <2>1. /\ directory' \in Directory /\ directory'.endpoint = dir.endpoint
        /\ IDs(Known(dir)) \subseteq IDs(Known(directory')) /\ IDs(Kept(dir)) \subseteq IDs(Kept(directory'))
        /\ Concrete(directory') \subseteq Concrete(dir) /\ dir.retired \subseteq directory'.retired
    <3>1. d \in Aliases
      BY DEF Aliases
    <3> QED BY <1>2, <1>3, <1>10, <3>1, RemoveForTenantIs
  <2>2. RouteTypeOK'
    BY <1>1, <1>3, <1>4, <1>10, <2>1 DEF RouteTypeOK
  <2>3. ColdInv'
    BY <1>1, <1>2, <1>4, <2>1 DEF RouteInv, ColdInv, Published
  <2> QED BY <1>1, <1>2, <1>4, <1>10, <2>1, <2>2, <2>3, DirectoryMoves
<1>11. CASE directory' = PutRoute(directory, Snapshot(d, "external", 0, FALSE)) /\ UNCHANGED <<routers, generation>>
  <2>1. PICK r : r = Snapshot(d, "external", 0, FALSE)
    OBVIOUS
  <2>2. r \in Route /\ r.kind = "external" /\ ~r.cold
    BY <1>6, <2>1 DEF Snapshot, Route
  <2> QED BY <1>8, <1>11, <2>1, <2>2
<1>12. ASSUME NEW cold \in BOOLEAN, directory' = PutRoute(directory, Snapshot(d, "direct", 0, cold)),
              UNCHANGED <<routers, generation>>
       PROVE  RouteInv'
  <2>1. PICK r : r = Snapshot(d, "direct", 0, cold)
    OBVIOUS
  <2>2. r \in Route /\ r.kind = "direct"
    BY <1>6, <2>1, SnapshotIs
  <2> QED BY <1>8, <1>12, <2>1, <2>2
<1> QED BY <1>7, <1>9, <1>10, <1>11, <1>12 DEF ReconcileDeployment

\* The deployment is skipped, deleted or changed: the routes stay as they are.
LEMMA SurroundingStep ==
  ASSUME RouteInv, NEW d \in Deployments, SkipDeployment(d) \/ SubmitDeploymentDelete(d) \/ FleetMoves(d)
  PROVE  RouteInv'
<1>1. /\ RouteTypeOK /\ MaxEvents \in Nat
      /\ UNCHANGED <<directory, routers, request, refresh, generation, cleanup, capacity>>
  BY RouteServingConstants DEF RouteInv, SkipDeployment, SubmitDeploymentDelete, FleetMoves
<1>2. pass' \in Runs /\ pass'.compiled = pass.compiled /\ pass'.pc # "compile" /\ (pass'.pc # "reap" \/ pass' = pass)
  <2>1. CASE UNCHANGED pass
    BY <1>1, <2>1 DEF RouteTypeOK
  <2>2. CASE SkipDeployment(d)
    <3>1. PICK old : old = pass
      OBVIOUS
    <3>2. old \in Runs /\ old.todo \ {d} \subseteq Deployments /\ old.pc = "deploy"
      BY <1>1, <2>2, <3>1 DEF RouteTypeOK, Runs, SkipDeployment
    <3>3. pass' = [old EXCEPT !.todo = old.todo \ {d}]
      BY <2>2, <3>1 DEF SkipDeployment
    <3>4. pass' \in Runs /\ pass'.compiled = old.compiled /\ pass'.pc = "deploy"
      BY <3>2, <3>3 DEF Runs
    <3> QED BY <3>1, <3>4
  <2> QED BY <2>1, <2>2 DEF SubmitDeploymentDelete, FleetMoves
<1>3. desired' \in [Deployments -> {"running", "deleted"}] /\ plan' \in Plans /\ fleet' \in [Deployments -> Fleets]
  BY <1>1 DEF RouteTypeOK, SkipDeployment, SubmitDeploymentDelete, FleetMoves
<1>4. events' \in 0..MaxEvents
  BY <1>1 DEF RouteTypeOK, SkipDeployment, SubmitDeploymentDelete, FleetMoves, EventAllowed
<1>5. RouteTypeOK'
  BY <1>1, <1>2, <1>3, <1>4 DEF RouteTypeOK
<1>6. ColdInv'
  BY <1>1, <1>2 DEF RouteInv, ColdInv
<1> QED BY <1>1, <1>2, <1>5, <1>6, NothingMoves

\* What is compiled for the endpoint are copies of concrete routes.
LEMMA CompilationsAre ==
  ASSUME RouteInv, NEW seen, NEW routes \in Compilations(seen)
  PROVE  routes \subseteq Route /\ \A r \in routes : r.cold => r.kind = "direct"
<1>1. SUFFICES ASSUME NEW r \in routes
               PROVE  r \in Route /\ (r.cold => r.kind = "direct")
  OBVIOUS
<1>2. PICK x \in Concrete(directory) : r = [x EXCEPT !.alias = EndpointAlias]
  BY <1>1 DEF Compilations
<1>3. x \in Route /\ (x.cold => x.kind = "direct")
  BY <1>2, RoutesAre DEF RouteInv, RouteTypeOK, ColdInv, Published
<1>4. EndpointAlias \in Aliases
  BY DEF Aliases
<1>5. r \in Route /\ r.cold = x.cold /\ r.kind = x.kind
  BY <1>2, <1>3, <1>4 DEF Route
<1> QED BY <1>3, <1>5

LEMMA CompilesStep ==
  ASSUME RouteInv, PassCompiles \/ RefreshCompiles \/ ActivatePlan
  PROVE  RouteInv'
<1>1. RouteTypeOK /\ ColdInv /\ MaxEvents \in Nat
      /\ UNCHANGED <<directory, desired, fleet, generation, routers, capacity, request, cleanup>>
  BY RouteServingConstants DEF RouteInv, PassCompiles, RefreshCompiles, ActivatePlan
<1>2. PICK p, q : p = pass /\ q = refresh
  OBVIOUS
<1>3. p \in Runs /\ q \in Runs /\ plan \in Plans /\ plan \in Plans \union {NoPlan}
  BY <1>1, <1>2 DEF RouteTypeOK
<1>4. CASE PassCompiles
  <2>1. PICK routes \in Compilations(pass.seen) :
          pass' = [pass EXCEPT !.pc = "publish", !.plan = plan, !.compiled = routes]
    BY <1>4 DEF PassCompiles
  <2>2. routes \subseteq Route /\ \A r \in routes : r.cold => r.kind = "direct"
    BY <2>1, CompilationsAre
  <2>3. PICK active : active = plan
    OBVIOUS
  <2>4. pass' = [p EXCEPT !.pc = "publish", !.plan = active, !.compiled = routes]
    BY <1>2, <2>1, <2>3
  <2>5. pass' \in Runs /\ pass'.pc = "publish" /\ pass'.compiled = routes
    BY <1>3, <2>2, <2>3, <2>4 DEF Runs
  <2>6. UNCHANGED <<plan, refresh, events>>
    BY <1>4 DEF PassCompiles
  <2>7. RouteTypeOK'
    BY <1>1, <2>5, <2>6 DEF RouteTypeOK
  <2>8. ColdInv'
    BY <1>1, <2>2, <2>5, <2>6 DEF ColdInv
  <2> QED BY <1>1, <2>5, <2>7, <2>8, NothingMoves
<1>5. CASE RefreshCompiles
  <2>1. PICK routes \in Compilations(refresh.seen) :
          refresh' = [refresh EXCEPT !.pc = "publish", !.plan = plan, !.compiled = routes]
    BY <1>5 DEF RefreshCompiles
  <2>2. routes \subseteq Route /\ \A r \in routes : r.cold => r.kind = "direct"
    BY <2>1, CompilationsAre
  <2>3. PICK active : active = plan
    OBVIOUS
  <2>4. refresh' = [q EXCEPT !.pc = "publish", !.plan = active, !.compiled = routes]
    BY <1>2, <2>1, <2>3
  <2>5. refresh' \in Runs /\ refresh'.pc = "publish" /\ refresh'.compiled = routes
    BY <1>3, <2>2, <2>3, <2>4 DEF Runs
  <2>6. UNCHANGED <<plan, pass, events>>
    BY <1>5 DEF RefreshCompiles
  <2>7. RouteTypeOK'
    BY <1>1, <2>5, <2>6 DEF RouteTypeOK
  <2>8. ColdInv'
    BY <1>1, <2>2, <2>5, <2>6 DEF ColdInv
  <2> QED BY <1>1, <2>6, <2>7, <2>8, NothingMoves
<1>6. CASE ActivatePlan
  <2>1. PICK running : running = {d \in Deployments : desired[d] = "running"}
    OBVIOUS
  <2>2. refresh' = [Idle EXCEPT !.pc = "compile", !.seen = running] /\ running \subseteq Deployments
    BY <1>6, <2>1 DEF ActivatePlan
  <2>3. refresh' \in Runs /\ refresh'.pc = "compile" /\ refresh'.compiled = {}
    BY <2>2, IdleIs DEF Runs
  <2>4. UNCHANGED pass /\ plan' \in Plans /\ events' \in 0..MaxEvents
    BY <1>1, <1>6 DEF ActivatePlan, EventAllowed, RouteTypeOK
  <2>5. RouteTypeOK'
    BY <1>1, <2>3, <2>4 DEF RouteTypeOK
  <2>6. ColdInv'
    BY <1>1, <2>3, <2>4 DEF ColdInv
  <2> QED BY <1>1, <2>4, <2>5, <2>6, NothingMoves
<1> QED BY <1>4, <1>5, <1>6

\* A publication changes the endpoint only.
LEMMA PublicationIs ==
  ASSUME RouteInv, NEW run \in Runs
  PROVE  /\ Publication(run) \in Directory /\ Publication(run).items = directory.items
         /\ IDs(Known(directory)) \subseteq IDs(Known(Publication(run)))
         /\ directory.retired \subseteq Publication(run).retired
         /\ Publication(run).endpoint.routes \subseteq run.compiled
<1>1. PICK dir, p, routes : dir = directory /\ p = run.plan /\ routes = run.compiled
  OBVIOUS
<1>2. dir \in Directory /\ routes \in SUBSET Route /\ p \in Plans \union {NoPlan}
  BY <1>1 DEF RouteInv, RouteTypeOK, Runs
<1>3. p \in [weighted: BOOLEAN, bindings: SUBSET Deployments]
  BY <1>2, IdleIs, RouteServingConstants
<1>4. CASE Publication(run) = RemoveEndpoint(dir)
  BY <1>1, <1>2, <1>4, RemoveEndpointIs
<1>5. CASE Publication(run) = PublishEndpoint(dir, p, routes)
  BY <1>1, <1>2, <1>3, <1>5, PublishEndpointIs
<1> QED BY <1>1, <1>4, <1>5 DEF Publication

LEMMA PublishesStep ==
  ASSUME RouteInv, PassPublishes \/ RefreshPublishes
  PROVE  RouteInv'
<1>1. /\ RouteTypeOK /\ ColdInv
      /\ UNCHANGED <<desired, plan, fleet, generation, routers, capacity, request, cleanup, events>>
  BY DEF RouteInv, PassPublishes, RefreshPublishes
<1>2. PICK run \in Runs : /\ directory' = Publication(run) /\ (run = pass \/ run = refresh)
                          /\ \/ pass' = Idle /\ refresh' = refresh
                             \/ pass' = pass /\ refresh' = Idle
  BY <1>1 DEF PassPublishes, RefreshPublishes, RouteTypeOK
<1>3. \A r \in run.compiled : r.cold => r.kind = "direct"
  BY <1>1, <1>2 DEF ColdInv
<1>4. PICK dir : dir = directory
  OBVIOUS
<1>5. /\ directory' \in Directory /\ directory'.items = dir.items
      /\ IDs(Known(dir)) \subseteq IDs(Known(directory'))
      /\ dir.retired \subseteq directory'.retired /\ directory'.endpoint.routes \subseteq run.compiled
  BY <1>2, <1>4, PublicationIs
<1>6. Concrete(directory') = Concrete(dir)
  BY <1>5 DEF Concrete
<1>7. IDs(Kept(dir)) \subseteq IDs(Kept(directory'))
  BY <1>5, <1>6 DEF IDs, Kept
<1>8. pass' \in Runs /\ refresh' \in Runs /\ pass'.pc # "compile" /\ refresh'.pc \in {"idle", "compile", "publish"}
      /\ (pass'.pc # "reap" \/ (pass.pc = "reap" /\ pass'.reaping \subseteq pass.reaping))
  <2>1. CASE pass' = Idle /\ refresh' = refresh
    BY <1>1, <2>1, IdleIs DEF RouteTypeOK
  <2>2. CASE pass' = pass /\ refresh' = Idle
    BY <1>1, <2>2, IdleIs DEF RouteTypeOK
  <2> QED BY <1>2, <2>1, <2>2
<1>9. pass'.compiled \subseteq pass.compiled /\ refresh'.compiled \subseteq refresh.compiled
  BY <1>2, IdleIs
<1>10. RouteTypeOK'
  BY <1>1, <1>5, <1>8 DEF RouteTypeOK
<1>11. ColdInv'
  <2>1. \A r \in Published(directory') : r.cold => r.kind = "direct"
    BY <1>1, <1>3, <1>4, <1>5, <1>6 DEF Published, ColdInv
  <2> QED BY <1>1, <1>9, <2>1 DEF ColdInv
<1> QED BY <1>1, <1>4, <1>5, <1>6, <1>7, <1>8, <1>10, <1>11, DirectoryMoves

-----------------------------------------------------------------------------
(* Routes: the requests.                                                   *)

LEMMA SelectableAre ==
  ASSUME NEW dir \in Directory, NEW a \in Aliases, NEW r \in Selectable(dir, a)
  PROVE  r \in Published(dir)
<1>1. CASE r \in dir.endpoint.routes
  BY <1>1 DEF Published
<1>2. CASE r \in {dir.items[a]} \ {NoRoute}
  BY <1>2 DEF Published, Concrete
<1> QED BY <1>1, <1>2 DEF Selectable

LEMMA AcquireStep ==
  ASSUME RouteInv, NEW q \in Requests, NEW a \in Aliases, Acquire(q, a)
  PROVE  RouteInv'
<1>1. /\ UNCHANGED <<directory, desired, plan, fleet, generation, routers, capacity, pass, refresh, events>>
      /\ RouteTypeOK
  BY DEF RouteInv, Acquire
<1>2. PICK r \in Selectable(directory, a) :
        /\ request' = [request EXCEPT ![q] = [route |-> r, current |-> routeID(r) \in IDs(Concrete(directory))]]
        /\ cleanup' = IF cleanup[r.dep].passed = 0 THEN cleanup
                      ELSE [cleanup EXCEPT ![r.dep].late = @ \union {q}]
  BY DEF Acquire
<1>3. r \in Published(directory) /\ r \in Route
  BY <1>1, <1>2, SelectableAre, RoutesAre DEF RouteTypeOK
<1>4. PICK known : known = (routeID(r) \in IDs(Concrete(directory)))
  OBVIOUS
<1>5. PICK new : new = [route |-> r, current |-> known]
  OBVIOUS
<1>6. new \in RequestState /\ new.route = r /\ new.current = known /\ known \in BOOLEAN
  BY <1>3, <1>4, <1>5 DEF RequestState
<1>7. request' = [request EXCEPT ![q] = new]
  BY <1>2, <1>4, <1>5
<1>8. request' \in [Requests -> RequestState] /\ request'[q] = new
      /\ \A x \in Requests : x # q => request'[x] = request[x]
  BY <1>1, <1>6, <1>7 DEF RouteTypeOK
<1>9. r.dep \in Deployments
  BY <1>3 DEF Route
<1>10. /\ cleanup' \in [Deployments -> DeleteAttempts]
       /\ \A d \in Deployments : cleanup'[d].passed = cleanup[d].passed /\ cleanup[d].late \subseteq cleanup'[d].late
       /\ cleanup[r.dep].passed # 0 => q \in cleanup'[r.dep].late
  <2>1. cleanup \in [Deployments -> DeleteAttempts]
    BY <1>1 DEF RouteTypeOK
  <2>2. CASE cleanup[r.dep].passed = 0
    BY <1>2, <2>1, <2>2
  <2>3. CASE cleanup[r.dep].passed # 0
    <3>1. PICK now : now = [cleanup[r.dep] EXCEPT !.late = @ \union {q}]
      OBVIOUS
    <3>2. cleanup[r.dep] \in DeleteAttempts
      BY <1>9, <2>1
    <3>3. /\ now \in DeleteAttempts /\ now.passed = cleanup[r.dep].passed
          /\ now.late = cleanup[r.dep].late \union {q}
      BY <3>1, <3>2 DEF DeleteAttempts
    <3>4. cleanup' = [cleanup EXCEPT ![r.dep] = now]
      BY <1>2, <2>3, <3>1
    <3> QED BY <1>9, <2>1, <3>3, <3>4
  <2> QED BY <2>2, <2>3
<1>11. RouteTypeOK'
  BY <1>1, <1>8, <1>10 DEF RouteTypeOK
<1>12. ColdInv'
  BY <1>1, <1>3, <1>6, <1>8 DEF RouteInv, ColdInv
<1>13. HeldCurrent(q)' => r.kind = "router" /\ routeID(r) \in IDs(Concrete(directory))
  BY <1>4, <1>6, <1>8 DEF HeldCurrent
<1>14. \A x \in Requests : x # q => HeldCurrent(x)' = HeldCurrent(x)
  BY <1>8 DEF HeldCurrent
<1>15. ReapInv'
  BY <1>1, <1>6, <1>8, <1>13, <1>14 DEF RouteInv, ReapInv
<1>16. HeldKnown'
  <2>1. IDs(Concrete(directory)) \subseteq IDs(Kept(directory))
    BY DEF IDs, Kept
  <2> QED BY <1>1, <1>6, <1>8, <1>13, <1>14, <2>1 DEF RouteInv, HeldKnown
<1>17. CurrentRouterSurvives'
  <2>1. SUFFICES ASSUME NEW x \in Requests, HeldCurrent(x)'
                 PROVE  <<request'[x].route.dep, request'[x].route.gen>> \in routers
    BY <1>1 DEF CurrentRouterSurvives, HeldCurrent
  <2>2. CASE x # q
    BY <1>8, <1>14, <2>1, <2>2 DEF RouteInv, CurrentRouterSurvives, HeldCurrent
  <2>3. CASE x = q
    <3>1. PICK s \in Concrete(directory) : routeID(s) = routeID(r)
      BY <1>13, <2>1, <2>3 DEF IDs
    <3>2. s.kind = "router" /\ s.dep = r.dep /\ s.gen = r.gen
      BY <1>13, <2>1, <2>3, <3>1 DEF routeID
    <3>3. <<s.dep, s.gen>> \in routers
      BY <3>1, <3>2 DEF RouteInv, ConcreteRuns
    <3> QED BY <1>6, <1>8, <2>3, <3>2, <3>3
  <2> QED BY <2>2, <2>3
<1>18. ConcreteRuns' /\ RoutersKnown'
  BY <1>1 DEF RouteInv, ConcreteRuns, RoutersKnown
<1>19. FenceInv'
  <2>1. SUFFICES ASSUME NEW d \in Deployments, NEW x \in Requests, Early(x, d)'
                 PROVE  /\ cleanup'[d].passed # 0 => routeID(request'[x].route) \in IDs(directory'.retired)
                        /\ cleanup'[d].passed # 2
    BY DEF FenceInv
  <2>2. CASE x = q
    <3>1. d = r.dep
      BY <1>6, <1>8, <2>1, <2>2 DEF Early
    <3>2. cleanup[d].passed = 0
      BY <1>10, <2>1, <2>2, <3>1 DEF Early
    <3> QED BY <1>10, <3>2
  <2>3. CASE x # q
    <3>1. Early(x, d) /\ request'[x] = request[x]
      BY <1>8, <1>10, <1>14, <2>1, <2>3 DEF Early
    <3> QED BY <1>1, <1>10, <3>1 DEF RouteInv, FenceInv
  <2> QED BY <2>2, <2>3
<1> QED BY <1>11, <1>12, <1>15, <1>16, <1>17, <1>18, <1>19 DEF RouteInv

LEMMA ReleaseStep ==
  ASSUME RouteInv, NEW q \in Requests, Release(q)
  PROVE  RouteInv'
<1>1. /\ UNCHANGED <<directory, desired, plan, fleet, generation, routers, capacity, pass, refresh, events>>
      /\ RouteTypeOK
  BY DEF RouteInv, Release
<1>2. NoRequest \in RequestState /\ NoRequest.route = NoRoute
  BY DEF NoRequest, RequestState
<1>3. request' \in [Requests -> RequestState] /\ request'[q].route = NoRoute
      /\ \A x \in Requests : x # q => request'[x] = request[x]
  BY <1>1, <1>2 DEF RouteTypeOK, Release
<1>4. /\ cleanup' \in [Deployments -> DeleteAttempts]
       /\ \A d \in Deployments : cleanup'[d].passed = cleanup[d].passed /\ cleanup'[d].late = cleanup[d].late \ {q}
  <2>1. cleanup \in [Deployments -> DeleteAttempts]
        /\ cleanup' = [d \in Deployments |-> [cleanup[d] EXCEPT !.late = @ \ {q}]]
    BY <1>1 DEF RouteTypeOK, Release
  <2>2. ASSUME NEW d \in Deployments
        PROVE  /\ cleanup'[d] \in DeleteAttempts /\ cleanup'[d].passed = cleanup[d].passed
               /\ cleanup'[d].late = cleanup[d].late \ {q}
    <3>1. cleanup[d] \in DeleteAttempts /\ cleanup'[d] = [cleanup[d] EXCEPT !.late = @ \ {q}]
      BY <2>1
    <3> QED BY <3>1 DEF DeleteAttempts
  <2> QED BY <2>1, <2>2
<1>5. RouteTypeOK'
  BY <1>1, <1>3, <1>4 DEF RouteTypeOK
<1>6. ColdInv'
  BY <1>1, <1>3 DEF RouteInv, ColdInv
<1>7. \A x \in Requests : HeldCurrent(x)' => HeldCurrent(x) /\ request'[x] = request[x]
  BY <1>3 DEF HeldCurrent
<1>8. ReapInv' /\ HeldKnown'
  BY <1>1, <1>7 DEF RouteInv, ReapInv, HeldKnown
<1>9. CurrentRouterSurvives'
  BY <1>1, <1>3 DEF RouteInv, CurrentRouterSurvives
<1>10. ConcreteRuns' /\ RoutersKnown'
  BY <1>1 DEF RouteInv, ConcreteRuns, RoutersKnown
<1>11. FenceInv'
  <2>1. SUFFICES ASSUME NEW d \in Deployments, NEW x \in Requests, Early(x, d)'
                 PROVE  /\ cleanup'[d].passed # 0 => routeID(request'[x].route) \in IDs(directory'.retired)
                        /\ cleanup'[d].passed # 2
    BY DEF FenceInv
  <2>2. x # q
    BY <1>3, <2>1 DEF Early, HeldCurrent
  <2>3. Early(x, d) /\ request'[x] = request[x]
    BY <1>3, <1>4, <2>1, <2>2 DEF Early, HeldCurrent
  <2> QED BY <1>1, <1>4, <2>3 DEF RouteInv, FenceInv
<1> QED BY <1>5, <1>6, <1>8, <1>9, <1>10, <1>11 DEF RouteInv

\* Only a serverless route is cold: putting it back concerns no router.
LEMMA InvalidateColdStep ==
  ASSUME RouteInv, NEW q \in Requests, InvalidateCold(q)
  PROVE  RouteInv'
<1>1. /\ UNCHANGED <<desired, plan, fleet, generation, routers, capacity, pass, refresh, cleanup, events>>
      /\ RouteTypeOK
  BY DEF RouteInv, InvalidateCold
<1>2. PICK dir, old, r : dir = directory /\ old = request[q] /\ r = old.route
  OBVIOUS
<1>3. /\ dir \in Directory /\ old \in RequestState /\ r # NoRoute /\ r.cold
      /\ request \in [Requests -> RequestState]
  BY <1>1, <1>2 DEF RouteTypeOK, InvalidateCold
<1>4. r \in Route /\ r.kind = "direct"
  BY <1>2, <1>3 DEF RequestState, RouteInv, ColdInv
<1>5. PICK warm : warm = [r EXCEPT !.cold = FALSE]
  OBVIOUS
<1>6. warm \in Route /\ warm.kind = "direct" /\ ~warm.cold
  BY <1>4, <1>5 DEF Route
<1>7. directory' = PutRoute(dir, warm) /\ warm # NoRoute
  BY <1>2, <1>5, <1>6, RouteServingConstants DEF InvalidateCold
<1>8. /\ directory' \in Directory /\ directory'.endpoint = dir.endpoint
      /\ IDs(Known(dir)) \subseteq IDs(Known(directory')) /\ IDs(Kept(dir)) \subseteq IDs(Kept(directory'))
      /\ Concrete(directory') \subseteq Concrete(dir) \union {warm} /\ dir.retired \subseteq directory'.retired
  BY <1>3, <1>6, <1>7, PutRouteIs
<1>9. PICK new : new = [old EXCEPT !.route = warm]
  OBVIOUS
<1>10. new \in RequestState /\ new.route = warm
  BY <1>3, <1>6, <1>9 DEF RequestState
<1>11. request' = [request EXCEPT ![q] = new]
  BY <1>2, <1>3, <1>5, <1>9 DEF InvalidateCold, RequestState
<1>12. request' \in [Requests -> RequestState] /\ request'[q].route = warm
       /\ \A x \in Requests : x # q => request'[x] = request[x]
  BY <1>3, <1>10, <1>11
<1>13. RouteTypeOK'
  BY <1>1, <1>8, <1>12 DEF RouteTypeOK
<1>14. ColdInv'
  <2>1. \A s \in Published(directory') : s.cold => s.kind = "direct"
    BY <1>2, <1>6, <1>8 DEF RouteInv, ColdInv, Published
  <2> QED BY <1>1, <1>6, <1>12, <2>1 DEF RouteInv, ColdInv
<1>15. \A x \in Requests : HeldCurrent(x)' => HeldCurrent(x) /\ request'[x] = request[x]
  <2>1. ~HeldCurrent(q)'
    BY <1>6, <1>12 DEF HeldCurrent
  <2> QED BY <1>12, <2>1 DEF HeldCurrent
<1>16. \A s : s.kind = "router" /\ routeID(s) \in IDs(Concrete(directory')) => routeID(s) \in IDs(Concrete(dir))
  BY <1>6, <1>8 DEF IDs, routeID
<1>17. ReapInv'
  BY <1>1, <1>2, <1>15, <1>16 DEF RouteInv, ReapInv
<1>18. HeldKnown'
  BY <1>2, <1>8, <1>15 DEF RouteInv, HeldKnown
<1>19. CurrentRouterSurvives'
  BY <1>1, <1>15 DEF RouteInv, CurrentRouterSurvives, HeldCurrent
<1>20. ConcreteRuns' /\ RoutersKnown'
  BY <1>1, <1>2, <1>6, <1>8 DEF RouteInv, ConcreteRuns, RoutersKnown
<1>21. FenceInv'
  <2>1. \A d \in Deployments : \A x \in Requests : Early(x, d)' => Early(x, d) /\ request'[x] = request[x]
    BY <1>1, <1>15 DEF Early
  <2>2. IDs(directory.retired) \subseteq IDs(directory'.retired)
    BY <1>2, <1>8 DEF IDs
  <2> QED BY <1>1, <2>1, <2>2 DEF RouteInv, FenceInv
<1> QED BY <1>13, <1>14, <1>17, <1>18, <1>19, <1>20, <1>21 DEF RouteInv

-----------------------------------------------------------------------------
(* Routes: the deletions.                                                  *)

\* A deletion changes the attempt of one deployment and perhaps its capacity.
LEMMA DeletionMoves ==
  ASSUME RouteInv, NEW d \in Deployments, NEW attempt \in DeleteAttempts,
         cleanup' = [cleanup EXCEPT ![d] = attempt], capacity' \subseteq Deployments, events' \in 0..MaxEvents,
         UNCHANGED <<directory, desired, plan, fleet, generation, routers, pass, refresh, request>>,
         \A q \in Requests :
           HeldCurrent(q) /\ request[q].route.dep = d /\ q \notin attempt.late =>
             /\ attempt.passed # 0 => routeID(request[q].route) \in IDs(directory.retired)
             /\ attempt.passed # 2
  PROVE  RouteInv'
<1>1. /\ cleanup \in [Deployments -> DeleteAttempts] /\ cleanup' \in [Deployments -> DeleteAttempts]
      /\ cleanup'[d] = attempt /\ \A x \in Deployments : x # d => cleanup'[x] = cleanup[x]
  BY DEF RouteInv, RouteTypeOK
<1>2. RouteTypeOK' /\ ColdInv'
  BY <1>1 DEF RouteInv, RouteTypeOK, ColdInv
<1>3. ConcreteRuns' /\ ReapInv' /\ HeldKnown' /\ RoutersKnown' /\ CurrentRouterSurvives'
  BY DEF RouteInv, ConcreteRuns, ReapInv, HeldKnown, RoutersKnown, CurrentRouterSurvives, HeldCurrent
<1>4. FenceInv'
  <2>1. SUFFICES ASSUME NEW x \in Deployments, NEW q \in Requests, Early(q, x)'
                 PROVE  /\ cleanup'[x].passed # 0 => routeID(request[q].route) \in IDs(directory.retired)
                        /\ cleanup'[x].passed # 2
    BY DEF FenceInv
  <2>2. HeldCurrent(q) /\ request[q].route.dep = x /\ q \notin cleanup'[x].late
    BY <2>1 DEF Early, HeldCurrent
  <2>3. CASE x = d
    BY <1>1, <2>2, <2>3
  <2>4. CASE x # d
    <3>1. Early(q, x) /\ cleanup'[x] = cleanup[x]
      BY <1>1, <2>2, <2>4 DEF Early
    <3> QED BY <3>1 DEF RouteInv, FenceInv
  <2> QED BY <2>3, <2>4
<1> QED BY <1>2, <1>3, <1>4 DEF RouteInv

LEMMA NoAttemptIs == NoAttempt \in DeleteAttempts /\ NoAttempt.passed = 0 /\ NoAttempt.late = {}
BY DEF NoAttempt, DeleteAttempts

\* A held router's route that is no longer concrete is retired.
LEMMA UnpublishedIsRetired ==
  ASSUME RouteInv, NEW d \in Deployments, ~HasCurrentDeployment(directory, d), NEW q \in Requests,
         HeldCurrent(q), request[q].route.dep = d
  PROVE  routeID(request[q].route) \in IDs(directory.retired)
<1>1. PICK r : r = request[q].route
  OBVIOUS
<1>2. PICK s \in Kept(directory) : routeID(s) = routeID(r)
  BY <1>1 DEF RouteInv, HeldKnown, IDs
<1>3. s.dep = d
  BY <1>1, <1>2 DEF routeID
<1>4. s \notin Concrete(directory)
  BY <1>3 DEF HasCurrentDeployment, GetDeployment
<1>5. s \in directory.retired
  BY <1>2, <1>4 DEF Kept
<1> QED BY <1>1, <1>2, <1>5 DEF IDs

\* A retired route that is held keeps the second check closed.
LEMMA RetiredIsAwaited ==
  ASSUME NEW d \in Deployments, RetiringInFlight(directory, d, Pinned) = {}, NEW q \in Requests,
         HeldCurrent(q), request[q].route.dep = d
  PROVE  routeID(request[q].route) \notin IDs(directory.retired)
<1>1. PICK r : r = request[q].route
  OBVIOUS
<1>2. SUFFICES ASSUME NEW s \in directory.retired, routeID(s) = routeID(r)
               PROVE  FALSE
  BY <1>1 DEF IDs
<1>3. s.dep = d
  BY <1>1, <1>2 DEF routeID
<1>4. routeID(s) \in Pinned
  BY <1>1, <1>2 DEF Pinned, HeldCurrent
<1> QED BY <1>2, <1>3, <1>4 DEF RetiringInFlight

LEMMA CheckFenceStep ==
  ASSUME RouteInv, NEW d \in Deployments, CheckFence(d)
  PROVE  RouteInv'
<1>1. /\ UNCHANGED <<directory, desired, plan, fleet, generation, routers, capacity, pass, refresh, request, events>>
      /\ RouteTypeOK
  BY DEF RouteInv, CheckFence
<1>2. PICK old : old = cleanup[d]
  OBVIOUS
<1>3. old \in DeleteAttempts /\ old.passed \in 0..2 /\ old.passed < 2
  BY <1>1, <1>2 DEF RouteTypeOK, DeleteAttempts, CheckFence
<1>4. capacity' \subseteq Deployments /\ events' \in 0..MaxEvents
  BY <1>1 DEF RouteTypeOK
<1>5. CASE cleanup' = [cleanup EXCEPT ![d] = NoAttempt]
  <2>1. NoAttempt \in DeleteAttempts /\ NoAttempt.passed # 2 /\ ~(NoAttempt.passed # 0)
    BY NoAttemptIs
  <2> QED BY <1>1, <1>4, <1>5, <2>1, DeletionMoves
<1>6. CASE FenceOpens(d, old.passed) /\ cleanup' = [cleanup EXCEPT ![d].passed = @ + 1]
  <2>1. PICK n, new : n = old.passed + 1 /\ new = [old EXCEPT !.passed = n]
    OBVIOUS
  <2>2. n \in 0..2 /\ n # 0 /\ cleanup' = [cleanup EXCEPT ![d] = new]
    BY <1>2, <1>3, <1>6, <2>1
  <2>3. new \in DeleteAttempts /\ new.passed = n /\ new.late = old.late
    BY <1>3, <2>1, <2>2 DEF DeleteAttempts
  <2>4. ASSUME NEW q \in Requests, HeldCurrent(q), request[q].route.dep = d, q \notin new.late
        PROVE  routeID(request[q].route) \in IDs(directory.retired) /\ n # 2
    <3>1. CASE old.passed = 0
      <4>1. ~HasCurrentDeployment(directory, d)
        BY <1>6, <3>1 DEF FenceOpens
      <4> QED BY <2>1, <2>4, <3>1, <4>1, UnpublishedIsRetired
    <3>2. CASE old.passed # 0
      <4>1. RetiringInFlight(directory, d, Pinned) = {}
        BY <1>6, <3>2 DEF FenceOpens
      <4>2. Early(q, d)
        BY <1>2, <2>3, <2>4 DEF Early
      <4>3. routeID(request[q].route) \in IDs(directory.retired)
        BY <1>2, <3>2, <4>2 DEF RouteInv, FenceInv
      <4> QED BY <2>4, <4>1, <4>3, RetiredIsAwaited
    <3> QED BY <3>1, <3>2
  <2> QED BY <1>1, <1>4, <2>2, <2>3, <2>4, DeletionMoves
<1> QED BY <1>2, <1>5, <1>6 DEF CheckFence

\* The capacity is deleted, or the attempt given up: the next one starts over.
LEMMA AttemptEndsStep ==
  ASSUME RouteInv, NEW d \in Deployments, DeleteCapacity(d) \/ CleanupFails(d)
  PROVE  RouteInv'
<1>1. /\ UNCHANGED <<directory, desired, plan, fleet, generation, routers, pass, refresh, request>>
      /\ cleanup' = [cleanup EXCEPT ![d] = NoAttempt]
  BY DEF DeleteCapacity, CleanupFails
<1>2. capacity' \subseteq Deployments /\ events' \in 0..MaxEvents
  BY RouteServingConstants DEF RouteInv, RouteTypeOK, DeleteCapacity, CleanupFails, EventAllowed
<1>3. NoAttempt \in DeleteAttempts /\ NoAttempt.passed # 2 /\ ~(NoAttempt.passed # 0)
  BY NoAttemptIs
<1> QED BY <1>1, <1>2, <1>3, DeletionMoves

-----------------------------------------------------------------------------
(* Routes: the theorems.                                                   *)

LEMMA RoutesStart ==
  ASSUME RouteInit
  PROVE  RouteInv
<1>1. EmptyDirectory \in Directory /\ Concrete(EmptyDirectory) = {} /\ Published(EmptyDirectory) = {}
  <2>1. NoOverflow \in OverflowState
    BY DEF NoOverflow, OverflowState
  <2>2. EmptyDirectory.items = [a \in Aliases |-> NoRoute] /\ EmptyDirectory.endpoint.routes = {}
    BY DEF EmptyDirectory, NoEndpoint
  <2>3. EmptyDirectory \in Directory
    BY <2>1 DEF EmptyDirectory, Directory, NoEndpoint
  <2> QED BY <2>2, <2>3 DEF Concrete, Published
<1>2. NoRequest \in RequestState /\ NoRequest.route = NoRoute
  BY DEF NoRequest, RequestState
<1>3. request \in [Requests -> RequestState] /\ \A q \in Requests : request[q].route = NoRoute
  BY <1>2 DEF RouteInit
<1>4. fleet \in [Deployments -> Fleets]
  BY RouteServingConstants DEF RouteInit
<1>5. generation \in [Deployments -> Generation]
  BY <1>4 DEF RouteInit, Generation
<1>6. cleanup \in [Deployments -> DeleteAttempts] /\ \A d \in Deployments : cleanup[d].passed = 0
  BY NoAttemptIs DEF RouteInit
<1>7. RouteTypeOK
  BY <1>1, <1>3, <1>4, <1>5, <1>6, IdleIs, RouteServingConstants DEF RouteInit, RouteTypeOK
<1>8. ColdInv
  BY <1>1, <1>3, IdleIs DEF RouteInit, ColdInv
<1>9. ConcreteRuns /\ ReapInv /\ RoutersKnown
  BY <1>1, IdleIs DEF RouteInit, ConcreteRuns, ReapInv, RoutersKnown
<1>10. HeldKnown /\ CurrentRouterSurvives
  BY <1>3 DEF HeldKnown, HeldCurrent, CurrentRouterSurvives
<1>11. FenceInv
  BY <1>6 DEF FenceInv
<1> QED BY <1>7, <1>8, <1>9, <1>10, <1>11 DEF RouteInv

LEMMA RoutesStay ==
  ASSUME RouteInv, [RouteNext]_routeVars
  PROVE  RouteInv'
<1>1. CASE PassStep
  BY <1>1, ReapBeginStep, ReapStep, ReadDeploymentsStep, CompilesStep, PublishesStep, ReconcileStep DEF PassStep
<1>2. CASE RefreshStep
  BY <1>2, CompilesStep, PublishesStep DEF RefreshStep
<1>3. CASE ActivatePlan
  BY <1>3, CompilesStep
<1>4. ASSUME NEW q \in Requests, (\E a \in Aliases : Acquire(q, a)) \/ InvalidateCold(q) \/ Release(q)
      PROVE  RouteInv'
  BY <1>4, AcquireStep, InvalidateColdStep, ReleaseStep
<1>5. ASSUME NEW d \in Deployments,
             \/ SubmitDeploymentDelete(d) \/ CleanupStep(d) \/ CleanupFails(d)
             \/ FleetMoves(d) \/ SkipDeployment(d)
      PROVE  RouteInv'
  BY <1>5, SurroundingStep, CheckFenceStep, AttemptEndsStep DEF CleanupStep
<1>6. CASE UNCHANGED routeVars
  <2>1. UNCHANGED <<directory, desired, plan, fleet, generation, routers, capacity, pass, refresh, request,
                    cleanup, events>>
    BY <1>6 DEF routeVars
  <2>2. RouteTypeOK'
    BY <2>1 DEF RouteInv, RouteTypeOK
  <2>3. ColdInv'
    BY <2>1 DEF RouteInv, ColdInv
  <2> QED BY <2>1, <2>2, <2>3, NothingMoves
<1> QED BY <1>1, <1>2, <1>3, <1>4, <1>5, <1>6 DEF RouteNext

\* The inductive invariant of the routes in use.
THEOREM RouteInvariance == RouteSpec => []RouteInv
<1>1. RouteInit => RouteInv
  BY RoutesStart
<1>2. RouteInv /\ [RouteNext]_routeVars => RouteInv'
  BY RoutesStay
<1> QED BY <1>1, <1>2, PTL DEF RouteSpec

\* The types of the directory, the reconciler's pass, the refresh and the requests.
THEOREM RouteTypes == RouteSpec => []RouteTypeOK
<1>1. RouteInv => RouteTypeOK
  BY DEF RouteInv
<1> QED BY <1>1, RouteInvariance, PTL

\* The reaper never stops the router of a route that was concrete when a request
\* that still runs acquired it (routes.go, Acquire and RetiredReady), whatever is
\* published, withdrawn or refreshed between its question and its stop.
THEOREM HeldRoutersRun == RouteSpec => []CurrentRouterSurvives
<1>1. RouteInv => CurrentRouterSurvives
  BY DEF RouteInv
<1> QED BY <1>1, RouteInvariance, PTL

\* No running router is forgotten: the directory publishes it or will have it reaped.
THEOREM RoutersAreKnown == RouteSpec => []NoOrphanRouter
<1>1. RouteInv => NoOrphanRouter
  <2>1. SUFFICES ASSUME RouteInv, NEW p \in routers
                 PROVE  \E r \in Published(directory) \union directory.retired :
                          r.kind = "router" /\ <<r.dep, r.gen>> = p
    BY DEF NoOrphanRouter
  <2>2. p \in Deployments \X Generations
    BY <2>1 DEF RouteInv, RouteTypeOK
  <2>3. PICK r \in Known(directory) : routeID(r) = <<p[1], "router", p[2]>>
    BY <2>1 DEF RouteInv, RoutersKnown, IDs
  <2>4. r.kind = "router" /\ <<r.dep, r.gen>> = p
    BY <2>2, <2>3 DEF routeID
  <2> QED BY <2>3, <2>4 DEF Known
<1> QED BY <1>1, RouteInvariance, PTL

\* The delete workflow (workflows/cloud.go) checks its fence in two steps and
\* deletes the capacity in a third, and routes are put, withdrawn, acquired and
\* released between them.  At the moment of the deletion no request holds a
\* router's route of the deployment that was concrete when it was acquired,
\* except those that acquired it after the first check.
THEOREM DeletesAreFenced == RouteSpec => DeleteWaitsForRequests
<1>1. ASSUME RouteInv, [RouteNext]_routeVars, NEW d \in capacity \ capacity', NEW q \in Requests \ cleanup[d].late,
             Holds(q, d), request[q].current, request[q].route.kind = "router"
      PROVE  FALSE
  <2>1. DeleteCapacity(d)
    BY <1>1 DEF RouteNext, routeVars, PassStep, RefreshStep, CleanupStep, ReapBegin, Reap, ReadDeployments,
             PassCompiles, PassPublishes, ReconcileDeployment, RefreshCompiles, RefreshPublishes, ActivatePlan,
             Acquire, InvalidateCold, Release, SubmitDeploymentDelete, CheckFence, DeleteCapacity, CleanupFails,
             FleetMoves, SkipDeployment
  <2>2. cleanup[d].passed = 2
    BY <2>1 DEF DeleteCapacity
  <2>3. Early(q, d) /\ d \in Deployments
    BY <1>1 DEF Early, HeldCurrent, Holds, RouteInv, RouteTypeOK
  <2> QED BY <1>1, <2>2, <2>3 DEF RouteInv, FenceInv
<1>2. RouteInv /\ [RouteNext]_routeVars =>
        [\A d \in capacity \ capacity' : \A q \in Requests \ cleanup[d].late :
           ~(Holds(q, d) /\ request[q].current /\ request[q].route.kind = "router")]_routeVars
  BY <1>1
<1> QED BY <1>2, RouteInvariance, PTL DEF RouteSpec, DeleteWaitsForRequests

=============================================================================
