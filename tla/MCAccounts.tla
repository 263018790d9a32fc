----------------------------- MODULE MCAccounts -----------------------------
(***************************************************************************)
(* Instances for TLC of what a tenant's account consists of: checkouts,    *)
(* the wallet, the request quota, what hosted Model API requests cost and  *)
(* what requests to managed bindings take.  A behaviour is about one of    *)
(* them, its subject, which Init chooses; the others keep their initial    *)
(* state.                                                                  *)
(***************************************************************************)
EXTENDS FundingIntent, ManagedWallet, RequestQuota, HostedUsage, GatewayRequest, TLC

CONSTANTS
  Subjects,
  c1, c2, c3, c4, k1,              \* calls and their key
  t1, g1, s1, s2, u1, b1, d1,      \* a tenant, a grant, sessions and holds
  r1, r2,                          \* gateway replicas
  h1,                              \* a hosted request
  q1, q2                           \* requests at the gateway

VARIABLE subject

allVars == <<subject, fundingVars, vars, quotaVars, hostedVars, gatewayVars>>

\* The two replicas are interchangeable.
ReplicaSymmetry == Permutations(Replicas)

\* Three calls with one key and one amount, and one with another amount.
MCKeyOf == [c \in {c1, c2, c3, c4} |-> k1]
MCAmountOf == (c1 :> 1 @@ c2 :> 1 @@ c3 :> 1 @@ c4 :> 2)

MCGrantTenant == [g \in {g1} |-> t1]
MCGrantAmount == [g \in {g1} |-> 1]

MCSessionTenant == [s \in {s1, s2} |-> t1]
MCSessionAmount == (s1 :> 3 @@ s2 :> 2)

\* The session's two success events, a second session, two cumulative refunds
\* of the first, and an event that reuses an ID with another payload.
MCEvents == {
  [id |-> 1, kind |-> "credit", session |-> s1, amount |-> 3],
  [id |-> 2, kind |-> "credit", session |-> s1, amount |-> 3],
  [id |-> 3, kind |-> "credit", session |-> s2, amount |-> 2],
  [id |-> 4, kind |-> "refund", session |-> s1, amount |-> 1],
  [id |-> 5, kind |-> "refund", session |-> s1, amount |-> 3],
  [id |-> 5, kind |-> "other", session |-> s1, amount |-> 0] }

\* A model API request, a sandbox and a deployment.
MCHoldTenant == [h \in {u1, b1, d1} |-> t1]
MCHoldKind == (u1 :> "usage" @@ b1 :> "sandbox" @@ d1 :> "deployment")
MCHoldSize == (u1 :> 2 @@ b1 :> 1 @@ d1 :> 2)

AccountsInit ==
  /\ subject \in Subjects
  /\ FundingInit
  /\ Init
  /\ QuotaInit /\ (subject # "quota" => quota = NoLimit)
  /\ GatewayInit
  /\ HostedInit /\ (subject # "hosted" => rates = <<1>>)

AccountsNext ==
  \/ subject = "funding" /\ FundingNext /\ UNCHANGED <<subject, vars, quotaVars, hostedVars, gatewayVars>>
  \/ subject = "wallet" /\ Next /\ UNCHANGED <<subject, fundingVars, quotaVars, hostedVars, gatewayVars>>
  \/ subject = "quota" /\ QuotaNext /\ UNCHANGED <<subject, fundingVars, vars, hostedVars, gatewayVars>>
  \/ subject = "hosted" /\ HostedNext /\ UNCHANGED <<subject, fundingVars, vars, quotaVars, gatewayVars>>
  \/ subject = "gateway" /\ GatewayNext /\ UNCHANGED <<subject, fundingVars, vars, quotaVars, hostedVars>>

AccountsSpec == AccountsInit /\ [][AccountsNext]_allVars
=============================================================================
