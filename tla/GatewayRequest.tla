--------------------------- MODULE GatewayRequest ---------------------------
(***************************************************************************)
(* A request through the gateway (gateway/gateway.go, proxyInference): it  *)
(* pins a route, takes an admission slot, a quota token and, for an        *)
(* external binding the customer's wallet pays for, a wallet hold and a    *)
(* unit of the external budget; it is sent upstream and settled.  Every    *)
(* early return has to give back what was taken until then.                *)
(*                                                                         *)
(* When a slot, a token or a budget unit is granted is the subject of      *)
(* AdmissionPool, RequestQuota and ExternalBudget: here either answer may  *)
(* come.  The wallet is shared by the tenant's requests.  An operator      *)
(* closes holds by hand, with what the supplier's invoice says.            *)
(***************************************************************************)
EXTENDS WalletArithmetic

CONSTANTS
  InferenceRequests,   \* requests of one tenant
  Prepaid,             \* the wallet's balance
  MaxRequestCost,      \* what a request reserves
  Invoices,            \* what a supplier may bill for a request
  MaxRetries,          \* the endpoint's retry budget
  MaxGatewayFaults     \* bound on crashes and failed statements

ASSUME GatewayAssumption ==
  /\ Prepaid \in Nat /\ MaxRequestCost \in Nat \ {0}
  /\ Invoices \subseteq Nat
  /\ MaxRetries \in Nat /\ MaxGatewayFaults \in Nat

VARIABLES
  proxy,      \* where the handler of a request is, its route, its retries and the usage it has read
  taken,      \* what the request has taken and not given back
  sent,       \* how often it was sent upstream
  bill,       \* what the supplier bills for it
  usageHold,  \* managed_usage_reservations: state and actual_microusd
  account,    \* the tenant's managed wallet
  gatewayFaults

gatewayVars == <<proxy, taken, sent, bill, usageHold, account, gatewayFaults>>

Unbilled == -1    \* not decided yet; of usage: not reported

HandlerSteps == {"new", "admit", "quota", "reserve", "budget", "send", "waiting", "copy",
                 "settle", "release", "done"}
Routes == {"owned", "external", "paid"}   \* paid: external, at the customer wallet's expense
OpenHolds == {"reserved", "pending_reconciliation"}

Handler == [pc: HandlerSteps, route: Routes \union {"none"}, retries: Nat, read: Invoices \union {Unbilled}]
UsageHold == [state: {"none", "settled", "released"} \union OpenHolds, actual: Nat]

GatewayTypeOK ==
  /\ proxy \in [InferenceRequests -> Handler]
  /\ taken \in [InferenceRequests -> SUBSET {"route", "slot", "token", "unit"}]
  /\ sent \in [InferenceRequests -> Nat]
  /\ bill \in [InferenceRequests -> Invoices \union {Unbilled}]
  /\ usageHold \in [InferenceRequests -> UsageHold]
  /\ account \in Wallet
  /\ gatewayFaults \in 0 .. MaxGatewayFaults

GatewayInit ==
  /\ proxy = [q \in InferenceRequests |-> [pc |-> "new", route |-> "none", retries |-> 0, read |-> Unbilled]]
  /\ taken = [q \in InferenceRequests |-> {}]
  /\ sent = [q \in InferenceRequests |-> 0]
  /\ bill = [q \in InferenceRequests |-> Unbilled]
  /\ usageHold = [q \in InferenceRequests |-> [state |-> "none", actual |-> 0]]
  /\ account = [balance |-> Prepaid, reserved |-> 0, debt |-> 0]
  /\ gatewayFaults = 0

GatewayFault == gatewayFaults < MaxGatewayFaults /\ gatewayFaults' = gatewayFaults + 1

ProxyAt(q, pc) == proxy[q].pc = pc
Paid(q) == proxy[q].route = "paid"
Goes(q, pc) == proxy' = [proxy EXCEPT ![q].pc = pc]
Takes(q, thing) == taken' = [taken EXCEPT ![q] = @ \union {thing}]

\* The handler returns, and its deferred calls release slot and route.
Returns(q) ==
  /\ Goes(q, "done")
  /\ taken' = [taken EXCEPT ![q] = @ \ {"route", "slot"}]

billingVars == <<usageHold, account>>
upstreamVars == <<sent, bill>>

(***************************************************************************)
(* The statements on the wallet.                                           *)
(***************************************************************************)
HoldUsage(q) ==
  /\ Spendable(account) >= MaxRequestCost
  /\ account' = [account EXCEPT !.reserved = @ + MaxRequestCost]
  /\ usageHold' = [usageHold EXCEPT ![q].state = "reserved"]

\* A closed hold is left as it is.
CloseUsage(q, state, actual) ==
  IF usageHold[q].state \in OpenHolds
  THEN /\ usageHold' = [usageHold EXCEPT ![q] = [state |-> state, actual |-> actual]]
       /\ account' = ReconcileManagedDebt([account EXCEPT !.balance = @ - actual, !.reserved = @ - MaxRequestCost])
  ELSE UNCHANGED billingVars

\* Observed usage is charged up to the hold.
SettleUsage(q, cost) == CloseUsage(q, "settled", Least(cost, MaxRequestCost))

\* Without usage the hold is kept for an operator.
RetainUsage(q) ==
  /\ usageHold' = IF usageHold[q].state \in OpenHolds
                  THEN [usageHold EXCEPT ![q].state = "pending_reconciliation"] ELSE usageHold
  /\ UNCHANGED account

(***************************************************************************)
(* The handler, until the request is sent.                                 *)
(***************************************************************************)
AcquireRoute(q) ==
  /\ ProxyAt(q, "new")
  /\ \E route \in Routes : proxy' = [proxy EXCEPT ![q].pc = "admit", ![q].route = route]
  /\ Takes(q, "route")
  /\ UNCHANGED <<upstreamVars, billingVars, gatewayFaults>>

\* Invalid, not allowed or unknown; the endpoint does not support the protocol;
\* admission refuses it or its deadline passes; the tenant's quota is exhausted.
TurnedAway(q) ==
  /\ \E pc \in {"new", "admit", "quota"} : ProxyAt(q, pc)
  /\ Returns(q)
  /\ UNCHANGED <<upstreamVars, billingVars, gatewayFaults>>

AcquireAdmission(q) ==
  /\ ProxyAt(q, "admit")
  /\ Goes(q, "quota") /\ Takes(q, "slot")
  /\ UNCHANGED <<upstreamVars, billingVars, gatewayFaults>>

AuthorizeTenant(q) ==
  /\ ProxyAt(q, "quota")
  /\ Goes(q, IF proxy[q].route = "owned" THEN "send" ELSE "reserve") /\ Takes(q, "token")
  /\ UNCHANGED <<upstreamVars, billingVars, gatewayFaults>>

AuthorizeUsage(q) ==
  /\ ProxyAt(q, "reserve")
  /\ IF Paid(q) THEN HoldUsage(q) ELSE UNCHANGED billingVars
  /\ Goes(q, "budget")
  /\ UNCHANGED <<taken, upstreamVars, gatewayFaults>>

\* The balance is insufficient, the rate card has expired or the statement fails.
UsageRefused(q) ==
  /\ ProxyAt(q, "reserve")
  /\ Returns(q)
  /\ UNCHANGED <<upstreamVars, billingVars, gatewayFaults>>

\* The hold is committed and the answer lost: the handler returns as if refused.
AuthorizationLost(q) ==
  /\ ProxyAt(q, "reserve") /\ Paid(q)
  /\ GatewayFault
  /\ HoldUsage(q)
  /\ Returns(q)
  /\ UNCHANGED upstreamVars

AuthorizeExternal(q) ==
  /\ ProxyAt(q, "budget")
  /\ Goes(q, "send") /\ Takes(q, "unit")
  /\ UNCHANGED <<upstreamVars, billingVars, gatewayFaults>>

MutExhaustedReturns(q) ==
  /\ ProxyAt(q, "budget")
  /\ Returns(q)
  /\ UNCHANGED <<upstreamVars, billingVars, gatewayFaults>>

BudgetExhausted(q) ==
  /\ ProxyAt(q, "budget")
  /\ Goes(q, "release")
  /\ UNCHANGED <<taken, upstreamVars, billingVars, gatewayFaults>>

InvalidEndpoint(q) ==
  /\ ProxyAt(q, "send") /\ proxy[q].retries = 0
  /\ Goes(q, "release")
  /\ UNCHANGED <<taken, upstreamVars, billingVars, gatewayFaults>>

(***************************************************************************)
(* Upstream.                                                               *)
(***************************************************************************)
\* What an external binding serves is sent once.
RetryBudget(q) == IF proxy[q].route = "owned" THEN MaxRetries ELSE 0

SendUpstream(q) ==
  /\ ProxyAt(q, "send")
  /\ Goes(q, "waiting")
  /\ sent' = [sent EXCEPT ![q] = @ + 1]
  /\ UNCHANGED <<taken, bill, billingVars, gatewayFaults>>

\* The connection fails before or after the request went out, the deadline
\* passes, or a proxy on the way answers 502, 503 or 504: the next attempt, or
\* the handler gives up.  The caller may also be gone before the next attempt.
AttemptFails(q) ==
  /\ ProxyAt(q, "send") \/ ProxyAt(q, "waiting")
  /\ \/ /\ proxy[q].retries < RetryBudget(q)
        /\ proxy' = [proxy EXCEPT ![q].pc = "send", ![q].retries = @ + 1]
     \/ Goes(q, "release")
  /\ UNCHANGED <<taken, upstreamVars, billingVars, gatewayFaults>>

\* The supplier decides what the request costs, whether or not its answer arrives.
SupplierBills(q) ==
  /\ sent[q] > 0 /\ bill[q] = Unbilled
  /\ \E cost \in Invoices : bill' = [bill EXCEPT ![q] = cost]
  /\ UNCHANGED <<proxy, taken, sent, billingVars, gatewayFaults>>

Responds(q) ==
  /\ ProxyAt(q, "waiting") /\ bill[q] # Unbilled
  /\ Goes(q, "copy")
  /\ UNCHANGED <<taken, upstreamVars, billingVars, gatewayFaults>>

\* The response is copied to the caller, to its end or until one of the two
\* connections breaks; it reports the usage or does not.
CopyResponse(q) ==
  /\ ProxyAt(q, "copy")
  /\ \E read \in {bill[q], Unbilled} : proxy' = [proxy EXCEPT ![q].pc = "settle", ![q].read = read]
  /\ UNCHANGED <<taken, upstreamVars, billingVars, gatewayFaults>>

(***************************************************************************)
(* The end.                                                                *)
(***************************************************************************)
SettleManagedBilling(q) ==
  /\ ProxyAt(q, "settle")
  /\ CASE ~Paid(q) -> UNCHANGED billingVars
       [] Paid(q) /\ proxy[q].read # Unbilled -> SettleUsage(q, proxy[q].read)
       [] OTHER -> RetainUsage(q)
  /\ Returns(q)
  /\ UNCHANGED <<upstreamVars, gatewayFaults>>

ReleaseManagedBilling(q) ==
  /\ ProxyAt(q, "release")
  /\ IF Paid(q) THEN CloseUsage(q, "released", 0) ELSE UNCHANGED billingVars
  /\ Returns(q)
  /\ UNCHANGED <<upstreamVars, gatewayFaults>>

\* The statement fails within its five seconds, which is logged.
ClosingFails(q) ==
  /\ Paid(q) /\ (ProxyAt(q, "settle") \/ ProxyAt(q, "release"))
  /\ GatewayFault
  /\ Returns(q)
  /\ UNCHANGED <<upstreamVars, billingVars>>

\* The process stops with all its requests.
GatewayStops ==
  /\ GatewayFault
  /\ proxy' = [q \in InferenceRequests |-> IF ProxyAt(q, "new") THEN proxy[q] ELSE [proxy[q] EXCEPT !.pc = "done"]]
  /\ taken' = [q \in InferenceRequests |-> taken[q] \ {"route", "slot"}]
  /\ UNCHANGED <<upstreamVars, billingVars>>

\* The administrator settles an open hold with the invoiced usage.
OperatorSettles(q) ==
  /\ bill[q] # Unbilled /\ usageHold[q].state \in OpenHolds
  /\ SettleUsage(q, bill[q])
  /\ UNCHANGED <<proxy, taken, upstreamVars, gatewayFaults>>

\* Or releases it, when the supplier has verifiably not charged.
OperatorReleases(q) ==
  /\ bill[q] = 0 \/ (ProxyAt(q, "done") /\ sent[q] = 0)
  /\ usageHold[q].state \in OpenHolds
  /\ CloseUsage(q, "released", 0)
  /\ UNCHANGED <<proxy, taken, upstreamVars, gatewayFaults>>

HandlesRequest(q) ==
  \/ AcquireRoute(q) \/ TurnedAway(q) \/ AcquireAdmission(q) \/ AuthorizeTenant(q)
  \/ AuthorizeUsage(q) \/ UsageRefused(q) \/ AuthorizationLost(q)
  \/ AuthorizeExternal(q) \/ BudgetExhausted(q) \/ InvalidEndpoint(q)
  \/ SendUpstream(q) \/ AttemptFails(q) \/ Responds(q) \/ CopyResponse(q)
  \/ SettleManagedBilling(q) \/ ReleaseManagedBilling(q) \/ ClosingFails(q)

GatewayNext ==
  \/ \E q \in InferenceRequests :
       HandlesRequest(q) \/ SupplierBills(q) \/ OperatorSettles(q) \/ OperatorReleases(q)
  \/ GatewayStops

GatewaySpec == GatewayInit /\ [][GatewayNext]_gatewayVars

(***************************************************************************)
(* Properties.                                                             *)
(***************************************************************************)

\* "Reserve customer wallet funds before supplier transmission" and "never
\* invent a charge": a request to an external binding goes out once, with a
\* budget unit of its own and, where the wallet pays, a hold; the hold is open
\* as long as its handler may still learn a bill nobody knows yet; and what is
\* charged is what the supplier billed, up to the hold, whoever settles first.
SentOnlyWhenCovered ==
  \A q \in InferenceRequests :
    /\ sent[q] > 0 /\ proxy[q].route # "owned" =>
         sent[q] = 1 /\ "unit" \in taken[q] /\ (Paid(q) => usageHold[q].state # "none")
    /\ Paid(q) /\ ProxyAt(q, "waiting") /\ bill[q] = Unbilled => usageHold[q].state = "reserved"
    /\ usageHold[q].state = "settled" => bill[q] # Unbilled /\ usageHold[q].actual = Least(bill[q], MaxRequestCost)

\* Whichever of its returns a request takes, it keeps neither route nor slot, and
\* without a fault its hold is closed or waits for an operator.
LeavesNothingBehind ==
  \A q \in InferenceRequests : ProxyAt(q, "done") =>
    /\ taken[q] \subseteq {"token", "unit"}
    /\ gatewayFaults = 0 => usageHold[q].state # "reserved"

\* What a request takes, sends and is charged is accounted for, on every way
\* through the handler (gateway.go, proxyInference).
RequestsAccountedFor == SentOnlyWhenCovered /\ LeavesNothingBehind
=============================================================================
