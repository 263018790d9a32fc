--------------------------- MODULE GatewayProofs ----------------------------
(***************************************************************************)
(* Machine-checked proofs about a request's way through the gateway:       *)
(* GatewayRequest, for every number of requests, every wallet and every    *)
(* number of faults, and RequestQuota, for any number of replicas,         *)
(* minutes, limits and lease sizes.                                        *)
(***************************************************************************)
EXTENDS GatewayRequest, RequestQuota, AccountingProofs

-----------------------------------------------------------------------------
(* What a request takes and leaves behind.                                 *)

(***************************************************************************)
(* The inductive invariant says, for each position of the handler, what    *)
(* the request holds and what its supplier can know.                       *)
(***************************************************************************)

\* What the request has taken follows from where its handler is.
TakenByPosition(q) ==
  /\ ProxyAt(q, "new") => taken[q] = {} /\ proxy[q].route = "none"
  /\ ProxyAt(q, "done") => taken[q] \subseteq {"token", "unit"}
  /\ proxy[q].route = "none" => ProxyAt(q, "new") \/ ProxyAt(q, "done")
  /\ proxy[q].route # "owned" => proxy[q].retries = 0
  /\ proxy[q].route # "owned" /\ ProxyAt(q, "send") => sent[q] = 0 /\ "unit" \in taken[q]
  /\ proxy[q].route # "owned" /\ sent[q] > 0 => sent[q] = 1 /\ "unit" \in taken[q]

\* Only what was sent is billed, and only the supplier's bill is read.
BilledWhenSent(q) ==
  /\ (\E pc \in {"new", "admit", "quota", "reserve", "budget"} : ProxyAt(q, pc)) => sent[q] = 0
  /\ bill[q] # Unbilled => sent[q] > 0
  /\ ProxyAt(q, "copy") => bill[q] # Unbilled
  /\ proxy[q].read # Unbilled => proxy[q].read = bill[q]

\* The hold is open until somebody can know the bill.
HoldByPosition(q) ==
  /\ ~Paid(q) => usageHold[q].state = "none"
  /\ (\E pc \in {"new", "admit", "quota", "reserve"} : ProxyAt(q, pc)) => usageHold[q].state = "none"
  /\ Paid(q) /\ (ProxyAt(q, "budget") \/ ProxyAt(q, "send")) => usageHold[q].state = "reserved"
  /\ Paid(q) /\ ProxyAt(q, "waiting") /\ bill[q] = Unbilled => usageHold[q].state = "reserved"
  /\ Paid(q) /\ sent[q] > 0 => usageHold[q].state # "none"
  /\ usageHold[q].state = "settled" => bill[q] # Unbilled /\ usageHold[q].actual = Least(bill[q], MaxRequestCost)
  /\ ProxyAt(q, "done") /\ gatewayFaults = 0 => usageHold[q].state # "reserved"

RequestInv(q) == TakenByPosition(q) /\ BilledWhenSent(q) /\ HoldByPosition(q)
GatewayInv == GatewayTypeOK /\ \A q \in InferenceRequests : RequestInv(q)

\* Closing a hold leaves a wallet.
LEMMA WalletStaysOne ==
  ASSUME account \in Wallet, NEW a \in Nat
  PROVE  ReconcileManagedDebt([account EXCEPT !.balance = @ - a, !.reserved = @ - MaxRequestCost]) \in Wallet
<1> DEFINE w == [account EXCEPT !.balance = @ - a, !.reserved = @ - MaxRequestCost]
<1> DEFINE b == account.balance - a
<1> DEFINE r == account.reserved - MaxRequestCost
<1>1. b \in Int /\ r \in Int /\ w = [account EXCEPT !.balance = b, !.reserved = r]
  BY GatewayAssumption DEF Wallet
<1> HIDE DEF b, r, w
<1>2. w \in Wallet
  BY <1>1 DEF Wallet
<1>3. ReconcileManagedDebt(w) \in Wallet
  <2> DEFINE x == Least(w.debt, w.balance - w.reserved)
  <2> DEFINE c == w.balance - x
  <2> DEFINE d == w.debt - x
  <2>1. c \in Int /\ d \in Int
    BY <1>2 DEF Wallet, Least
  <2>2. ReconcileManagedDebt(w) = w \/ ReconcileManagedDebt(w) = [w EXCEPT !.balance = c, !.debt = d]
    BY <1>2 DEF ReconcileManagedDebt, Wallet
  <2> HIDE DEF c, d
  <2> QED
    BY <1>2, <2>1, <2>2 DEF Wallet
<1> QED
  BY <1>3 DEF w

\* A handler that moves stays one.
LEMMA HandlerMoves ==
  ASSUME NEW p \in Handler, NEW pc \in HandlerSteps, NEW n \in Nat, NEW x \in Invoices \union {Unbilled}
  PROVE  /\ [p EXCEPT !.pc = pc] \in Handler
         /\ [p EXCEPT !.pc = pc, !.retries = n] \in Handler
         /\ [p EXCEPT !.pc = pc, !.read = x] \in Handler
  BY DEF Handler

LEMMA ClosedTypes ==
  ASSUME GatewayTypeOK, NEW q \in InferenceRequests, NEW state \in {"settled", "released"}, NEW a \in Nat,
         CloseUsage(q, state, a)
  PROVE  /\ account' \in Wallet
         /\ usageHold' \in [InferenceRequests -> UsageHold]
         /\ \A p \in InferenceRequests \ {q} : usageHold'[p] = usageHold[p]
         /\ usageHold'[q] = IF usageHold[q].state \in OpenHolds THEN [state |-> state, actual |-> a] ELSE usageHold[q]
<1>1. [state |-> state, actual |-> a] \in UsageHold
  BY DEF UsageHold
<1>2. account' \in Wallet
  BY WalletStaysOne DEF GatewayTypeOK, CloseUsage, billingVars
<1> QED
  BY <1>1, <1>2 DEF GatewayTypeOK, CloseUsage, billingVars

\* The steps until the request is sent take one thing each, and have sent nothing.
LEMMA AcquireRouteKeeps ==
  ASSUME GatewayInv, NEW q \in InferenceRequests, AcquireRoute(q)
  PROVE  GatewayInv'
  BY GatewayAssumption DEF AcquireRoute, GatewayInv, GatewayTypeOK, RequestInv,
    TakenByPosition, BilledWhenSent,
     HoldByPosition, ProxyAt, Paid, Goes, Takes, Returns, Handler, UsageHold, HandlerSteps, Routes, OpenHolds,
     Unbilled, GatewayFault, upstreamVars, billingVars

LEMMA TurnedAwayKeeps ==
  ASSUME GatewayInv, NEW q \in InferenceRequests, TurnedAway(q)
  PROVE  GatewayInv'
  BY GatewayAssumption DEF TurnedAway, GatewayInv, GatewayTypeOK, RequestInv, TakenByPosition,
    BilledWhenSent,
     HoldByPosition, ProxyAt, Paid, Goes, Takes, Returns, Handler, UsageHold, HandlerSteps, Routes, OpenHolds,
     Unbilled, GatewayFault, upstreamVars, billingVars

LEMMA AcquireAdmissionKeeps ==
  ASSUME GatewayInv, NEW q \in InferenceRequests, AcquireAdmission(q)
  PROVE  GatewayInv'
  BY GatewayAssumption DEF AcquireAdmission, GatewayInv, GatewayTypeOK, RequestInv,
    TakenByPosition, BilledWhenSent,
     HoldByPosition, ProxyAt, Paid, Goes, Takes, Returns, Handler, UsageHold, HandlerSteps, Routes, OpenHolds,
     Unbilled, GatewayFault, upstreamVars, billingVars

LEMMA AuthorizeTenantKeeps ==
  ASSUME GatewayInv, NEW q \in InferenceRequests, AuthorizeTenant(q)
  PROVE  GatewayInv'
  BY GatewayAssumption DEF AuthorizeTenant, GatewayInv, GatewayTypeOK, RequestInv,
    TakenByPosition, BilledWhenSent,
     HoldByPosition, ProxyAt, Paid, Goes, Takes, Returns, Handler, UsageHold, HandlerSteps, Routes, OpenHolds,
     Unbilled, GatewayFault, upstreamVars, billingVars

\* A hold is opened before anything can be billed.
LEMMA AuthorizeUsageKeeps ==
  ASSUME GatewayInv, NEW q \in InferenceRequests, AuthorizeUsage(q)
  PROVE  GatewayInv'
<1> USE GatewayAssumption DEF AuthorizeUsage, ProxyAt, Paid, Goes, Unbilled, upstreamVars, billingVars, HoldUsage, Spendable, Wallet
<1>0. proxy' \in [InferenceRequests -> Handler] /\ account' \in Wallet
  <2> DEFINE r == account.reserved + MaxRequestCost
  <2>1. account \in Wallet /\ account.reserved \in Int /\ r \in Int
    BY DEF GatewayInv, GatewayTypeOK
  <2>2. account' = account \/ account' = [account EXCEPT !.reserved = r]
    BY <2>1
  <2> HIDE DEF r
  <2>3. account' \in Wallet
    BY <2>1, <2>2
  <2> QED
    BY <2>3, HandlerMoves DEF GatewayInv, GatewayTypeOK, HandlerSteps
<1>1. GatewayTypeOK'
  BY <1>0 DEF GatewayInv, GatewayTypeOK, UsageHold, OpenHolds
<1>2. RequestInv(q)'
  BY DEF GatewayInv, GatewayTypeOK, Handler, UsageHold, RequestInv, TakenByPosition,
    BilledWhenSent, HoldByPosition, OpenHolds
<1>3. ASSUME NEW p \in InferenceRequests, p # q PROVE RequestInv(p)'
  BY <1>3 DEF GatewayInv, GatewayTypeOK, RequestInv, TakenByPosition, BilledWhenSent, HoldByPosition
<1> QED
  BY <1>1, <1>2, <1>3 DEF GatewayInv

LEMMA UsageRefusedKeeps ==
  ASSUME GatewayInv, NEW q \in InferenceRequests, UsageRefused(q)
  PROVE  GatewayInv'
  BY GatewayAssumption DEF UsageRefused, GatewayInv, GatewayTypeOK, RequestInv,
    TakenByPosition, BilledWhenSent,
     HoldByPosition, ProxyAt, Paid, Goes, Takes, Returns, Handler, UsageHold, HandlerSteps, Routes, OpenHolds,
     Unbilled, GatewayFault, upstreamVars, billingVars

LEMMA AuthorizationLostKeeps ==
  ASSUME GatewayInv, NEW q \in InferenceRequests, AuthorizationLost(q)
  PROVE  GatewayInv'
<1> USE GatewayAssumption DEF AuthorizationLost, ProxyAt, Paid, Goes, Unbilled, upstreamVars, billingVars, HoldUsage, Spendable, Wallet, Returns, GatewayFault
<1>0. proxy' \in [InferenceRequests -> Handler] /\ account' \in Wallet
  <2> DEFINE r == account.reserved + MaxRequestCost
  <2>1. account \in Wallet /\ account.reserved \in Int /\ r \in Int
    BY DEF GatewayInv, GatewayTypeOK
  <2>2. account' = account \/ account' = [account EXCEPT !.reserved = r]
    BY <2>1
  <2> HIDE DEF r
  <2>3. account' \in Wallet
    BY <2>1, <2>2
  <2> QED
    BY <2>3, HandlerMoves DEF GatewayInv, GatewayTypeOK, HandlerSteps
<1>1. GatewayTypeOK'
  BY <1>0 DEF GatewayInv, GatewayTypeOK, UsageHold, OpenHolds
<1>2. RequestInv(q)'
  BY DEF GatewayInv, GatewayTypeOK, Handler, UsageHold, RequestInv, TakenByPosition,
    BilledWhenSent, HoldByPosition, OpenHolds
<1>3. ASSUME NEW p \in InferenceRequests, p # q PROVE RequestInv(p)'
  BY <1>3 DEF GatewayInv, GatewayTypeOK, RequestInv, TakenByPosition, BilledWhenSent, HoldByPosition
<1> QED
  BY <1>1, <1>2, <1>3 DEF GatewayInv

LEMMA AuthorizeExternalKeeps ==
  ASSUME GatewayInv, NEW q \in InferenceRequests, AuthorizeExternal(q)
  PROVE  GatewayInv'
  BY GatewayAssumption DEF AuthorizeExternal, GatewayInv, GatewayTypeOK, RequestInv,
    TakenByPosition, BilledWhenSent,
     HoldByPosition, ProxyAt, Paid, Goes, Takes, Returns, Handler, UsageHold, HandlerSteps, Routes, OpenHolds,
     Unbilled, GatewayFault, upstreamVars, billingVars

LEMMA BudgetExhaustedKeeps ==
  ASSUME GatewayInv, NEW q \in InferenceRequests, BudgetExhausted(q)
  PROVE  GatewayInv'
  BY GatewayAssumption DEF BudgetExhausted, GatewayInv, GatewayTypeOK, RequestInv,
    TakenByPosition, BilledWhenSent,
     HoldByPosition, ProxyAt, Paid, Goes, Takes, Returns, Handler, UsageHold, HandlerSteps, Routes, OpenHolds,
     Unbilled, GatewayFault, upstreamVars, billingVars

LEMMA InvalidEndpointKeeps ==
  ASSUME GatewayInv, NEW q \in InferenceRequests, InvalidEndpoint(q)
  PROVE  GatewayInv'
  BY GatewayAssumption DEF InvalidEndpoint, GatewayInv, GatewayTypeOK, RequestInv,
    TakenByPosition, BilledWhenSent,
     HoldByPosition, ProxyAt, Paid, Goes, Takes, Returns, Handler, UsageHold, HandlerSteps, Routes, OpenHolds,
     Unbilled, GatewayFault, upstreamVars, billingVars

\* What is sent without retries is sent once.
LEMMA SendUpstreamKeeps ==
  ASSUME GatewayInv, NEW q \in InferenceRequests, SendUpstream(q)
  PROVE  GatewayInv'
  BY GatewayAssumption DEF SendUpstream, GatewayInv, GatewayTypeOK, RequestInv,
    TakenByPosition, BilledWhenSent,
     HoldByPosition, ProxyAt, Paid, Goes, Takes, Returns, Handler, UsageHold, HandlerSteps, Routes, OpenHolds,
     Unbilled, GatewayFault, upstreamVars, billingVars

LEMMA AttemptFailsKeeps ==
  ASSUME GatewayInv, NEW q \in InferenceRequests, AttemptFails(q)
  PROVE  GatewayInv'
<1> USE GatewayAssumption DEF AttemptFails, ProxyAt, Paid, Goes, Unbilled, upstreamVars, billingVars, RetryBudget
<1>0. proxy' \in [InferenceRequests -> Handler]
  <2> DEFINE n == proxy[q].retries + 1
  <2>1. n \in Nat
    BY DEF GatewayInv, GatewayTypeOK, Handler
  <2>2. \/ proxy' = [proxy EXCEPT ![q].pc = "send", ![q].retries = n]
        \/ proxy' = [proxy EXCEPT ![q].pc = "release"]
    BY DEF GatewayInv, GatewayTypeOK
  <2> HIDE DEF n
  <2>3. [proxy[q] EXCEPT !.pc = "send", !.retries = n] \in Handler /\ [proxy[q] EXCEPT !.pc = "release"] \in Handler
    BY <2>1 DEF GatewayInv, GatewayTypeOK, Handler, HandlerSteps
  <2> QED
    BY <2>2, <2>3 DEF GatewayInv, GatewayTypeOK, HandlerSteps
<1>1. GatewayTypeOK'
  BY <1>0 DEF GatewayInv, GatewayTypeOK
<1>2. RequestInv(q)'
  BY DEF GatewayInv, GatewayTypeOK, Handler, UsageHold, RequestInv, TakenByPosition,
    BilledWhenSent, HoldByPosition, OpenHolds
<1>3. ASSUME NEW p \in InferenceRequests, p # q PROVE RequestInv(p)'
  BY <1>3 DEF GatewayInv, GatewayTypeOK, RequestInv, TakenByPosition, BilledWhenSent, HoldByPosition
<1> QED
  BY <1>1, <1>2, <1>3 DEF GatewayInv

LEMMA SupplierBillsKeeps ==
  ASSUME GatewayInv, NEW q \in InferenceRequests, SupplierBills(q)
  PROVE  GatewayInv'
  BY GatewayAssumption DEF SupplierBills, GatewayInv, GatewayTypeOK, RequestInv,
    TakenByPosition, BilledWhenSent,
     HoldByPosition, ProxyAt, Paid, Goes, Takes, Returns, Handler, UsageHold, HandlerSteps, Routes, OpenHolds,
     Unbilled, GatewayFault, upstreamVars, billingVars

LEMMA RespondsKeeps ==
  ASSUME GatewayInv, NEW q \in InferenceRequests, Responds(q)
  PROVE  GatewayInv'
  BY GatewayAssumption DEF Responds, GatewayInv, GatewayTypeOK, RequestInv, TakenByPosition,
    BilledWhenSent,
     HoldByPosition, ProxyAt, Paid, Goes, Takes, Returns, Handler, UsageHold, HandlerSteps, Routes, OpenHolds,
     Unbilled, GatewayFault, upstreamVars, billingVars

LEMMA CopyResponseKeeps ==
  ASSUME GatewayInv, NEW q \in InferenceRequests, CopyResponse(q)
  PROVE  GatewayInv'
<1> USE GatewayAssumption DEF CopyResponse, ProxyAt, Paid, Goes, Unbilled, upstreamVars, billingVars
<1>0. proxy' \in [InferenceRequests -> Handler]
  <2>1. PICK x \in {bill[q], Unbilled} : proxy' = [proxy EXCEPT ![q].pc = "settle", ![q].read = x]
    BY DEF CopyResponse
  <2>2. x \in Invoices \union {Unbilled}
    BY <2>1 DEF GatewayInv, GatewayTypeOK
  <2> QED
    BY <2>1, <2>2, HandlerMoves DEF GatewayInv, GatewayTypeOK, HandlerSteps
<1>1. GatewayTypeOK'
  BY <1>0 DEF GatewayInv, GatewayTypeOK
<1>2. RequestInv(q)'
  BY DEF GatewayInv, GatewayTypeOK, Handler, UsageHold, RequestInv, TakenByPosition,
    BilledWhenSent, HoldByPosition, OpenHolds
<1>3. ASSUME NEW p \in InferenceRequests, p # q PROVE RequestInv(p)'
  BY <1>3 DEF GatewayInv, GatewayTypeOK, RequestInv, TakenByPosition, BilledWhenSent, HoldByPosition
<1> QED
  BY <1>1, <1>2, <1>3 DEF GatewayInv

\* The usage read is the bill, so whoever closes the hold closes it with the bill.
LEMMA SettleManagedBillingKeeps ==
  ASSUME GatewayInv, NEW q \in InferenceRequests, SettleManagedBilling(q)
  PROVE  GatewayInv'
<1>1. GatewayTypeOK
  BY DEF GatewayInv
<1>2. ASSUME Paid(q), proxy[q].read # Unbilled
      PROVE  CloseUsage(q, "settled", Least(bill[q], MaxRequestCost)) /\ Least(bill[q], MaxRequestCost) \in Nat
  BY <1>1, <1>2, GatewayAssumption DEF GatewayInv, RequestInv, BilledWhenSent, GatewayTypeOK,
    SettleManagedBilling,
     SettleUsage, Least, Unbilled
<1>3. /\ account' \in Wallet /\ usageHold' \in [InferenceRequests -> UsageHold]
      /\ \A p \in InferenceRequests \ {q} : usageHold'[p] = usageHold[p]
      /\ \/ ~Paid(q) /\ usageHold'[q] = usageHold[q]
         \/ /\ Paid(q) /\ proxy[q].read # Unbilled
            /\ usageHold'[q] = IF usageHold[q].state \in OpenHolds
                               THEN [state |-> "settled", actual |-> Least(bill[q], MaxRequestCost)] ELSE usageHold[q]
         \/ /\ Paid(q) /\ usageHold'[q].actual = usageHold[q].actual
            /\ usageHold'[q].state = IF usageHold[q].state \in OpenHolds THEN "pending_reconciliation"
                                     ELSE usageHold[q].state
  <2>1. CASE ~Paid(q)
    BY <1>1, <2>1 DEF SettleManagedBilling, GatewayTypeOK, billingVars
  <2>2. CASE Paid(q) /\ proxy[q].read # Unbilled
    BY <1>1, <1>2, <2>2, ClosedTypes
  <2>3. CASE Paid(q) /\ proxy[q].read = Unbilled
    <3>1. [usageHold[q] EXCEPT !.state = "pending_reconciliation"] \in UsageHold
      BY <1>1 DEF GatewayTypeOK, UsageHold, OpenHolds
    <3> QED
      BY <1>1, <2>3, <3>1 DEF SettleManagedBilling, RetainUsage, GatewayTypeOK, UsageHold
  <2> QED
    BY <2>1, <2>2, <2>3
<1> USE DEF ProxyAt, Paid, upstreamVars, Returns, Goes
<1>7. proxy' = [proxy EXCEPT ![q].pc = "done"] /\ taken' = [taken EXCEPT ![q] = @ \ {"route", "slot"}]
  BY DEF SettleManagedBilling
<1>8. /\ proxy' \in [InferenceRequests -> Handler]
      /\ taken' \in [InferenceRequests -> SUBSET {"route", "slot", "token", "unit"}]
  BY <1>1, <1>7, HandlerMoves DEF GatewayTypeOK, HandlerSteps
<1>4. GatewayTypeOK'
  BY <1>1, <1>3, <1>8 DEF SettleManagedBilling, GatewayTypeOK
<1>5. RequestInv(q)'
  BY <1>1, <1>3 DEF SettleManagedBilling, GatewayInv, GatewayTypeOK, Handler, UsageHold,
    RequestInv, TakenByPosition, BilledWhenSent, HoldByPosition, OpenHolds
<1>6. ASSUME NEW p \in InferenceRequests, p # q PROVE RequestInv(p)'
  BY <1>1, <1>3, <1>6 DEF SettleManagedBilling, GatewayInv, GatewayTypeOK, RequestInv,
    TakenByPosition, BilledWhenSent, HoldByPosition
<1> QED
  BY <1>4, <1>5, <1>6 DEF GatewayInv

LEMMA ReleaseManagedBillingKeeps ==
  ASSUME GatewayInv, NEW q \in InferenceRequests, ReleaseManagedBilling(q)
  PROVE  GatewayInv'
<1>1. GatewayTypeOK
  BY DEF GatewayInv
<1>3. /\ account' \in Wallet /\ usageHold' \in [InferenceRequests -> UsageHold]
      /\ \A p \in InferenceRequests \ {q} : usageHold'[p] = usageHold[p]
      /\ usageHold'[q] = IF Paid(q) /\ usageHold[q].state \in OpenHolds THEN [state |-> "released", actual |-> 0]
                         ELSE usageHold[q]
  <2>1. CASE Paid(q)
    BY <1>1, <2>1, ClosedTypes DEF ReleaseManagedBilling
  <2>2. CASE ~Paid(q)
    BY <1>1, <2>2 DEF ReleaseManagedBilling, GatewayTypeOK, billingVars
  <2> QED
    BY <2>1, <2>2
<1> USE DEF ProxyAt, Paid, upstreamVars, Returns, Goes
<1>7. proxy' = [proxy EXCEPT ![q].pc = "done"] /\ taken' = [taken EXCEPT ![q] = @ \ {"route", "slot"}]
  BY DEF ReleaseManagedBilling
<1>8. /\ proxy' \in [InferenceRequests -> Handler]
      /\ taken' \in [InferenceRequests -> SUBSET {"route", "slot", "token", "unit"}]
  BY <1>1, <1>7, HandlerMoves DEF GatewayTypeOK, HandlerSteps
<1>4. GatewayTypeOK'
  BY <1>1, <1>3, <1>8 DEF ReleaseManagedBilling, GatewayTypeOK
<1>5. RequestInv(q)'
  BY <1>1, <1>3 DEF ReleaseManagedBilling, GatewayInv, GatewayTypeOK, Handler, UsageHold,
    RequestInv, TakenByPosition, BilledWhenSent, HoldByPosition, OpenHolds
<1>6. ASSUME NEW p \in InferenceRequests, p # q PROVE RequestInv(p)'
  BY <1>1, <1>3, <1>6 DEF ReleaseManagedBilling, GatewayInv, GatewayTypeOK, RequestInv,
    TakenByPosition, BilledWhenSent, HoldByPosition
<1> QED
  BY <1>4, <1>5, <1>6 DEF GatewayInv

LEMMA ClosingFailsKeeps ==
  ASSUME GatewayInv, NEW q \in InferenceRequests, ClosingFails(q)
  PROVE  GatewayInv'
  BY GatewayAssumption DEF ClosingFails, GatewayInv, GatewayTypeOK, RequestInv,
    TakenByPosition, BilledWhenSent,
     HoldByPosition, ProxyAt, Paid, Goes, Takes, Returns, Handler, UsageHold, HandlerSteps, Routes, OpenHolds,
     Unbilled, GatewayFault, upstreamVars, billingVars

\* The operator has the invoice, or the request was never sent.
LEMMA OperatorSettlesKeeps ==
  ASSUME GatewayInv, NEW q \in InferenceRequests, OperatorSettles(q)
  PROVE  GatewayInv'
<1>1. GatewayTypeOK
  BY DEF GatewayInv
<1>2. CloseUsage(q, "settled", Least(bill[q], MaxRequestCost)) /\ Least(bill[q], MaxRequestCost) \in Nat
  BY <1>1, GatewayAssumption DEF GatewayTypeOK, OperatorSettles, SettleUsage, Least, Unbilled
<1>3. /\ account' \in Wallet /\ usageHold' \in [InferenceRequests -> UsageHold]
      /\ \A p \in InferenceRequests \ {q} : usageHold'[p] = usageHold[p]
      /\ usageHold'[q] = [state |-> "settled", actual |-> Least(bill[q], MaxRequestCost)]
  BY <1>1, <1>2, ClosedTypes DEF OperatorSettles
<1> USE DEF ProxyAt, Paid, upstreamVars
<1>4. GatewayTypeOK'
  BY <1>1, <1>3 DEF OperatorSettles, GatewayTypeOK, HandlerSteps
<1>5. RequestInv(q)'
  BY <1>1, <1>3 DEF OperatorSettles, GatewayInv, GatewayTypeOK, Handler, UsageHold,
    RequestInv, TakenByPosition, BilledWhenSent, HoldByPosition, OpenHolds
<1>6. ASSUME NEW p \in InferenceRequests, p # q PROVE RequestInv(p)'
  BY <1>1, <1>3, <1>6 DEF OperatorSettles, GatewayInv, GatewayTypeOK, RequestInv,
    TakenByPosition, BilledWhenSent, HoldByPosition
<1> QED
  BY <1>4, <1>5, <1>6 DEF GatewayInv

LEMMA OperatorReleasesKeeps ==
  ASSUME GatewayInv, NEW q \in InferenceRequests, OperatorReleases(q)
  PROVE  GatewayInv'
<1>1. GatewayTypeOK
  BY DEF GatewayInv
<1>3. /\ account' \in Wallet /\ usageHold' \in [InferenceRequests -> UsageHold]
      /\ \A p \in InferenceRequests \ {q} : usageHold'[p] = usageHold[p]
      /\ usageHold'[q] = [state |-> "released", actual |-> 0]
  BY <1>1, ClosedTypes DEF OperatorReleases
<1> USE DEF ProxyAt, Paid, upstreamVars
<1>4. GatewayTypeOK'
  BY <1>1, <1>3 DEF OperatorReleases, GatewayTypeOK, HandlerSteps
<1>5. RequestInv(q)'
  BY <1>1, <1>3 DEF OperatorReleases, GatewayInv, GatewayTypeOK, Handler, UsageHold, Unbilled,
    RequestInv, TakenByPosition, BilledWhenSent, HoldByPosition, OpenHolds
<1>6. ASSUME NEW p \in InferenceRequests, p # q PROVE RequestInv(p)'
  BY <1>1, <1>3, <1>6 DEF OperatorReleases, GatewayInv, GatewayTypeOK, RequestInv,
    TakenByPosition, BilledWhenSent, HoldByPosition
<1> QED
  BY <1>4, <1>5, <1>6 DEF GatewayInv

\* A crash gives back what the process held in memory, and is a fault.
LEMMA GatewayStopsKeeps ==
  ASSUME GatewayInv, GatewayStops
  PROVE  GatewayInv'
  BY GatewayAssumption DEF GatewayStops, GatewayInv, GatewayTypeOK, RequestInv,
    TakenByPosition, BilledWhenSent,
     HoldByPosition, ProxyAt, Paid, Handler, UsageHold, HandlerSteps, Routes, OpenHolds, Unbilled, GatewayFault, upstreamVars, billingVars

LEMMA GatewayInvHolds == GatewaySpec => []GatewayInv
<1>1. GatewayInit => GatewayInv
  BY GatewayAssumption DEF GatewayInit, GatewayInv, GatewayTypeOK, RequestInv,
    TakenByPosition, BilledWhenSent,
     HoldByPosition, ProxyAt, Paid, Handler, UsageHold, HandlerSteps, Routes, OpenHolds, Unbilled, Wallet
<1>2. GatewayInv /\ [GatewayNext]_gatewayVars => GatewayInv'
  <2> SUFFICES ASSUME GatewayInv, [GatewayNext]_gatewayVars PROVE GatewayInv'
    OBVIOUS
  <2>1. ASSUME NEW q \in InferenceRequests, HandlesRequest(q) PROVE GatewayInv'
    BY <2>1, AcquireRouteKeeps, TurnedAwayKeeps, AcquireAdmissionKeeps, AuthorizeTenantKeeps,
      AuthorizeUsageKeeps, UsageRefusedKeeps, AuthorizationLostKeeps, AuthorizeExternalKeeps,
      BudgetExhaustedKeeps, InvalidEndpointKeeps, SendUpstreamKeeps, AttemptFailsKeeps,
      RespondsKeeps, CopyResponseKeeps, SettleManagedBillingKeeps, ReleaseManagedBillingKeeps,
      ClosingFailsKeeps DEF HandlesRequest
  <2>2. ASSUME NEW q \in InferenceRequests, SupplierBills(q) \/ OperatorSettles(q) \/ OperatorReleases(q)
        PROVE  GatewayInv'
    BY <2>2, SupplierBillsKeeps, OperatorSettlesKeeps, OperatorReleasesKeeps
  <2>3. CASE GatewayStops
    BY <2>3, GatewayStopsKeeps
  <2>4. CASE UNCHANGED gatewayVars
    BY <2>4 DEF gatewayVars, GatewayInv, GatewayTypeOK, RequestInv, TakenByPosition,
      BilledWhenSent, HoldByPosition,
       ProxyAt, Paid
  <2> QED
    BY <2>1, <2>2, <2>3, <2>4 DEF GatewayNext
<1> QED
  BY <1>1, <1>2, PTL DEF GatewaySpec

\* Requests, holds and wallet keep their types.
THEOREM GatewayTypes == GatewaySpec => []GatewayTypeOK
  BY GatewayInvHolds, PTL DEF GatewayInv

\* On every way through proxyInference a request is sent only when it is covered,
\* is charged what the supplier billed, and gives back what it has taken.
THEOREM GatewayAccounts == GatewaySpec => []RequestsAccountedFor
<1>1. GatewayInv => RequestsAccountedFor
  BY DEF GatewayInv, RequestsAccountedFor, SentOnlyWhenCovered, LeavesNothingBehind,
    RequestInv, TakenByPosition,
     BilledWhenSent, HoldByPosition, GatewayTypeOK
<1> QED
  BY <1>1, GatewayInvHolds, PTL

-----------------------------------------------------------------------------
(* The request quota.                                                      *)

\* The rows, the clock and the replicas.
QuotaTables ==
    /\ now \in Minutes /\ quota \in QuotaPolicy
    /\ reserved \in [Minutes -> Nat]
    /\ quotaPool \in [Replicas -> Replica]
    /\ spentQuota \in [Minutes -> Nat] /\ peak \in [Minutes -> Nat]

QuotaCounters == changes \in 0 .. MaxChanges /\ quotaFaults \in 0 .. MaxQuotaFaults

\* A replica at minute n.
Timely(state, n) ==
    /\ state.window <= n /\ state.target <= n
    /\ state.tick # NoLimit => state.tick <= n /\ state.tick >= n - MaxLag
    /\ state.pc \in {"refilling", "reserving"} => state.target >= n - MaxLag
    /\ state.pc = "reserving" => state.read \in QuotaLimits

TimeInv == \A r \in Replicas : Timely(quotaPool[r], now)

RowInv ==
    \A m \in Minutes :
        /\ LimitOf(quota) <= peak[m] /\ reserved[m] <= peak[m]
        /\ m > now => reserved[m] = 0

TokenInv ==
    \A m \in Minutes :
        /\ m >= now - 2 => spentQuota[m] + Total(Outstanding(m), Replicas) <= reserved[m]
        /\ spentQuota[m] + Total(Outstanding(m), Replicas) <= peak[m]

LEMMA SplitQuota ==
  QuotaInv <=> QuotaTables /\ QuotaCounters /\ TimeInv /\ RowInv /\ TokenInv
  BY DEF QuotaInv, QuotaTypeOK, QuotaTables, QuotaCounters, TimeInv, Timely, RowInv, TokenInv

LEMMA SplitQuotaNext ==
  QuotaTables' /\ QuotaCounters' /\ TimeInv' /\ RowInv' /\ TokenInv' => QuotaInv'
  BY DEF QuotaInv, QuotaTypeOK, QuotaTables, QuotaCounters, TimeInv, Timely, RowInv, TokenInv

\* The fields of a replica.
LEMMA ReplicaFields ==
  ASSUME NEW s \in Replica
  PROVE  /\ s.tokens \in Nat /\ s.grant \in Nat /\ s.window \in Minutes /\ s.target \in Minutes
         /\ s.tick \in Minutes \cup {NoLimit} /\ s.limit \in QuotaPolicy /\ s.read \in QuotaPolicy
         /\ s.pc \in {"idle", "loaded", "refilling", "reserving", "granted"}
  BY DEF Replica

LEMMA MinuteNumbers ==
  /\ Minutes \subseteq Nat /\ NoLimit \notin Minutes /\ MaxLag \in Nat
  /\ QuotaLimits \subseteq Nat /\ NoLimit \notin QuotaLimits
<1>1. Minutes \subseteq Nat
  BY QuotaConstants DEF Minutes
<1>2. Nat \subseteq Int /\ NoLimit \notin Int /\ MaxLag \in Nat /\ QuotaLimits \subseteq Nat
  BY QuotaConstants
<1> QED
  BY <1>1, <1>2, Zenon

LEMMA TokensType ==
  ASSUME NEW s \in Replica, NEW m \in Minutes PROVE TokensOf(s, m) \in Nat
<1>1. s.tokens \in Nat /\ s.grant \in Nat
  BY ReplicaFields
<1> QED
  BY <1>1 DEF TokensOf

\* When one replica changes, the tokens of a minute change by its own.
LEMMA TokensMove ==
  ASSUME QuotaTables, NEW r \in Replicas, NEW s \in Replica,
         quotaPool' = [quotaPool EXCEPT ![r] = s], NEW m \in Minutes
  PROVE  /\ Total(Outstanding(m)', Replicas)
              = Total(Outstanding(m), Replicas) - TokensOf(quotaPool[r], m) + TokensOf(s, m)
         /\ Total(Outstanding(m), Replicas) \in Nat
         /\ TokensOf(quotaPool[r], m) \in Nat /\ TokensOf(s, m) \in Nat
<1> DEFINE f == Outstanding(m)
           g == Outstanding(m)'
<1>1. \A x \in Replicas : quotaPool[x] \in Replica /\ quotaPool'[x] \in Replica
  BY DEF QuotaTables
<1>2. \A x \in Replicas : f[x] = TokensOf(quotaPool[x], m) /\ g[x] = TokensOf(quotaPool'[x], m)
  BY DEF Outstanding, TokensOf
<1>3. \A x \in Replicas : f[x] \in Nat /\ g[x] \in Nat
  BY <1>1, <1>2, TokensType
<1>4. \A x \in Replicas \ {r} : quotaPool[x] = quotaPool'[x]
  BY DEF QuotaTables
<1>5. \A x \in Replicas \ {r} : f[x] = g[x]
  BY <1>2, <1>4
<1>6. f[r] = TokensOf(quotaPool[r], m) /\ g[r] = TokensOf(s, m)
  BY <1>2 DEF QuotaTables
<1>7. IsFiniteSet(Replicas)
  BY QuotaConstants
<1> HIDE DEF f, g
<1>8. /\ Total(g, Replicas) = Total(f, Replicas) - f[r] + g[r]
      /\ Total(f, Replicas) \in Nat /\ f[r] \in Nat /\ g[r] \in Nat
  BY <1>3, <1>5, <1>7, TotalChange
<1> QED
  BY <1>6, <1>8 DEF f, g

\* A replica changes and has no more tokens of any minute than before.
LEMMA LocalStep ==
  ASSUME QuotaTables, TimeInv, RowInv, TokenInv, NEW r \in Replicas, NEW s \in Replica,
         Is(r, s), Timely(s, now),
         \A m \in Minutes : TokensOf(s, m) <= TokensOf(quotaPool[r], m),
         UNCHANGED <<now, quota, reserved, spentQuota, peak>>
  PROVE  QuotaTables' /\ TimeInv' /\ RowInv' /\ TokenInv'
<1>1. quotaPool' = [quotaPool EXCEPT ![r] = s]
  BY DEF Is
<1>2. QuotaTables' /\ RowInv'
  BY <1>1 DEF QuotaTables, RowInv
<1>3. TimeInv'
  BY <1>1 DEF TimeInv, QuotaTables, Timely
<1>4. ASSUME NEW m \in Minutes
      PROVE  /\ m >= now' - 2 => spentQuota'[m] + Total(Outstanding(m)', Replicas) <= reserved'[m]
             /\ spentQuota'[m] + Total(Outstanding(m)', Replicas) <= peak'[m]
  <2> DEFINE a == Total(Outstanding(m), Replicas)
             b == Total(Outstanding(m)', Replicas)
             x == TokensOf(quotaPool[r], m)
             y == TokensOf(s, m)
  <2>1. b = a - x + y /\ a \in Nat /\ x \in Nat /\ y \in Nat /\ y <= x
    BY <1>1, TokensMove
  <2>2. spentQuota[m] \in Nat /\ reserved[m] \in Nat /\ peak[m] \in Nat
    BY DEF QuotaTables
  <2>3. (m >= now - 2 => spentQuota[m] + a <= reserved[m]) /\ spentQuota[m] + a <= peak[m]
    BY DEF TokenInv
  <2> HIDE DEF a, b, x, y
  <2>4. b \in Int /\ b <= a
    BY <2>1
  <2>5. (m >= now - 2 => spentQuota[m] + b <= reserved[m]) /\ spentQuota[m] + b <= peak[m]
    BY <2>1, <2>2, <2>3, <2>4
  <2> QED
    BY <2>5 DEF b
<1>5. TokenInv'
  BY <1>4 DEF TokenInv
<1> QED
  BY <1>2, <1>3, <1>5

\* The replica's tokens and grant are as they were.
LEMMA TokensKept ==
  ASSUME NEW s \in Replica, NEW o \in Replica, NEW m \in Minutes,
         s.window = o.window, s.tokens = o.tokens, s.pc # "granted"
  PROVE  TokensOf(s, m) <= TokensOf(o, m)
<1>1. o.tokens \in Nat /\ o.grant \in Nat
  BY ReplicaFields
<1> QED
  BY <1>1 DEF TokensOf

\* The tokens are dropped, or kept in their minute.
LEMMA TokensRolled ==
  ASSUME NEW s \in Replica, NEW o \in Replica, NEW m \in Minutes,
         s.tokens = 0 \/ (s.window = o.window /\ s.tokens = o.tokens), s.pc # "granted"
  PROVE  TokensOf(s, m) <= TokensOf(o, m)
<1>1. o.tokens \in Nat /\ o.grant \in Nat /\ s.tokens \in Nat
  BY ReplicaFields
<1> QED
  BY <1>1 DEF TokensOf

-----------------------------------------------------------------------------
\* What a step changes of one replica keeps its type and its time.
QuotaKept == QuotaTables' /\ TimeInv' /\ RowInv' /\ TokenInv'

LEMMA LoadKeeps ==
  ASSUME QuotaTables, TimeInv, RowInv, TokenInv, NEW r \in Replicas, LoadPolicies(r)
  PROVE  QuotaKept
<1> DEFINE o == quotaPool[r]
           s == [o EXCEPT !.pc = "loaded", !.read = quota]
<1>1. o \in Replica /\ quota \in QuotaPolicy /\ Timely(o, now)
  BY DEF QuotaTables, TimeInv
<1>2. /\ s \in Replica /\ s.window = o.window /\ s.tokens = o.tokens /\ s.pc = "loaded"
      /\ s.target = o.target /\ s.tick = o.tick
  BY <1>1 DEF Replica
<1>3. Is(r, s) /\ UNCHANGED <<now, quota, reserved, spentQuota, peak>>
  BY DEF LoadPolicies, history
<1> HIDE DEF s
<1>4. Timely(s, now)
  BY <1>1, <1>2 DEF Timely
<1> QED
  BY <1>1, <1>2, <1>3, <1>4, TokensKept, LocalStep DEF QuotaKept

LEMMA PublishKeeps ==
  ASSUME QuotaTables, TimeInv, RowInv, TokenInv, NEW r \in Replicas, Publish(r)
  PROVE  QuotaKept
<1> DEFINE o == quotaPool[r]
           n == IF o.read = NoLimit THEN 0 ELSE Kept(o, now, o.read)
           s == [o EXCEPT !.pc = "refilling", !.target = now, !.serving = TRUE,
                          !.limit = o.read, !.read = NoLimit, !.tokens = n, !.window = now]
<1>1. o \in Replica /\ now \in Minutes /\ Timely(o, now) /\ o.tokens \in Nat /\ o.read \in QuotaPolicy
  BY ReplicaFields DEF QuotaTables, TimeInv
<1>2. n \in Nat /\ (n = 0 \/ (n = o.tokens /\ o.window = now))
  BY <1>1 DEF Kept
<1> HIDE DEF n
<1>3. /\ s \in Replica /\ s.window = now /\ s.tokens = n /\ s.pc = "refilling"
      /\ s.target = now /\ s.tick = o.tick
  BY <1>1, <1>2 DEF Replica, QuotaPolicy
<1>4. Is(r, s) /\ UNCHANGED <<now, quota, reserved, spentQuota, peak>>
  BY DEF Publish, history, n
<1> HIDE DEF s
<1>5. now \in Nat /\ MaxLag \in Nat
  BY <1>1, MinuteNumbers
<1>6. Timely(s, now)
  BY <1>1, <1>3, <1>5 DEF Timely
<1>7. s.pc # "granted" /\ (s.tokens = 0 \/ (s.window = o.window /\ s.tokens = o.tokens))
  BY <1>2, <1>3
<1> QED
  BY <1>1, <1>3, <1>4, <1>6, <1>7, TokensRolled, LocalStep DEF QuotaKept

LEMMA TickKeeps ==
  ASSUME QuotaTables, TimeInv, RowInv, TokenInv, NEW r \in Replicas, TickerFires(r)
  PROVE  QuotaKept
<1> DEFINE o == quotaPool[r]
           s == [o EXCEPT !.tick = now]
<1>1. o \in Replica /\ now \in Minutes /\ Timely(o, now)
  BY DEF QuotaTables, TimeInv
<1>2. /\ s \in Replica /\ s.window = o.window /\ s.tokens = o.tokens /\ s.pc = o.pc
      /\ s.target = o.target /\ s.tick = now /\ s.grant = o.grant /\ s.read = o.read
  BY <1>1 DEF Replica
<1>3. Is(r, s) /\ UNCHANGED <<now, quota, reserved, spentQuota, peak>>
  BY DEF TickerFires, history
<1> HIDE DEF s
<1>4. now \in Nat /\ MaxLag \in Nat
  BY <1>1, MinuteNumbers
<1>5. Timely(s, now)
  BY <1>1, <1>2, <1>4 DEF Timely
<1>6. ASSUME NEW m \in Minutes PROVE TokensOf(s, m) <= TokensOf(o, m)
  <2>1. TokensOf(s, m) = TokensOf(o, m) /\ TokensOf(o, m) \in Nat
    BY <1>1, <1>2, TokensType DEF TokensOf
  <2> QED
    BY <2>1
<1> QED
  BY <1>2, <1>3, <1>5, <1>6, LocalStep DEF QuotaKept

LEMMA TakeKeeps ==
  ASSUME QuotaTables, TimeInv, RowInv, TokenInv, NEW r \in Replicas, TakeTick(r)
  PROVE  QuotaKept
<1> DEFINE o == quotaPool[r]
           s == [o EXCEPT !.pc = "refilling", !.target = o.tick, !.tick = NoLimit]
<1>1. o \in Replica /\ Timely(o, now) /\ o.tick # NoLimit
  BY DEF QuotaTables, TimeInv, TakeTick
<1>2. o.tick \in Minutes
  BY <1>1, ReplicaFields
<1>3. /\ s \in Replica /\ s.window = o.window /\ s.tokens = o.tokens /\ s.pc = "refilling"
      /\ s.target = o.tick /\ s.tick = NoLimit
  BY <1>1, <1>2 DEF Replica
<1>4. Is(r, s) /\ UNCHANGED <<now, quota, reserved, spentQuota, peak>>
  BY DEF TakeTick, history
<1> HIDE DEF s
<1>5. Timely(s, now)
  BY <1>1, <1>3 DEF Timely
<1> QED
  BY <1>1, <1>3, <1>4, <1>5, TokensKept, LocalStep DEF QuotaKept

LEMMA RefillKeeps ==
  ASSUME QuotaTables, TimeInv, RowInv, TokenInv, NEW r \in Replicas, Refill(r)
  PROVE  QuotaKept
<1> DEFINE o == quotaPool[r]
           n == Kept(o, o.target, o.limit)
           rolled == [o EXCEPT !.window = o.target, !.tokens = n]
<1>1. /\ o \in Replica /\ Timely(o, now) /\ o.pc = "refilling"
      /\ o.target \in Minutes /\ o.tokens \in Nat /\ o.limit \in QuotaPolicy
  BY ReplicaFields DEF QuotaTables, TimeInv, Refill, At
<1>2. n \in Nat /\ (n = 0 \/ (n = o.tokens /\ o.window = o.target))
  BY <1>1 DEF Kept
<1>3. UNCHANGED <<now, quota, reserved, spentQuota, peak>>
  BY DEF Refill, history
<1>4. PICK s : /\ Is(r, s)
               /\ \/ /\ o.limit \notin {NoLimit, 0}
                     /\ s = [rolled EXCEPT !.pc = "reserving", !.read = o.limit]
                  \/ s = Rests(rolled)
  BY DEF Refill
<1> HIDE DEF n
<1>5. /\ rolled \in Replica /\ rolled.window = o.target /\ rolled.tokens = n
      /\ rolled.tick = o.tick /\ rolled.target = o.target
  BY <1>1, <1>2 DEF Replica
<1> HIDE DEF rolled
<1>6. CASE o.limit \notin {NoLimit, 0} /\ s = [rolled EXCEPT !.pc = "reserving", !.read = o.limit]
  <2>1. /\ s \in Replica /\ s.window = o.target /\ s.tokens = n /\ s.pc = "reserving"
        /\ s.target = o.target /\ s.tick = o.tick /\ s.read = o.limit
    BY <1>1, <1>5, <1>6 DEF Replica
  <2>2. s.read \in QuotaLimits
    BY <1>1, <1>6, <2>1 DEF QuotaPolicy
  <2>3. Timely(s, now)
    BY <1>1, <2>1, <2>2 DEF Timely
  <2>4. s.pc # "granted" /\ (s.tokens = 0 \/ (s.window = o.window /\ s.tokens = o.tokens))
    BY <1>2, <2>1
  <2> QED
    BY <1>1, <1>3, <1>4, <2>1, <2>3, <2>4, TokensRolled, LocalStep DEF QuotaKept
<1>7. CASE s = Rests(rolled)
  <2>1. 0 \in Minutes
    BY QuotaConstants DEF Minutes
  <2>2. /\ s \in Replica /\ s.window = o.target /\ s.tokens = n /\ s.pc = "idle"
        /\ s.target = 0 /\ s.tick = o.tick
    BY <1>5, <1>7, <2>1 DEF Rests, Replica, QuotaPolicy
  <2>3. now \in Nat
    BY MinuteNumbers DEF QuotaTables
  <2>4. Timely(s, now)
    BY <1>1, <2>2, <2>3 DEF Timely
  <2>5. s.pc # "granted" /\ (s.tokens = 0 \/ (s.window = o.window /\ s.tokens = o.tokens))
    BY <1>2, <2>2
  <2> QED
    BY <1>1, <1>3, <1>4, <2>2, <2>4, <2>5, TokensRolled, LocalStep DEF QuotaKept
<1> QED
  BY <1>4, <1>6, <1>7

LEMMA CreditKeeps ==
  ASSUME QuotaTables, TimeInv, RowInv, TokenInv, NEW r \in Replicas, Credit(r)
  PROVE  QuotaKept
<1> DEFINE o == quotaPool[r]
           hit == o.window = o.target /\ o.limit = o.read
           n == IF hit THEN o.tokens + o.grant ELSE o.tokens
           s == [Rests(o) EXCEPT !.tokens = n]
<1>1. /\ o \in Replica /\ Timely(o, now) /\ o.pc = "granted"
      /\ o.tokens \in Nat /\ o.grant \in Nat
  BY ReplicaFields DEF QuotaTables, TimeInv, Credit, At
<1>2. 0 \in Minutes /\ now \in Nat
  BY QuotaConstants, MinuteNumbers DEF Minutes, QuotaTables
<1>3. n \in Nat /\ (n = o.tokens \/ (n = o.tokens + o.grant /\ o.window = o.target))
  BY <1>1
<1>4. Rests(o) \in Replica /\ Rests(o).tokens = o.tokens
  BY <1>1, <1>2 DEF Rests, Replica, QuotaPolicy
<1>5. Is(r, s) /\ UNCHANGED <<now, quota, reserved, spentQuota, peak>>
  <2>1. Is(r, [Rests(o) EXCEPT !.tokens = IF hit THEN @ + o.grant ELSE @])
    BY DEF Credit
  <2>2. [Rests(o) EXCEPT !.tokens = IF hit THEN @ + o.grant ELSE @] = s
    BY <1>4
  <2> QED
    BY <2>1, <2>2 DEF Credit, history
<1> HIDE DEF n
<1>6. /\ s \in Replica /\ s.window = o.window /\ s.tokens = n /\ s.pc = "idle"
      /\ s.target = 0 /\ s.tick = o.tick
  BY <1>1, <1>2, <1>3 DEF Rests, Replica, QuotaPolicy
<1> HIDE DEF s
<1>7. Timely(s, now)
  BY <1>1, <1>2, <1>6 DEF Timely
<1>8. ASSUME NEW m \in Minutes PROVE TokensOf(s, m) <= TokensOf(o, m)
  BY <1>1, <1>3, <1>6 DEF TokensOf
<1> QED
  BY <1>5, <1>6, <1>7, <1>8, LocalStep DEF QuotaKept

LEMMA CrashKeeps ==
  ASSUME QuotaTables, TimeInv, RowInv, TokenInv, NEW r \in Replicas, ReplicaCrashes(r)
  PROVE  QuotaKept
<1>1. quotaPool[r] \in Replica /\ 0 \in Minutes /\ now \in Nat
  BY QuotaConstants, MinuteNumbers DEF QuotaTables, Minutes
<1>2. Fresh \in Replica /\ Timely(Fresh, now)
  BY <1>1 DEF Fresh, Replica, QuotaPolicy, Timely
<1>3. ASSUME NEW m \in Minutes PROVE TokensOf(Fresh, m) <= TokensOf(quotaPool[r], m)
  <2>1. TokensOf(Fresh, m) = 0
    BY DEF TokensOf, Fresh
  <2>2. TokensOf(quotaPool[r], m) \in Nat
    BY <1>1, TokensType
  <2> QED
    BY <2>1, <2>2
<1>4. Is(r, Fresh) /\ UNCHANGED <<now, quota, reserved, spentQuota, peak>>
  BY DEF ReplicaCrashes, history
<1> QED
  BY <1>2, <1>3, <1>4, LocalStep DEF QuotaKept

-----------------------------------------------------------------------------
\* What ReserveRequestQuota grants is within the limit in force.
LEMMA GrantType ==
  ASSUME NEW limit \in QuotaLimits, NEW m \in Minutes, QuotaTables, quota # NoLimit
  PROVE  LET granted == Smaller(LeaseSize(limit), Remaining(m)) IN
         granted \in Nat /\ (granted = 0 \/ reserved[m] + granted <= LimitOf(quota))
<1> DEFINE a == LeaseSize(limit)
           b == Remaining(m)
<1>1. limit \in Nat /\ quota \in Nat /\ reserved[m] \in Nat /\ LimitOf(quota) = quota
      /\ Fraction \in Nat \ {0} /\ MaxLease \in Nat \ {0}
  BY QuotaConstants DEF QuotaTables, QuotaPolicy, LimitOf
<1>2. limit \div Fraction \in Int
  BY <1>1
<1>3. a \in Nat
  <2> DEFINE d == limit \div Fraction
  <2>1. a = Smaller(Larger(d, 1), MaxLease) /\ d \in Int
    BY <1>2 DEF LeaseSize
  <2> HIDE DEF d
  <2> QED
    BY <1>1, <2>1 DEF Smaller, Larger
<1>4. b \in Nat /\ (b = 0 \/ b = quota - reserved[m])
  BY <1>1 DEF Remaining, Larger
<1> HIDE DEF a, b
<1>5. Smaller(a, b) \in Nat /\ Smaller(a, b) <= b
  BY <1>3, <1>4 DEF Smaller
<1>6. Smaller(a, b) = 0 \/ reserved[m] + Smaller(a, b) <= LimitOf(quota)
  BY <1>1, <1>4, <1>5
<1> QED
  BY <1>5, <1>6 DEF a, b

\* A reservation commits: the row grows by the grant, which the replica may or
\* may not come to hold, and only rows that no refill can need are deleted.
LEMMA ReserveStep ==
  ASSUME MaxLag <= 2, QuotaTables, TimeInv, RowInv, TokenInv,
         NEW r \in Replicas, NEW s \in Replica, NEW granted \in Nat,
         quotaPool[r].pc = "reserving",
         granted = 0 \/ reserved[quotaPool[r].target] + granted <= LimitOf(quota),
         reserved' = ReservedAfter(quotaPool[r].target, granted),
         Is(r, s), Timely(s, now),
         \A m \in Minutes : TokensOf(s, m)
           <= TokensOf(quotaPool[r], m) + (IF m = quotaPool[r].target THEN granted ELSE 0),
         UNCHANGED <<now, quota, spentQuota, peak>>
  PROVE  QuotaKept
<1> DEFINE o == quotaPool[r]
           t == o.target
<1>1. quotaPool' = [quotaPool EXCEPT ![r] = s] /\ o \in Replica /\ Timely(o, now)
  BY DEF Is, QuotaTables, TimeInv
<1>2. t \in Minutes /\ now \in Minutes /\ now \in Nat /\ t \in Nat /\ MaxLag \in Nat
  BY <1>1, ReplicaFields, MinuteNumbers DEF QuotaTables
<1>3. t <= now /\ t >= now - 2
  BY <1>1, <1>2 DEF Timely
<1>4. \A m \in Minutes : m \in Nat /\ reserved[m] \in Nat /\ spentQuota[m] \in Nat /\ peak[m] \in Nat
  BY MinuteNumbers DEF QuotaTables
<1>5. LimitOf(quota) \in Nat /\ \A m \in Minutes : LimitOf(quota) <= peak[m]
  BY MinuteNumbers DEF RowInv, QuotaTables, QuotaPolicy, LimitOf
<1>6. \A m \in Minutes :
        reserved'[m] = IF m < t - 2 THEN 0 ELSE IF m = t THEN reserved[t] + granted ELSE reserved[m]
  BY DEF ReservedAfter
<1>7. reserved' \in [Minutes -> Nat]
  <2>1. \A m \in Minutes :
          (IF m < t - 2 THEN 0 ELSE IF m = t THEN reserved[t] + granted ELSE reserved[m]) \in Nat
    BY <1>2, <1>4
  <2> QED
    BY <2>1 DEF ReservedAfter
<1> HIDE DEF t, o
<1>8. QuotaTables'
  BY <1>1, <1>7 DEF QuotaTables
<1>9. TimeInv'
  BY <1>1 DEF TimeInv, QuotaTables, Timely
<1>10. granted = 0 \/ reserved[t] + granted <= LimitOf(quota)
  BY DEF t, o
<1>11. ASSUME NEW m \in Minutes
       PROVE  /\ LimitOf(quota)' <= peak'[m] /\ reserved'[m] <= peak'[m]
              /\ m > now' => reserved'[m] = 0
  <2>1. reserved[m] <= peak[m] /\ (m > now => reserved[m] = 0) /\ LimitOf(quota)' <= peak'[m]
    BY <1>5 DEF RowInv, LimitOf
  <2>2. CASE m = t
    BY <1>2, <1>3, <1>4, <1>5, <1>6, <1>10, <2>1, <2>2
  <2>3. CASE m # t
    <3>1. reserved'[m] = 0 \/ reserved'[m] = reserved[m]
      BY <1>6, <2>3
    <3>2. now' = now /\ peak' = peak
      OBVIOUS
    <3>3. peak[m] \in Nat /\ 0 <= peak[m]
      BY <1>4
    <3>4. reserved'[m] <= peak[m] /\ (m > now => reserved'[m] = 0)
      BY <2>1, <3>1, <3>3
    <3> QED
      BY <2>1, <3>2, <3>4
  <2> QED
    BY <2>2, <2>3
<1>12. RowInv'
  BY <1>11 DEF RowInv
<1>13. ASSUME NEW m \in Minutes
       PROVE  /\ m >= now' - 2 => spentQuota'[m] + Total(Outstanding(m)', Replicas) <= reserved'[m]
              /\ spentQuota'[m] + Total(Outstanding(m)', Replicas) <= peak'[m]
  <2> DEFINE a == Total(Outstanding(m), Replicas)
             b == Total(Outstanding(m)', Replicas)
             x == TokensOf(quotaPool[r], m)
             y == TokensOf(s, m)
  <2>1. b = a - x + y /\ a \in Nat /\ x \in Nat /\ y \in Nat
    BY <1>1, TokensMove
  <2>2. y <= x + (IF m = t THEN granted ELSE 0)
    BY DEF t, o
  <2>3. (m >= now - 2 => spentQuota[m] + a <= reserved[m]) /\ spentQuota[m] + a <= peak[m]
    BY DEF TokenInv
  <2> HIDE DEF a, b, x, y
  <2>4. CASE m = t
    <3>1. reserved'[m] = reserved[m] + granted /\ reserved'[m] <= peak[m]
      BY <1>2, <1>6, <1>11, <2>4
    <3>2. spentQuota[m] + a <= reserved[m]
      BY <1>3, <2>3, <2>4
    <3>3. b <= a + granted /\ b \in Int
      BY <2>1, <2>2, <2>4
    <3>4. spentQuota[m] + b <= reserved'[m]
      BY <1>4, <2>1, <3>1, <3>2, <3>3
    <3>5. spentQuota[m] + b <= peak[m]
      BY <1>4, <1>7, <3>1, <3>3, <3>4
    <3> QED
      BY <3>4, <3>5 DEF b
  <2>5. CASE m # t
    <3>1. b <= a /\ b \in Int
      BY <2>1, <2>2, <2>5
    <3>2. m >= now - 2 => reserved'[m] = reserved[m]
      BY <1>2, <1>3, <1>4, <1>6, <2>5
    <3>3. (m >= now - 2 => spentQuota[m] + b <= reserved'[m]) /\ spentQuota[m] + b <= peak[m]
      BY <1>4, <2>1, <2>3, <3>1, <3>2
    <3> QED
      BY <3>3 DEF b
  <2> QED
    BY <2>4, <2>5
<1>14. TokenInv'
  BY <1>13 DEF TokenInv
<1> QED
  BY <1>8, <1>9, <1>12, <1>14 DEF QuotaKept

LEMMA ReserveKeeps ==
  ASSUME MaxLag <= 2, QuotaTables, TimeInv, RowInv, TokenInv, NEW r \in Replicas,
         ReserveQuota(r) \/ ReserveAnswerLost(r)
  PROVE  QuotaKept
<1> DEFINE o == quotaPool[r]
           granted == Smaller(LeaseSize(o.read), Remaining(o.target))
<1>1. o \in Replica /\ Timely(o, now) /\ o.pc = "reserving" /\ quota # NoLimit
  BY DEF QuotaTables, TimeInv, ReserveQuota, ReserveAnswerLost, At
<1>2. o.read \in QuotaLimits /\ o.target \in Minutes /\ o.tokens \in Nat /\ o.grant \in Nat
  BY <1>1, ReplicaFields DEF Timely
<1>3. granted \in Nat /\ (granted = 0 \/ reserved[o.target] + granted <= LimitOf(quota))
  BY <1>1, <1>2, GrantType
<1>4. reserved' = ReservedAfter(o.target, granted) /\ UNCHANGED <<now, quota, spentQuota, peak>>
  BY DEF ReserveQuota, ReserveAnswerLost, history
<1> DEFINE given == [o EXCEPT !.pc = "granted", !.grant = granted]
<1>5. Is(r, given) \/ Is(r, Rests(o))
  BY DEF ReserveQuota, ReserveAnswerLost
<1> HIDE DEF granted
<1>6. CASE Is(r, given)
  <2>1. /\ given \in Replica /\ given.window = o.window /\ given.tokens = o.tokens
        /\ given.pc = "granted" /\ given.grant = granted /\ given.target = o.target
        /\ given.tick = o.tick
    BY <1>1, <1>3 DEF Replica
  <2> HIDE DEF given
  <2>2. Timely(given, now)
    BY <1>1, <2>1 DEF Timely
  <2>3. \A m \in Minutes :
          TokensOf(given, m) <= TokensOf(o, m) + (IF m = o.target THEN granted ELSE 0)
    BY <1>1, <1>2, <1>3, <2>1 DEF TokensOf
  <2> QED
    BY <1>1, <1>3, <1>4, <1>6, <2>1, <2>2, <2>3, ReserveStep
<1>7. CASE Is(r, Rests(o))
  <2>1. 0 \in Minutes /\ now \in Nat
    BY QuotaConstants, MinuteNumbers DEF Minutes, QuotaTables
  <2>2. /\ Rests(o) \in Replica /\ Rests(o).window = o.window /\ Rests(o).tokens = o.tokens
        /\ Rests(o).pc = "idle" /\ Rests(o).target = 0 /\ Rests(o).tick = o.tick
    BY <1>1, <2>1 DEF Rests, Replica, QuotaPolicy
  <2>3. Timely(Rests(o), now)
    BY <1>1, <2>1, <2>2 DEF Timely
  <2>4. \A m \in Minutes :
          TokensOf(Rests(o), m) <= TokensOf(o, m) + (IF m = o.target THEN granted ELSE 0)
    BY <1>1, <1>2, <1>3, <2>2 DEF TokensOf
  <2> QED
    BY <1>1, <1>3, <1>4, <1>7, <2>2, <2>3, <2>4, ReserveStep
<1> QED
  BY <1>5, <1>6, <1>7

\* A request spends a token of the replica's minute.
LEMMA AuthorizeKeeps ==
  ASSUME QuotaTables, TimeInv, RowInv, TokenInv, NEW r \in Replicas, AuthorizeRequest(r)
  PROVE  QuotaKept
<1> DEFINE o == quotaPool[r]
           w == o.window
           i == o.tokens - 1
           s == [o EXCEPT !.tokens = i]
<1>1. /\ o \in Replica /\ Timely(o, now) /\ w \in Minutes /\ o.tokens \in Nat /\ o.grant \in Nat
      /\ o.tokens >= 1
  BY ReplicaFields DEF QuotaTables, TimeInv, AuthorizeRequest
<1>2. /\ quotaPool' = [quotaPool EXCEPT ![r] = s]
      /\ spentQuota' = [spentQuota EXCEPT ![w] = @ + 1]
      /\ UNCHANGED <<now, quota, reserved, peak>>
  BY DEF AuthorizeRequest, Is
<1>3. i \in Nat
  BY <1>1
<1> HIDE DEF i
<1>4. /\ s \in Replica /\ s.window = w /\ s.tokens = i /\ s.pc = o.pc /\ s.target = o.target
      /\ s.tick = o.tick /\ s.read = o.read /\ s.grant = o.grant
  BY <1>1, <1>3 DEF Replica
<1> HIDE DEF s
<1>5. Timely(s, now)
  BY <1>1, <1>4 DEF Timely
<1>6. \A m \in Minutes : spentQuota[m] \in Nat /\ reserved[m] \in Nat /\ peak[m] \in Nat
  BY DEF QuotaTables
<1>7. QuotaTables' /\ RowInv'
  BY <1>1, <1>2, <1>4 DEF QuotaTables, RowInv
<1>8. TimeInv'
  BY <1>2, <1>5 DEF TimeInv, QuotaTables, Timely
<1>9. ASSUME NEW m \in Minutes
      PROVE  /\ m >= now' - 2 => spentQuota'[m] + Total(Outstanding(m)', Replicas) <= reserved'[m]
             /\ spentQuota'[m] + Total(Outstanding(m)', Replicas) <= peak'[m]
  <2> DEFINE a == Total(Outstanding(m), Replicas)
             b == Total(Outstanding(m)', Replicas)
             x == TokensOf(o, m)
             y == TokensOf(s, m)
             n == spentQuota[m]
  <2>1. b = a - x + y /\ a \in Nat /\ x \in Nat /\ y \in Nat
    BY <1>2, <1>4, TokensMove
  <2>2. y = IF m = w THEN x - 1 ELSE x
    BY <1>1, <1>4 DEF TokensOf, i
  <2>3. spentQuota'[m] = IF m = w THEN n + 1 ELSE n
    BY <1>1, <1>2 DEF QuotaTables
  <2>4. n \in Nat /\ (m >= now - 2 => n + a <= reserved[m]) /\ n + a <= peak[m]
    BY <1>6 DEF TokenInv
  <2> HIDE DEF a, b, x, y, n
  <2>5. spentQuota'[m] + b = n + a
    BY <2>1, <2>2, <2>3, <2>4
  <2>6. (m >= now - 2 => spentQuota'[m] + b <= reserved[m]) /\ spentQuota'[m] + b <= peak[m]
    BY <2>4, <2>5
  <2> QED
    BY <1>2, <2>6 DEF b
<1>10. TokenInv'
  BY <1>9 DEF TokenInv
<1> QED
  BY <1>7, <1>8, <1>10 DEF QuotaKept

\* The minute ends; refills in progress are still in time.
LEMMA MinuteKeeps ==
  ASSUME QuotaTables, TimeInv, RowInv, TokenInv, MinutePasses
  PROVE  QuotaKept
<1>1. /\ now < MaxMinute /\ now' = now + 1
      /\ UNCHANGED <<quota, reserved, quotaPool, spentQuota, peak>>
  BY DEF MinutePasses
<1>2. now \in Nat /\ now' \in Minutes /\ MaxLag \in Nat
  BY <1>1, QuotaConstants DEF QuotaTables, Minutes
<1>3. QuotaTables'
  BY <1>1, <1>2 DEF QuotaTables
<1>4. ASSUME NEW r \in Replicas PROVE Timely(quotaPool'[r], now')
  <2> DEFINE o == quotaPool[r]
  <2>1. o \in Replica /\ Timely(o, now)
    BY DEF QuotaTables, TimeInv
  <2>2. /\ o.window \in Nat /\ o.target \in Nat /\ (o.tick # NoLimit => o.tick \in Nat)
    BY <2>1, ReplicaFields, MinuteNumbers
  <2>3. /\ o.pc \in {"refilling", "reserving"} => o.target + MaxLag > now
        /\ o.tick # NoLimit => o.tick + MaxLag > now
    BY DEF MinutePasses
  <2> HIDE DEF o
  <2>4. o.window <= now + 1 /\ o.target <= now + 1
    BY <1>2, <2>1, <2>2 DEF Timely
  <2>5. o.tick # NoLimit => o.tick <= now + 1 /\ o.tick >= now + 1 - MaxLag
    BY <1>2, <2>1, <2>2, <2>3 DEF Timely
  <2>6. o.pc \in {"refilling", "reserving"} => o.target >= now + 1 - MaxLag
    BY <1>2, <2>2, <2>3
  <2>7. o.pc = "reserving" => o.read \in QuotaLimits
    BY <2>1 DEF Timely
  <2>8. Timely(o, now + 1)
    BY <1>2, <2>2, <2>4, <2>5, <2>6, <2>7 DEF Timely
  <2> QED
    BY <1>1, <2>8, Zenon DEF o
<1>5. TimeInv'
  BY <1>4 DEF TimeInv, Timely
<1>6. RowInv'
  BY <1>1, <1>2, MinuteNumbers DEF RowInv, LimitOf
<1>7. \A m : Outstanding(m)' = Outstanding(m)
  BY <1>1 DEF Outstanding, TokensOf
<1>8. ASSUME NEW m \in Minutes
      PROVE  /\ m >= now' - 2 => spentQuota'[m] + Total(Outstanding(m)', Replicas) <= reserved'[m]
             /\ spentQuota'[m] + Total(Outstanding(m)', Replicas) <= peak'[m]
  <2> DEFINE a == Total(Outstanding(m), Replicas)
  <2>1. (m >= now - 2 => spentQuota[m] + a <= reserved[m]) /\ spentQuota[m] + a <= peak[m]
    BY DEF TokenInv
  <2>2. m >= now' - 2 => m >= now - 2
    BY <1>1, <1>2, MinuteNumbers
  <2>3. Total(Outstanding(m)', Replicas) = a
    BY <1>7
  <2> HIDE DEF a
  <2> QED
    BY <1>1, <2>1, <2>2, <2>3
<1>9. TokenInv'
  BY <1>8 DEF TokenInv
<1> QED
  BY <1>3, <1>5, <1>6, <1>9 DEF QuotaKept

\* An operator changes the limit; no token of a minute to come is out.
LEMMA LimitKeeps ==
  ASSUME QuotaTables, TimeInv, RowInv, TokenInv, SetTenantQuota
  PROVE  QuotaKept
<1>1. PICK l \in QuotaLimits :
        /\ quota' = l
        /\ peak' = [m \in Minutes |-> IF m <= now THEN Larger(peak[m], l) ELSE l]
  BY DEF SetTenantQuota
<1>2. l \in Nat /\ UNCHANGED <<now, reserved, quotaPool, spentQuota>>
  BY MinuteNumbers DEF SetTenantQuota
<1>3. l # NoLimit
  BY <1>1, MinuteNumbers
<1>4. \A m \in Minutes : m \in Nat /\ reserved[m] \in Nat /\ spentQuota[m] \in Nat /\ peak[m] \in Nat
  BY MinuteNumbers DEF QuotaTables
<1>5. now \in Nat
  BY MinuteNumbers DEF QuotaTables
<1>6. \A m \in Minutes : /\ peak'[m] \in Nat /\ l <= peak'[m]
                         /\ m <= now => peak[m] <= peak'[m]
  BY <1>1, <1>2, <1>4, <1>5 DEF Larger
<1>7. QuotaTables'
  <2>1. peak' \in [Minutes -> Nat]
    BY <1>1, <1>6
  <2> QED
    BY <1>1, <1>2, <2>1 DEF QuotaTables, QuotaPolicy
<1>8. TimeInv'
  BY <1>2 DEF TimeInv, Timely
<1>9. LimitOf(quota)' = l
  BY <1>1, <1>3 DEF LimitOf
<1>10. RowInv'
  <2>1. \A m \in Minutes : reserved[m] <= peak[m] /\ (m > now => reserved[m] = 0)
    BY DEF RowInv
  <2>2. \A m \in Minutes : reserved[m] <= peak'[m]
    BY <1>4, <1>5, <1>6, <2>1
  <2> QED
    BY <1>2, <1>6, <1>9, <2>1, <2>2 DEF RowInv
<1>11. \A m : Outstanding(m)' = Outstanding(m)
  BY <1>2 DEF Outstanding, TokensOf
<1>12. ASSUME NEW m \in Minutes
       PROVE  /\ m >= now' - 2 => spentQuota'[m] + Total(Outstanding(m)', Replicas) <= reserved'[m]
              /\ spentQuota'[m] + Total(Outstanding(m)', Replicas) <= peak'[m]
  <2> DEFINE a == Total(Outstanding(m), Replicas)
  <2>1. (m >= now - 2 => spentQuota[m] + a <= reserved[m]) /\ spentQuota[m] + a <= peak[m]
    BY DEF TokenInv
  <2>2. Total(Outstanding(m)', Replicas) = a
    BY <1>11
  <2>3. a \in Nat
    <3>1. \A x \in Replicas : quotaPool[x] \in Replica
      BY DEF QuotaTables
    <3>2. \A x \in Replicas : Outstanding(m)[x] \in Nat
      BY <3>1, TokensType DEF Outstanding
    <3> QED
      BY <3>2, QuotaConstants, TotalType
  <2> HIDE DEF a
  <2>4. spentQuota[m] + a <= peak'[m]
    <3>1. CASE m <= now
      BY <1>4, <1>6, <2>1, <2>3, <3>1
    <3>2. CASE m > now
      <4>1. m >= now - 2 /\ reserved[m] = 0
        BY <1>4, <1>5, <3>2 DEF RowInv
      <4> QED
        BY <1>4, <1>6, <2>1, <2>3, <4>1
    <3> QED
      BY <1>4, <1>5, <3>1, <3>2
  <2> QED
    BY <1>2, <2>1, <2>2, <2>4
<1>13. TokenInv'
  BY <1>12 DEF TokenInv
<1> QED
  BY <1>7, <1>8, <1>10, <1>13 DEF QuotaKept

-----------------------------------------------------------------------------
LEMMA QuotaCountersStep ==
  ASSUME QuotaCounters, [QuotaNext]_quotaVars PROVE QuotaCounters'
<1>1. MaxChanges \in Nat /\ MaxQuotaFaults \in Nat
  BY QuotaConstants
<1>2. /\ changes' = changes \/ (changes < MaxChanges /\ changes' = changes + 1)
      /\ quotaFaults' = quotaFaults \/ (quotaFaults < MaxQuotaFaults /\ quotaFaults' = quotaFaults + 1)
  <2>1. CASE SetTenantQuota \/ MinutePasses \/ UNCHANGED quotaVars
    BY <2>1 DEF SetTenantQuota, MinutePasses, quotaVars
  <2>2. ASSUME NEW r \in Replicas,
               \/ LoadPolicies(r) \/ Publish(r) \/ TickerFires(r) \/ TakeTick(r) \/ Refill(r)
               \/ ReserveQuota(r) \/ Credit(r) \/ AuthorizeRequest(r)
        PROVE  UNCHANGED <<changes, quotaFaults>>
    BY <2>2 DEF LoadPolicies, Publish, TickerFires, TakeTick, Refill, ReserveQuota, Credit,
                AuthorizeRequest
  <2>3. ASSUME NEW r \in Replicas, ReserveAnswerLost(r) \/ ReplicaCrashes(r)
        PROVE  changes' = changes /\ quotaFaults < MaxQuotaFaults /\ quotaFaults' = quotaFaults + 1
    BY <2>3 DEF ReserveAnswerLost, ReplicaCrashes, QuotaFault
  <2> QED
    BY <2>1, <2>2, <2>3 DEF QuotaNext
<1> QED
  BY <1>1, <1>2 DEF QuotaCounters

\* Every step keeps the rows, the times and the tokens.
LEMMA QuotaStep ==
  ASSUME MaxLag <= 2, QuotaTables, TimeInv, RowInv, TokenInv, [QuotaNext]_quotaVars
  PROVE  QuotaKept
<1>1. ASSUME NEW r \in Replicas,
             \/ LoadPolicies(r) \/ Publish(r) \/ TickerFires(r) \/ TakeTick(r)
             \/ Refill(r) \/ ReserveQuota(r) \/ ReserveAnswerLost(r) \/ Credit(r)
             \/ AuthorizeRequest(r) \/ ReplicaCrashes(r)
      PROVE  QuotaKept
  BY <1>1, LoadKeeps, PublishKeeps, TickKeeps, TakeKeeps, RefillKeeps, ReserveKeeps, CreditKeeps,
     AuthorizeKeeps, CrashKeeps
<1>2. CASE UNCHANGED quotaVars
  <2>1. UNCHANGED <<now, quota, reserved, quotaPool, spentQuota, peak>>
    BY <1>2 DEF quotaVars, history
  <2>2. QuotaTables' /\ TimeInv' /\ RowInv'
    BY <2>1 DEF QuotaTables, TimeInv, Timely, RowInv, LimitOf
  <2>3. \A m : Outstanding(m)' = Outstanding(m)
    BY <2>1 DEF Outstanding, TokensOf
  <2>4. TokenInv'
    BY <2>1, <2>3 DEF TokenInv
  <2> QED
    BY <2>2, <2>4 DEF QuotaKept
<1> QED
  BY <1>1, <1>2, MinuteKeeps, LimitKeeps DEF QuotaNext

LEMMA QuotaInvStep ==
  ASSUME MaxLag <= 2, QuotaInv, [QuotaNext]_quotaVars PROVE QuotaInv'
  BY SplitQuota, SplitQuotaNext, QuotaStep, QuotaCountersStep DEF QuotaKept

LEMMA QuotaStart == ASSUME QuotaInit PROVE QuotaInv
<1>1. 0 \in Minutes /\ MaxLag \in Nat /\ MaxChanges \in Nat /\ MaxQuotaFaults \in Nat
  BY QuotaConstants DEF Minutes
<1>2. Fresh \in Replica /\ Timely(Fresh, 0)
  BY <1>1 DEF Fresh, Replica, QuotaPolicy, Timely
<1>3. now = 0 /\ \A r \in Replicas : quotaPool[r] = Fresh
  BY DEF QuotaInit
<1>4. LimitOf(quota) \in Nat
  BY MinuteNumbers DEF QuotaInit, QuotaPolicy, LimitOf
<1>5. QuotaTables
  BY <1>1, <1>2, <1>4 DEF QuotaInit, QuotaTables
<1>6. TimeInv
  BY <1>2, <1>3 DEF TimeInv
<1>7. RowInv
  BY <1>4 DEF QuotaInit, RowInv
<1>8. ASSUME NEW m \in Minutes PROVE Total(Outstanding(m), Replicas) = 0
  <2>1. \A r \in Replicas : Outstanding(m)[r] = 0
    BY <1>3 DEF Outstanding, TokensOf, Fresh
  <2> QED
    BY <2>1, TotalZero
<1>9. TokenInv
  BY <1>4, <1>8 DEF TokenInv, QuotaInit
<1>10. QuotaCounters
  BY <1>1 DEF QuotaInit, QuotaCounters
<1> QED
  BY <1>5, <1>6, <1>7, <1>9, <1>10, SplitQuota

\* The inductive invariant holds throughout, as long as no refill is more than
\* two minutes late, which is how long ReserveRequestQuota keeps a row.
THEOREM QuotaInvariance == ASSUME MaxLag <= 2 PROVE QuotaSpec => []QuotaInv
<1>1. QuotaInit => QuotaInv
  BY QuotaStart
<1>2. QuotaInv /\ [QuotaNext]_quotaVars => QuotaInv'
  BY QuotaInvStep
<1> QED
  BY <1>1, <1>2, PTL DEF QuotaSpec

\* The rows and the replicas keep their types.
THEOREM QuotaTypes == ASSUME MaxLag <= 2 PROVE QuotaSpec => []QuotaTypeOK
<1>1. QuotaInv => QuotaTypeOK
  BY DEF QuotaInv
<1>2. QuotaSpec => []QuotaInv
  BY QuotaInvariance
<1> QED
  BY <1>1, <1>2, PTL

\* Every token of a minute was reserved for it, and any number of replicas
\* together authorize no more in a minute than the largest limit in force since
\* it began, as long as no refill is more than two minutes late.
THEOREM QuotaIsPerWindow == ASSUME MaxLag <= 2 PROVE QuotaSpec => []QuotaPerWindow
<1>1. ASSUME QuotaInv PROVE QuotaPerWindow
  <2>1. QuotaTables /\ TokenInv
    BY <1>1, SplitQuota
  <2>2. ASSUME NEW m \in Minutes
        PROVE  spentQuota[m] <= peak[m]
    <3>1. \A x \in Replicas : quotaPool[x] \in Replica
      BY <2>1 DEF QuotaTables
    <3>2. \A x \in Replicas : Outstanding(m)[x] \in Nat
      BY <3>1, TokensType DEF Outstanding
    <3>3. Total(Outstanding(m), Replicas) \in Nat
      BY <3>2, QuotaConstants, TotalType
    <3>4. spentQuota[m] \in Nat /\ peak[m] \in Nat
          /\ spentQuota[m] + Total(Outstanding(m), Replicas) <= peak[m]
      BY <2>1 DEF QuotaTables, TokenInv
    <3> QED
      BY <3>3, <3>4
  <2> QED
    BY <2>1, <2>2 DEF QuotaPerWindow, TokenInv
<1>2. QuotaSpec => []QuotaInv
  BY QuotaInvariance
<1>3. QuotaInv => QuotaPerWindow
  BY <1>1
<1> QED
  BY <1>2, <1>3, PTL
=============================================================================
