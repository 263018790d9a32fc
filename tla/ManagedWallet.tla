---------------------------- MODULE ManagedWallet ---------------------------
(***************************************************************************)
(* The prepaid wallet of the managed service: store/managed_billing.go,    *)
(* store/sandbox_billing.go, and the deployment holds of                   *)
(* store/cloud_lifecycle.go, store/apply.go and store/operations.go.       *)
(*                                                                         *)
(* Every operation below is one database transaction that locks the rows   *)
(* it reads (SELECT ... FOR UPDATE, advisory locks), so an operation is    *)
(* one action.  What interleaves is the order of the operations: webhooks  *)
(* delivered twice, late or out of order; requests that hold, settle and   *)
(* release money; refunds of money already spent or held.  A transaction   *)
(* that returns an error rolls back and leaves no trace, as does a         *)
(* transaction that meets a CHECK constraint of managed_wallets.           *)
(***************************************************************************)
EXTENDS WalletArithmetic, Tally

CONSTANTS
  Tenants,
  Grants, GrantTenant, GrantAmount,         \* operator credits, by credit ID
  Sessions, SessionTenant, SessionAmount,   \* checkout sessions and their funding intents
  Events,                                   \* webhook events that may be delivered
  Holds, HoldTenant, HoldKind, HoldSize,    \* reservations, by reservation ID
  MaxCost                                   \* bound on the metered cost of a hold

EventKinds == {"credit", "refund", "other"}
Event == [id: Nat, kind: EventKinds, session: Sessions, amount: Nat]

ASSUME WalletConstants ==
  /\ IsFiniteSet(Grants) /\ IsFiniteSet(Sessions) /\ IsFiniteSet(Holds)
  /\ GrantTenant \in [Grants -> Tenants] /\ GrantAmount \in [Grants -> Nat]
  /\ SessionTenant \in [Sessions -> Tenants] /\ SessionAmount \in [Sessions -> Nat]
  /\ Events \subseteq Event
  /\ HoldTenant \in [Holds -> Tenants] /\ HoldSize \in [Holds -> Nat \ {0}]
  /\ HoldKind \in [Holds -> {"usage", "sandbox", "deployment"}]
  /\ MaxCost \in Nat

VARIABLES
  wallet,     \* managed_wallets
  posted,     \* the sum of each tenant's managed_wallet_ledger amounts
  ledger,     \* the unique identities in managed_wallet_ledger
  checkout,   \* status of the session's funding intent (FundingIntent)
  recorded,   \* managed_payment_events
  credited,   \* sessions with a managed_payment_credits row
  refunded,   \* its refunded_microusd
  hold        \* managed_usage_reservations and managed_spend_reservations

vars == <<wallet, posted, ledger, checkout, recorded, credited, refunded, hold>>

OpenStates == {"reserved", "pending_reconciliation"}
ClosedStates == {"settled", "released"}
Hold == [state: {"none"} \union OpenStates \union ClosedStates, activated: BOOLEAN, actual: Nat]

Init ==
  /\ wallet = [t \in Tenants |-> [balance |-> 0, reserved |-> 0, debt |-> 0]]
  /\ posted = [t \in Tenants |-> 0]
  /\ ledger = {}
  /\ checkout = [s \in Sessions |-> "pending"]
  /\ recorded = {}
  /\ credited = {}
  /\ refunded = [s \in Sessions |-> 0]
  /\ hold = [h \in Holds |-> [state |-> "none", activated |-> FALSE, actual |-> 0]]

-----------------------------------------------------------------------------
HeldWallet(w, h) == [w EXCEPT !.reserved = @ + HoldSize[h]]

\* Mutant: only the charged part of the hold is given back.
MutChargedKeepsRest(w, h, actual) ==
  [w EXCEPT !.balance = @ - actual, !.reserved = @ - actual]

ChargedWallet(w, h, actual) ==
  [w EXCEPT !.balance = @ - actual, !.reserved = @ - HoldSize[h]]

-----------------------------------------------------------------------------
\* An operator credit; a credit ID already in the ledger changes nothing.
CreditManagedWallet(g) ==
  LET t == GrantTenant[g] IN
  /\ <<"grant", g>> \notin ledger
  /\ ledger' = ledger \union {<<"grant", g>>}
  /\ posted' = [posted EXCEPT ![t] = @ + GrantAmount[g]]
  /\ wallet' = [wallet EXCEPT ![t] = ApplyManagedCredit(@, GrantAmount[g])]
  /\ UNCHANGED <<checkout, recorded, credited, refunded, hold>>

\* The session of a funding intent is recorded (FundingIntent!Complete).
CompleteManagedFundingIntent(s) ==
  /\ checkout[s] = "pending"
  /\ checkout' = [checkout EXCEPT ![s] = "completed"]
  /\ UNCHANGED <<wallet, posted, ledger, recorded, credited, refunded, hold>>

\* The event's row is inserted; a redelivery, or another payload under the same
\* event ID, ends there.
Records(e) ==
  /\ \A x \in recorded : x.id # e.id
  /\ recorded' = recorded \union {e}

\* An event that grants nothing is recorded as ignored.
IgnorePaymentEvent(e) ==
  /\ e.kind = "other"
  /\ Records(e)
  /\ UNCHANGED <<wallet, posted, ledger, checkout, credited, refunded, hold>>

\* A paid session: its intent must be completed with the same amount (an event
\* that comes earlier fails and is delivered again), and a session credited
\* before under another event ID is not credited again.
Matches(e) == checkout[e.session] = "completed" /\ e.amount = SessionAmount[e.session]

\* Mutant: one credit per event instead of one per session.
MutCreditPerEvent(e) ==
  LET t == SessionTenant[e.session] IN
  /\ e.kind = "credit"
  /\ Matches(e)
  /\ Records(e)
  /\ credited' = credited \union {e.session}
  /\ posted' = [posted EXCEPT ![t] = @ + e.amount]
  /\ wallet' = [wallet EXCEPT ![t] = ApplyManagedCredit(@, e.amount)]
  /\ UNCHANGED <<checkout, refunded, hold, ledger>>

ProcessManagedPaymentEvent(e) ==
  LET t == SessionTenant[e.session] IN
  /\ e.kind = "credit"
  /\ Matches(e)
  /\ Records(e)
  /\ \/ /\ e.session \in credited
        /\ UNCHANGED <<wallet, posted, ledger, credited>>
     \/ /\ e.session \notin credited
        /\ <<"credit", e.session>> \notin ledger
        /\ credited' = credited \union {e.session}
        /\ ledger' = ledger \union {<<"credit", e.session>>}
        /\ posted' = [posted EXCEPT ![t] = @ + e.amount]
        /\ wallet' = [wallet EXCEPT ![t] = ApplyManagedCredit(@, e.amount)]
  /\ UNCHANGED <<checkout, refunded, hold>>

\* The event carries the cumulative refund of the session's payment.
RefundLegal(e) ==
  /\ e.amount <= SessionAmount[e.session]
  /\ e.amount >= refunded[e.session]

\* A refund of a session that was never credited, beyond its amount, or behind
\* a larger total, fails and leaves no trace.
ProcessManagedRefund(e) ==
  LET t == SessionTenant[e.session]
      delta == e.amount - refunded[e.session]
      w == RefundedWallet(wallet[t], delta)
  IN
  /\ e.kind = "refund"
  /\ e.session \in credited
  /\ RefundLegal(e)
  /\ Records(e)
  /\ \/ /\ delta = 0
        /\ UNCHANGED <<wallet, posted, ledger, refunded>>
     \/ /\ delta # 0
        /\ wallet[t].balance - wallet[t].reserved >= 0
        /\ WalletCheck(w)
        /\ wallet' = [wallet EXCEPT ![t] = w]
        /\ refunded' = [refunded EXCEPT ![e.session] = e.amount]
        /\ ledger' = ledger \union {<<"refund", e.id>>}
        /\ posted' = [posted EXCEPT ![t] = @ - delta]
  /\ UNCHANGED <<checkout, credited, hold>>

-----------------------------------------------------------------------------
\* A new hold; a reservation ID that exists is answered from its row, and a
\* released one is refused.
Reserve(h) ==
  LET t == HoldTenant[h] IN
  /\ hold[h].state = "none"
  /\ Spendable(wallet[t]) >= HoldSize[h]
  /\ WalletCheck(HeldWallet(wallet[t], h))
  /\ wallet' = [wallet EXCEPT ![t] = HeldWallet(@, h)]
  /\ hold' = [hold EXCEPT ![h] = [@ EXCEPT !.state = "reserved"]]
  /\ UNCHANGED <<posted, ledger, checkout, recorded, credited, refunded>>

AuthorizeManagedUsage(h) == HoldKind[h] = "usage" /\ Reserve(h)

\* The capacity quotas may refuse a sandbox that the wallet could pay for.
ReserveManagedSandboxSpend(h) == HoldKind[h] = "sandbox" /\ Reserve(h)

ReserveManagedDeployment(h) == HoldKind[h] = "deployment" /\ Reserve(h)

Activate(h) ==
  /\ hold[h].state = "reserved"
  /\ ~hold[h].activated
  /\ hold' = [hold EXCEPT ![h] = [@ EXCEPT !.activated = TRUE]]
  /\ UNCHANGED <<wallet, posted, ledger, checkout, recorded, credited, refunded>>

ActivateManagedSandboxSpend(h) == HoldKind[h] = "sandbox" /\ Activate(h)

\* ApplyDeployment starts the metered runtime of a deployment.
ActivateManagedDeployment(h) == HoldKind[h] = "deployment" /\ Activate(h)

MayClose(h) == hold[h].state \in OpenStates

\* The shared end of every settlement and release: charge, give the hold back,
\* write the ledger line when there is one, and pay debt from what is freed.
Close(h, actual, state, line) ==
  LET t == HoldTenant[h]
      charged == ChargedWallet(wallet[t], h, actual)
      final == ReconcileManagedDebt(charged)
      id == <<"settlement", h>>
  IN
  /\ MayClose(h)
  /\ WalletCheck(charged) /\ WalletCheck(final)
  /\ wallet' = [wallet EXCEPT ![t] = final]
  /\ hold' = [hold EXCEPT ![h] = [@ EXCEPT !.state = state, !.actual = actual]]
  /\ IF line /\ id \notin ledger
     THEN /\ ledger' = ledger \union {id}
          /\ posted' = [posted EXCEPT ![t] = @ - actual]
     ELSE UNCHANGED <<ledger, posted>>
  /\ UNCHANGED <<checkout, recorded, credited, refunded>>

\* Observed usage is charged up to the hold.
SettleManagedUsage(h, cost) ==
  /\ HoldKind[h] = "usage"
  /\ Close(h, Least(cost, HoldSize[h]), "settled", TRUE)

\* The supplier reported no usage: the hold is kept for an operator.
SettleWithoutUsage(h) ==
  /\ HoldKind[h] = "usage"
  /\ MayClose(h)
  /\ hold' = [hold EXCEPT ![h] = [@ EXCEPT !.state = "pending_reconciliation"]]
  /\ UNCHANGED <<wallet, posted, ledger, checkout, recorded, credited, refunded>>

ReleaseManagedUsage(h) ==
  /\ HoldKind[h] = "usage"
  /\ Close(h, 0, "released", FALSE)

SettleManagedSandboxSpend(h, cost) ==
  LET actual == Least(cost, HoldSize[h]) IN
  /\ HoldKind[h] = "sandbox"
  /\ Close(h, actual, "settled", actual > 0)

ReleaseManagedSandboxSpend(h) ==
  /\ HoldKind[h] = "sandbox"
  /\ Close(h, 0, "released", FALSE)

\* A deleted deployment pays for its metered runtime, or nothing when it never
\* served.
FinalizeManagedDeploymentSpend(h, cost) ==
  LET actual == IF hold[h].activated THEN Least(cost, HoldSize[h]) ELSE 0 IN
  /\ HoldKind[h] = "deployment"
  /\ Close(h, actual, IF hold[h].activated THEN "settled" ELSE "released", actual > 0)

Next ==
  \/ \E g \in Grants : CreditManagedWallet(g)
  \/ \E s \in Sessions : CompleteManagedFundingIntent(s)
  \/ \E e \in Events : \/ IgnorePaymentEvent(e)
                       \/ ProcessManagedPaymentEvent(e)
                       \/ ProcessManagedRefund(e)
  \/ \E h \in Holds : \/ AuthorizeManagedUsage(h)
                      \/ ReserveManagedSandboxSpend(h)
                      \/ ReserveManagedDeployment(h)
                      \/ ActivateManagedSandboxSpend(h)
                      \/ ActivateManagedDeployment(h)
                      \/ SettleWithoutUsage(h)
                      \/ ReleaseManagedUsage(h)
                      \/ ReleaseManagedSandboxSpend(h)
                      \/ \E cost \in 0..MaxCost : \/ SettleManagedUsage(h, cost)
                                                  \/ SettleManagedSandboxSpend(h, cost)
                                                  \/ FinalizeManagedDeploymentSpend(h, cost)

Spec == Init /\ [][Next]_vars

-----------------------------------------------------------------------------
\* The tables hold values of their types, no wallet breaks its CHECK
\* constraints, and an event ID is recorded with one payload.
TypeOK ==
  /\ wallet \in [Tenants -> Wallet]
  /\ \A t \in Tenants : WalletCheck(wallet[t])
  /\ posted \in [Tenants -> Int]
  /\ checkout \in [Sessions -> {"pending", "completed"}]
  /\ recorded \subseteq Events
  /\ \A x, y \in recorded : x.id = y.id => x = y
  /\ credited \subseteq Sessions
  /\ refunded \in [Sessions -> Nat]
  /\ hold \in [Holds -> Hold]

\* The wallet agrees with its append-only ledger: balance less debt is the sum
\* of the ledger, whatever credits, refunds, settlements and debt payments were
\* interleaved (managed_billing.go, sandbox_billing.go, operations.go).
LedgerBalances ==
  \A t \in Tenants : wallet[t].balance - wallet[t].debt = posted[t]

\* A tenant in debt has nothing to spend: the whole balance backs open holds.
\* Refunding money that was spent or held therefore suspends new managed work
\* until a credit or a closed hold has paid the debt (processManagedRefundTx,
\* reconcileManagedDebtTx, applyManagedCreditTx).
DebtFreezesSpending ==
  \A t \in Tenants : wallet[t].debt > 0 => wallet[t].balance = wallet[t].reserved

\* What the open holds of a tenant hold.
OpenSizes(t) ==
  [h \in Holds |-> IF HoldTenant[h] = t /\ hold[h].state \in OpenStates THEN HoldSize[h] ELSE 0]

\* Every reserved dollar belongs to an open hold: nothing is left reserved when
\* all holds are closed, and no open hold is unbacked.
ReservedIsOpenHolds ==
  \A t \in Tenants : wallet[t].reserved = Total(OpenSizes(t), Holds)

\* What a tenant's grants, payments and settled holds come to, one by one.
GrantsPosted(t) ==
  [g \in Grants |-> IF GrantTenant[g] = t /\ <<"grant", g>> \in ledger THEN GrantAmount[g] ELSE 0]
PaymentsKept(t) ==
  [s \in Sessions |-> IF SessionTenant[s] = t /\ s \in credited
                     THEN SessionAmount[s] - refunded[s] ELSE 0]
HoldsCharged(t) ==
  [h \in Holds |-> IF HoldTenant[h] = t /\ hold[h].state = "settled" THEN hold[h].actual ELSE 0]

\* The wallet agrees with its ledger, and the ledger says what happened: each
\* grant and each paid session once however many events announced it, less what
\* the provider refunded in total, less the actual cost of each settled hold.
LedgerExplained ==
  \A t \in Tenants :
    /\ wallet[t].balance - wallet[t].debt = posted[t]
    /\ posted[t] = Total(GrantsPosted(t), Grants) + Total(PaymentsKept(t), Sessions)
                     - Total(HoldsCharged(t), Holds)

\* A settled or released hold is never charged, released or reopened again,
\* whichever of the gateway, the reconciler and the operator comes second.
HoldsCloseOnce ==
  [][\A h \in Holds : hold[h].state \in ClosedStates => hold'[h] = hold[h]]_vars

\* A refund event delivered late never gives refunded money back.
RefundsAccumulate ==
  [][\A s \in Sessions : refunded'[s] >= refunded[s]]_vars

\* The inductive strengthening: an open hold has no settlement line yet.
IndInv ==
  /\ TypeOK
  /\ LedgerBalances
  /\ DebtFreezesSpending
  /\ \A h \in Holds : <<"settlement", h>> \in ledger => hold[h].state \in ClosedStates

\* A payment is refunded after it was credited, and at most as much.
RefundsBounded ==
  \A s \in Sessions : refunded[s] <= SessionAmount[s] /\ (s \notin credited => refunded[s] = 0)

\* The inductive invariant of the books, with their sums.
BooksInv == IndInv /\ RefundsBounded /\ ReservedIsOpenHolds /\ LedgerExplained
=============================================================================
