---------------------------- MODULE HostedUsage ----------------------------
(***************************************************************************)
(* What a request to a hosted Model API costs its customer.  The operator  *)
(* publishes retail rates, the customer accepts one, a publisher copies    *)
(* the accepted contract into the gateway's directory, and a request       *)
(* reserves a ceiling, sends to the supplier and settles what was used.    *)
(* When the outcome is unknown the hold stays until a reconciler finds     *)
(* immutable evidence of usage or of no charge.                            *)
(*                                                                         *)
(* Token counts and their cost are abstracted to units of usage times a    *)
(* price.  A supplier answers once, and what it charged is fixed then.     *)
(***************************************************************************)
EXTENDS WalletArithmetic, Tally, Sequences

CONSTANTS
  HostedRequests,            \* requests of one customer for one product
  Prices,                    \* retail prices of a unit
  Units,                     \* usage a supplier may charge for
  Ceiling,                   \* max_request_microusd of the entitlement
  Deposit,                   \* what the customer paid in
  MaxContractChanges,        \* bound on publications and changes of the grant
  MaxHostedFaults,           \* bound on crashes, failed and unanswered handlers
  NoRequest                  \* the reconciler has no reservation in hand

ASSUME HostedAssumption ==
  /\ Prices \subseteq Nat \ {0} /\ Units \subseteq Nat \ {0}
  /\ Ceiling \in Nat \ {0} /\ Deposit \in Nat
  /\ MaxContractChanges \in Nat /\ MaxHostedFaults \in Nat
  /\ IsFiniteSet(HostedRequests) /\ NoRequest \notin HostedRequests

VARIABLES
  rates,                     \* model_api_retail_rate_cards: the prices by version; the last is published
  entitlement,               \* the customer's grant, and (history) the price it agreed to
  saved,                     \* number of contract changes so far
  saving,                    \* the version a SaveModelAPIProductEntitlement has read, or 0
  route,                     \* the contract version in the gateway's Directory, or 0
  prepaid,                   \* the customer's managed wallet
  bank,                      \* (history) what became of the deposit
  reservations,              \* model_api_usage_reservations with their evidence
  handlers,                     \* the gateway's handlers of the requests
  supplier,                  \* what the supplier charged for: Unknown before it decides
  pass,                      \* the reconciler's current reservation
  hostedFaults

contractVars == <<rates, entitlement, saved, saving, route>>
moneyVars == <<prepaid, bank, reservations>>
hostedVars == <<contractVars, moneyVars, handlers, supplier, pass, hostedFaults>>

Unknown == -1
NoCharge == 0
Outcomes == {Unknown, NoCharge} \cup Units

InFlight == {"transmitted", "response_started"}
Ambiguous == InFlight \cup {"pending_reconciliation"}
Closed == {"settled", "released"}

Reservation(state, version, agreed) ==
  [state |-> state, version |-> version, agreed |-> agreed, actual |-> 0,
   evidence |-> Unknown, stale |-> FALSE]

Versions == 0..(MaxContractChanges + 1)

HostedTypeOK ==
  /\ rates \in Seq(Prices)
  /\ entitlement \in [active: BOOLEAN, version: Versions, agreed: Prices]
  /\ saved \in 0..MaxContractChanges /\ saving \in Versions /\ route \in Versions
  /\ prepaid \in Wallet
  /\ bank \in {"paid", "refunded", "paid again"}
  /\ reservations \in [HostedRequests ->
       [state: {"none", "reserved"} \cup Ambiguous \cup Closed, version: Versions,
        agreed: Prices \cup {0}, actual: Nat, evidence: Outcomes, stale: BOOLEAN]]
  /\ handlers \in [HostedRequests ->
       [pc: {"idle", "leased", "build", "send", "waiting", "reading", "settle", "evidence", "done"},
        version: Versions, usage: Int, noCharge: BOOLEAN]]
  /\ supplier \in [HostedRequests -> Outcomes]
  /\ pass \in [of: HostedRequests \cup {NoRequest}, pc: {"idle", "retain", "resolve", "apply"}, evidence: Outcomes]
  /\ hostedFaults \in 0..MaxHostedFaults

HostedFault == hostedFaults < MaxHostedFaults /\ hostedFaults' = hostedFaults + 1

-----------------------------------------------------------------------------
(* The contract: the operator's publication and the customer's grant.      *)

Published == Len(rates)
ContractChanges == saved < MaxContractChanges /\ saved' = saved + 1

\* Mutant: every new rate is carried over to the customer's grant.
MutRateAlwaysAccepted(prior, next) == TRUE

RateDoesNotIncrease(prior, next) == next <= prior

\* A new rate comes with its supply plan.  An indefinite grant of the rate
\* before follows it if no price rises.
SaveModelAPIOperatorPublication(price) ==
  /\ ContractChanges
  /\ rates' = Append(rates, price)
  /\ entitlement' =
       IF /\ entitlement.active /\ entitlement.version = Published
          /\ RateDoesNotIncrease(rates[Published], price)
       THEN [entitlement EXCEPT !.version = Published + 1]
       ELSE entitlement
  /\ UNCHANGED <<saving, route, moneyVars, handlers, supplier, pass, hostedFaults>>

\* The publication is read and compared before the transaction that writes.
ReadPublication ==
  /\ saving = 0 /\ ContractChanges
  /\ saving' = Published
  /\ UNCHANGED <<rates, entitlement, route, moneyVars, handlers, supplier, pass, hostedFaults>>

SaveModelAPIProductEntitlement(active) ==
  /\ saving # 0
  /\ entitlement' = [active |-> active, version |-> saving,
                     agreed |-> IF active THEN rates[saving] ELSE entitlement.agreed]
  /\ saving' = 0
  /\ UNCHANGED <<rates, saved, route, moneyVars, handlers, supplier, pass, hostedFaults>>

\* A grant of an older rate leaves the generation when its serving plan was
\* replaced, and fails the whole generation, which is then kept, when not.
PublishOnce ==
  /\ route' \in IF ~entitlement.active THEN {0}
                ELSE IF entitlement.version = Published THEN {Published}
                ELSE {0, route}
  /\ UNCHANGED <<rates, entitlement, saved, saving, moneyVars, handlers, supplier, pass, hostedFaults>>

-----------------------------------------------------------------------------
(* The transactions on a reservation and the wallet.                       *)

\* A row and the wallet after a hold was closed for what it costs.
CloseHold(h, row, actual) ==
  /\ reservations' = [reservations EXCEPT ![h] = row]
  /\ prepaid' = ReconcileManagedDebt(
       [prepaid EXCEPT !.balance = @ - actual, !.reserved = @ - Ceiling])

KeepHold(h, row) == reservations' = [reservations EXCEPT ![h] = row] /\ UNCHANGED prepaid

\* The contract of the lease must still be the stored one.
ReserveAuthorized(version) ==
  /\ entitlement.active /\ entitlement.version = version
  /\ Published = version
  /\ Spendable(prepaid) >= Ceiling

ReserveModelAPIUsage(h) ==
  /\ reservations' = [reservations EXCEPT ![h] = Reservation("reserved", handlers[h].version, entitlement.agreed)]
  /\ prepaid' = [prepaid EXCEPT !.reserved = @ + Ceiling]

ReleaseUnsentModelAPIUsage(h) ==
  IF reservations[h].state = "reserved"
  THEN CloseHold(h, [reservations[h] EXCEPT !.state = "released"], 0)
  ELSE UNCHANGED <<prepaid, reservations>>

Advanced(row, from, to) ==
  IF row.state = from THEN [row EXCEPT !.state = to, !.stale = FALSE] ELSE row

\* Mutant: a released reservation may become pending again.
MutSettleReleased(h, usage) ==
  LET row == reservations[h]
      actual == Least(usage * rates[row.version], Ceiling)
  IN  CASE row.state \in {"settled", "reserved", "none"} -> UNCHANGED <<prepaid, reservations>>
        [] row.state \in Ambiguous \cup {"released"} /\ usage = Unknown ->
             KeepHold(h, [row EXCEPT !.state = "pending_reconciliation"])
        [] OTHER -> CloseHold(h, [row EXCEPT !.state = "settled", !.actual = actual], actual)

\* Usage that nobody reported retains the hold.
SettleModelAPIUsage(h, usage) ==
  LET row == reservations[h]
      actual == Least(usage * rates[row.version], Ceiling)
  IN  CASE row.state \notin Ambiguous -> UNCHANGED <<prepaid, reservations>>
        [] row.state \in Ambiguous /\ usage = Unknown ->
             KeepHold(h, [row EXCEPT !.state = "pending_reconciliation"])
        [] OTHER -> CloseHold(h, [row EXCEPT !.state = "settled", !.actual = actual], actual)

ConfirmNoChargeModelAPIUsage(h) ==
  IF reservations[h].state \in Ambiguous
  THEN CloseHold(h, [reservations[h] EXCEPT !.state = "released"], 0)
  ELSE UNCHANGED <<prepaid, reservations>>

\* Evidence is recorded once, for an ambiguous reservation.
RecordEvidence(h, outcome) ==
  IF reservations[h].state \in Ambiguous /\ reservations[h].evidence = Unknown
  THEN KeepHold(h, [reservations[h] EXCEPT !.evidence = outcome])
  ELSE UNCHANGED <<prepaid, reservations>>

-----------------------------------------------------------------------------
(* The request path.                                                       *)

HandlerAt(h, pc) == handlers[h].pc = pc
HandlerGoes(h, pc) == handlers' = [handlers EXCEPT ![h].pc = pc]
OnlyTheRequest == UNCHANGED <<contractVars, bank, pass>>

\* The lease pins the contract of the generation it was acquired from.
AcquireLease(h) ==
  /\ HandlerAt(h, "idle") /\ route # 0
  /\ handlers' = [handlers EXCEPT ![h] = [@ EXCEPT !.pc = "leased", !.version = route]]
  /\ OnlyTheRequest /\ UNCHANGED <<prepaid, reservations, supplier, hostedFaults>>

Refused(h) ==
  /\ HandlerAt(h, "leased") /\ ~ReserveAuthorized(handlers[h].version)
  /\ HandlerGoes(h, "done")
  /\ OnlyTheRequest /\ UNCHANGED <<prepaid, reservations, supplier, hostedFaults>>

\* The read of the committed reservation may fail, and nobody releases it then.
ReserveCeiling(h) ==
  /\ HandlerAt(h, "leased") /\ ReserveAuthorized(handlers[h].version)
  /\ ReserveModelAPIUsage(h)
  /\ \/ HandlerGoes(h, "build") /\ UNCHANGED hostedFaults
     \/ HandlerGoes(h, "done") /\ HostedFault
  /\ OnlyTheRequest /\ UNCHANGED supplier

\* The request cannot be built or the transmission fence did not commit; the
\* error of the release is ignored.
AbandonUnsent(h) ==
  /\ HandlerAt(h, "build") /\ HandlerGoes(h, "done")
  /\ \/ ReleaseUnsentModelAPIUsage(h) /\ UNCHANGED hostedFaults
     \/ UNCHANGED <<prepaid, reservations>> /\ HostedFault
  /\ OnlyTheRequest /\ UNCHANGED supplier

\* Mark first, then transmit.  If only the answer is lost, the release is
\* refused and nothing is sent.
MarkTransmitted(h) ==
  /\ HandlerAt(h, "build")
  /\ KeepHold(h, Advanced(reservations[h], "reserved", "transmitted"))
  /\ \/ HandlerGoes(h, "send") /\ UNCHANGED hostedFaults
     \/ HandlerGoes(h, "done") /\ HostedFault
  /\ OnlyTheRequest /\ UNCHANGED supplier

\* The request reaches the supplier, or it does not and nothing is charged.
Send(h) ==
  /\ HandlerAt(h, "send") /\ HandlerGoes(h, "waiting")
  /\ supplier' \in {[supplier EXCEPT ![h] = outcome] : outcome \in Outcomes \ {Unknown}}
  /\ OnlyTheRequest /\ UNCHANGED <<prepaid, reservations, hostedFaults>>

\* Do returns an error, whatever the supplier did.
SendFails(h) ==
  /\ HandlerAt(h, "waiting") /\ HandlerGoes(h, "settle")
  /\ OnlyTheRequest /\ UNCHANGED <<prepaid, reservations, supplier, hostedFaults>>

\* A failed mark of the response's start is only logged.
MarkResponseStarted(h) ==
  /\ HandlerAt(h, "waiting") /\ HandlerGoes(h, "reading")
  /\ \/ KeepHold(h, Advanced(reservations[h], "transmitted", "response_started")) /\ UNCHANGED hostedFaults
     \/ UNCHANGED <<prepaid, reservations>> /\ HostedFault
  /\ OnlyTheRequest /\ UNCHANGED supplier

\* The response reports its usage, an interim one if the stream broke later, or
\* none; a strict adapter may confirm that a refusal is not charged.
ReadResponse(h) ==
  /\ HandlerAt(h, "reading")
  /\ \E usage \in {Unknown} \cup 1..supplier[h], noCharge \in BOOLEAN :
       /\ noCharge => supplier[h] = NoCharge
       /\ handlers' = [handlers EXCEPT ![h] = [@ EXCEPT !.pc = "settle", !.usage = usage, !.noCharge = noCharge]]
  /\ OnlyTheRequest /\ UNCHANGED <<prepaid, reservations, supplier, hostedFaults>>

\* The settlement's error is only logged.
Settle(h) ==
  /\ HandlerAt(h, "settle") /\ HandlerGoes(h, IF handlers[h].noCharge THEN "evidence" ELSE "done")
  /\ \/ SettleModelAPIUsage(h, handlers[h].usage) /\ UNCHANGED hostedFaults
     \/ UNCHANGED <<prepaid, reservations>> /\ HostedFault
  /\ OnlyTheRequest /\ UNCHANGED supplier

RecordReconciliationEvidence(h) ==
  /\ HandlerAt(h, "evidence") /\ HandlerGoes(h, "done")
  /\ \/ RecordEvidence(h, NoCharge) /\ UNCHANGED hostedFaults
     \/ UNCHANGED <<prepaid, reservations>> /\ HostedFault
  /\ OnlyTheRequest /\ UNCHANGED supplier

GatewayCrashes(h) ==
  /\ handlers[h].pc \notin {"idle", "done"} /\ HandlerGoes(h, "done")
  /\ HostedFault
  /\ OnlyTheRequest /\ UNCHANGED <<prepaid, reservations, supplier>>

-----------------------------------------------------------------------------
(* The reconciler, the operator and the customer's bank.                   *)

OnlyThePass == UNCHANGED <<contractVars, bank, handlers, supplier>>
PassIdle == [of |-> NoRequest, pc |-> "idle", evidence |-> Unknown]

\* Mutant: in-flight reservations are left to their handlers.
MutOnlyPending(row) == row.state = "pending_reconciliation"

ReconcileableModelAPIUsageReservations(row) ==
  row.state = "pending_reconciliation" \/ (row.state \in InFlight /\ row.stale)

ListReconcileable(h) ==
  /\ pass = PassIdle /\ ReconcileableModelAPIUsageReservations(reservations[h])
  /\ pass' = [PassIdle EXCEPT
       !.of = h, !.pc = IF reservations[h].state \in InFlight THEN "retain" ELSE "resolve"]
  /\ OnlyThePass /\ UNCHANGED <<prepaid, reservations, hostedFaults>>

Retain ==
  /\ pass.pc = "retain"
  /\ SettleModelAPIUsage(pass.of, Unknown)
  /\ pass' = [pass EXCEPT !.pc = "resolve"]
  /\ OnlyThePass /\ UNCHANGED hostedFaults

ResolveModelAPIUsage ==
  /\ pass.pc = "resolve"
  /\ LET evidence == reservations[pass.of].evidence
     IN  pass' = IF evidence = Unknown THEN PassIdle ELSE [pass EXCEPT !.pc = "apply", !.evidence = evidence]
  /\ OnlyThePass /\ UNCHANGED <<prepaid, reservations, hostedFaults>>

ApplyEvidence ==
  /\ pass.pc = "apply" /\ pass' = PassIdle
  /\ IF pass.evidence = NoCharge
     THEN ConfirmNoChargeModelAPIUsage(pass.of)
     ELSE SettleModelAPIUsage(pass.of, pass.evidence)
  /\ OnlyThePass /\ UNCHANGED hostedFaults

\* A call fails, the pass runs out of time or the process crashes.
PassFails ==
  /\ pass # PassIdle /\ pass' = PassIdle
  /\ HostedFault
  /\ OnlyThePass /\ UNCHANGED <<prepaid, reservations>>

\* The in-flight grace of ten minutes passes; a long stream may still run.
GracePasses(h) ==
  /\ reservations[h].state \in InFlight /\ ~reservations[h].stale
  /\ KeepHold(h, [reservations[h] EXCEPT !.stale = TRUE])
  /\ OnlyThePass /\ UNCHANGED <<pass, hostedFaults>>

\* An operator records what the supplier's own books say, once they are final:
\* the supplier has decided, or the request ended without ever being sent.
RecordOperatorEvidence(h) ==
  /\ reservations[h].state \in Ambiguous /\ reservations[h].evidence = Unknown
  /\ supplier[h] # Unknown \/ HandlerAt(h, "done")
  /\ RecordEvidence(h, Greatest(supplier[h], NoCharge))
  /\ OnlyThePass /\ UNCHANGED <<pass, hostedFaults>>

\* The deposit is refunded, spent or not, and paid again.
RefundDeposit ==
  /\ bank = "paid" /\ bank' = "refunded"
  /\ prepaid' = RefundedWallet(prepaid, Deposit)
  /\ UNCHANGED <<contractVars, reservations, handlers, supplier, pass, hostedFaults>>

PayAgain ==
  /\ bank = "refunded" /\ bank' = "paid again"
  /\ prepaid' = ApplyManagedCredit(prepaid, Deposit)
  /\ UNCHANGED <<contractVars, reservations, handlers, supplier, pass, hostedFaults>>

-----------------------------------------------------------------------------
HostedInit ==
  /\ rates \in {<<p>> : p \in Prices}
  /\ entitlement = [active |-> TRUE, version |-> 1, agreed |-> rates[1]]
  /\ saved = 0 /\ saving = 0 /\ route = 0
  /\ prepaid = [balance |-> Deposit, reserved |-> 0, debt |-> 0]
  /\ bank = "paid"
  /\ reservations = [h \in HostedRequests |-> Reservation("none", 0, 0)]
  /\ handlers = [h \in HostedRequests |-> [pc |-> "idle", version |-> 0, usage |-> Unknown, noCharge |-> FALSE]]
  /\ supplier = [h \in HostedRequests |-> Unknown]
  /\ pass = PassIdle
  /\ hostedFaults = 0

Contract ==
  \/ \E price \in Prices : SaveModelAPIOperatorPublication(price)
  \/ ReadPublication
  \/ \E active \in BOOLEAN : SaveModelAPIProductEntitlement(active)
  \/ PublishOnce

\* The steps a handler takes by itself.
Serve(h) ==
  \/ Refused(h) \/ ReserveCeiling(h) \/ AbandonUnsent(h) \/ MarkTransmitted(h)
  \/ Send(h) \/ SendFails(h) \/ MarkResponseStarted(h) \/ ReadResponse(h)
  \/ Settle(h) \/ RecordReconciliationEvidence(h)

Reconcile == Retain \/ ResolveModelAPIUsage \/ ApplyEvidence

HostedNext ==
  \/ Contract
  \/ \E h \in HostedRequests :
       \/ AcquireLease(h) \/ Serve(h) \/ GatewayCrashes(h)
       \/ ListReconcileable(h) \/ GracePasses(h) \/ RecordOperatorEvidence(h)
  \/ Reconcile \/ PassFails
  \/ RefundDeposit \/ PayAgain

HostedSpec == HostedInit /\ [][HostedNext]_hostedVars

-----------------------------------------------------------------------------
(* What the customer is promised.                                          *)

\* A customer pays only for what the supplier charged for, never more than that
\* usage at the price it agreed to, and a hold is given back only when the
\* supplier charges nothing, now or later: "it is never retried", "Unknown
\* evidence remains reserved" and "Any increase leaves the old grant pinned".
ChargedAsServed ==
  \A h \in HostedRequests :
    LET row == reservations[h] IN
    /\ row.state = "settled" =>
         supplier[h] \in Units /\ row.actual <= Least(supplier[h] * row.agreed, Ceiling)
    /\ row.state = "released" =>
         supplier[h] = NoCharge \/ (supplier[h] = Unknown /\ HandlerAt(h, "done"))

OpenHold(row) == row.state \in Ambiguous \cup {"reserved"}
HeldCeilings == [h \in HostedRequests |-> IF OpenHold(reservations[h]) THEN Ceiling ELSE 0]
SettledCosts == [h \in HostedRequests |-> reservations[h].actual]
Funded == IF bank = "refunded" THEN 0 ELSE Deposit

\* The wallet reserves the ceiling of every open reservation, and its balance
\* is the deposit less what the settled ones cost, although request path and
\* reconciler close the same reservation and refunds leave debts.
HostedBooksBalance ==
  /\ prepaid.reserved = Total(HeldCeilings, HostedRequests)
  /\ prepaid.balance - prepaid.debt = Funded - Total(SettledCosts, HostedRequests)
  /\ WalletCheck(prepaid)

\* A request that was marked as sent does not stay in flight, whoever crashed,
\* and evidence closes its reservation.
AmbiguousIsResolved ==
  \A h \in HostedRequests :
    /\ reservations[h].state \in InFlight ~> reservations[h].state \notin InFlight
    /\ reservations[h].evidence # Unknown ~> reservations[h].state \in Closed
=============================================================================
