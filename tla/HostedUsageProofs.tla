------------------------- MODULE HostedUsageProofs -------------------------
(***************************************************************************)
(* Proofs about HostedUsage: for any number of requests, rates and faults, *)
(* a customer pays only for what the supplier charged, at a price it has   *)
(* agreed to.                                                              *)
(***************************************************************************)
EXTENDS HostedUsage, AccountingProofs

-----------------------------------------------------------------------------
(* The inductive invariant.                                                *)

\* The grant and everything that refers to a rate refer to a published one,
\* and an active grant costs no more than the customer agreed to.
ContractInv ==
  /\ Len(rates) \in 1..(saved + 1)
  /\ entitlement.version \in 1..Len(rates)
  /\ saving \in 0..Len(rates) /\ route \in 0..Len(rates)
  /\ entitlement.active => rates[entitlement.version] <= entitlement.agreed

RowType ==
  [state: {"none", "reserved"} \cup Ambiguous \cup Closed, version: Versions,
   agreed: Prices \cup {0}, actual: Nat, evidence: Outcomes, stale: BOOLEAN]

HandlerType ==
  [pc: {"idle", "leased", "build", "send", "waiting", "reading", "settle", "evidence", "done"},
   version: Versions, usage: Int, noCharge: BOOLEAN]

PassType ==
  [of: HostedRequests \cup {NoRequest}, pc: {"idle", "retain", "resolve", "apply"}, evidence: Outcomes]

\* What the handler's position says of the reservation and of the supplier.
PositionGood(row, hd, out) ==
  /\ hd.pc \in {"idle", "leased"} => row.state = "none"
  /\ hd.pc = "build" => row.state = "reserved"
  /\ hd.pc = "send" => row.state \in Ambiguous
  /\ hd.pc \in {"idle", "leased", "build", "send"} => out = Unknown /\ row.evidence = Unknown
  /\ hd.pc \in {"waiting", "reading", "settle", "evidence"} => out # Unknown
  /\ row.state \in {"none", "reserved"} => out = Unknown /\ row.evidence = Unknown

\* A reservation carries a price that was agreed to.
PriceGood(row, hd) ==
  /\ hd.version <= Len(rates)
  /\ row.state # "none" =>
       /\ row.version \in 1..Len(rates)
       /\ row.agreed \in Prices
       /\ rates[row.version] <= row.agreed

\* Whoever knows an outcome knows the supplier's.
KnowledgeGood(row, hd, out) ==
  /\ row.evidence # Unknown =>
       /\ out # Unknown \/ hd.pc = "done"
       /\ row.evidence = IF out = Unknown THEN NoCharge ELSE out
  /\ hd.usage # Unknown => hd.usage \in 1..out
  /\ hd.noCharge => out = NoCharge
  /\ hd.pc = "evidence" => hd.noCharge

\* ChargedAsServed of one request.
ChargeGood(row, hd, out) ==
  /\ row.state = "settled" =>
       out \in Units /\ row.actual <= Least(out * row.agreed, Ceiling)
  /\ row.state = "released" => out = NoCharge \/ (out = Unknown /\ hd.pc = "done")

Good(row, hd, out) ==
  /\ PositionGood(row, hd, out)
  /\ PriceGood(row, hd)
  /\ KnowledgeGood(row, hd, out)
  /\ ChargeGood(row, hd, out)

RequestsInv == \A h \in HostedRequests : Good(reservations[h], handlers[h], supplier[h])

\* What the reconciler holds in hand is the reservation's own evidence.
PassInv ==
  /\ pass.pc # "idle" => pass.of \in HostedRequests
  /\ pass.pc = "apply" =>
       pass.evidence # Unknown /\ pass.evidence = reservations[pass.of].evidence

HostedInv == HostedTypeOK /\ ContractInv /\ RequestsInv /\ PassInv

-----------------------------------------------------------------------------
(* Arithmetic.                                                             *)

LEMMA CostMonotone ==
  ASSUME NEW u \in Nat, NEW s \in Nat, NEW p \in Nat, NEW q \in Nat, u <= s, p <= q
  PROVE  u * p <= s * q
<1>1. u * p <= s * p
  <2>1. PICK d \in Nat : s = u + d
    <3>1. s - u \in Nat /\ s = u + (s - u)
      OBVIOUS
    <3> QED BY <3>1
  <2>2. s * p = u * p + d * p /\ d * p \in Nat /\ u * p \in Nat
    BY <2>1
  <2> QED BY <2>2
<1>2. s * p <= s * q
  <2>1. PICK d \in Nat : q = p + d
    <3>1. q - p \in Nat /\ q = p + (q - p)
      OBVIOUS
    <3> QED BY <3>1
  <2>2. s * q = s * p + s * d /\ s * d \in Nat /\ s * p \in Nat
    BY <2>1
  <2> QED BY <2>2
<1>3. u * p \in Nat /\ s * p \in Nat /\ s * q \in Nat
  OBVIOUS
<1> QED BY <1>1, <1>2, <1>3

-----------------------------------------------------------------------------
(* Steps of one request.                                                   *)

\* A step that changes the row, the handler and the supplier of one request
\* keeps the invariant if their new values are good together.
LEMMA RequestStep ==
  ASSUME HostedInv, NEW h \in HostedRequests,
         NEW row \in RowType, NEW hd \in HandlerType, NEW out \in Outcomes,
         reservations' = [reservations EXCEPT ![h] = row],
         handlers' = [handlers EXCEPT ![h] = hd],
         supplier' = [supplier EXCEPT ![h] = out],
         Good(row, hd, out),
         prepaid' \in Wallet, hostedFaults' \in 0..MaxHostedFaults,
         UNCHANGED <<contractVars, bank>>,
         pass' \in PassType, PassInv'
  PROVE  HostedInv'
<1>1. HostedTypeOK'
  BY DEF HostedInv, HostedTypeOK, contractVars, RowType, HandlerType, PassType
<1>2. ContractInv'
  BY DEF HostedInv, ContractInv, contractVars
<1>3. RequestsInv'
  <2>1. reservations \in [HostedRequests -> RowType] /\ handlers \in [HostedRequests -> HandlerType]
        /\ supplier \in [HostedRequests -> Outcomes]
    BY DEF HostedInv, HostedTypeOK, RowType, HandlerType
  <2>2. ASSUME NEW g \in HostedRequests
        PROVE  Good(reservations'[g], handlers'[g], supplier'[g])
    <3>1. CASE g = h
      BY <2>1, <3>1
    <3>2. CASE g # h
      BY <2>1, <3>2 DEF HostedInv, RequestsInv
    <3> QED BY <3>1, <3>2
  <2> QED BY <2>2 DEF RequestsInv, Good, PositionGood, PriceGood, KnowledgeGood, ChargeGood,
    contractVars
<1> QED BY <1>1, <1>2, <1>3 DEF HostedInv

\* What the invariant says of the parts of the state.
LEMMA Parts ==
  ASSUME HostedInv
  PROVE  /\ reservations \in [HostedRequests -> RowType]
         /\ handlers \in [HostedRequests -> HandlerType]
         /\ supplier \in [HostedRequests -> Outcomes]
         /\ prepaid \in Wallet /\ pass \in PassType
         /\ hostedFaults \in 0..MaxHostedFaults
         /\ HostedFault => hostedFaults' \in 0..MaxHostedFaults
         /\ Len(rates) \in Nat /\ \A v \in 1..Len(rates) : rates[v] \in Prices
<1>1. /\ reservations \in [HostedRequests -> RowType]
      /\ handlers \in [HostedRequests -> HandlerType]
      /\ supplier \in [HostedRequests -> Outcomes]
      /\ prepaid \in Wallet /\ pass \in PassType
      /\ hostedFaults \in 0..MaxHostedFaults
      /\ rates \in Seq(Prices)
  BY DEF HostedInv, HostedTypeOK, RowType, HandlerType, PassType
<1>2. HostedFault => hostedFaults' \in 0..MaxHostedFaults
  BY <1>1, HostedAssumption DEF HostedFault
<1>3. Len(rates) \in Nat /\ \A v \in 1..Len(rates) : rates[v] \in Prices
  BY <1>1
<1> QED BY <1>1, <1>2, <1>3

\* The pass keeps what it has in hand: evidence is never replaced.
LEMMA PassKept ==
  ASSUME HostedInv, NEW h \in HostedRequests, NEW row \in RowType,
         reservations' = [reservations EXCEPT ![h] = row],
         row.evidence = reservations[h].evidence \/ reservations[h].evidence = Unknown,
         pass' = pass
  PROVE  pass' \in PassType /\ PassInv'
BY Parts DEF HostedInv, PassInv, PassType

\* A request may end at any time.
LEMMA DoneGood ==
  ASSUME NEW row, NEW hd \in HandlerType, NEW out, Good(row, hd, out)
  PROVE  /\ [hd EXCEPT !.pc = "done"] \in HandlerType
         /\ Good(row, [hd EXCEPT !.pc = "done"], out)
<1>1. /\ [hd EXCEPT !.pc = "done"] \in HandlerType
      /\ [hd EXCEPT !.pc = "done"].pc = "done"
      /\ [hd EXCEPT !.pc = "done"].version = hd.version
      /\ [hd EXCEPT !.pc = "done"].usage = hd.usage
      /\ [hd EXCEPT !.pc = "done"].noCharge = hd.noCharge
  BY DEF HandlerType
<1> QED BY <1>1 DEF Good, PositionGood, PriceGood, KnowledgeGood, ChargeGood

\* Closing a hold leaves a wallet.
LEMMA CloseKept ==
  ASSUME HostedInv, NEW h \in HostedRequests, NEW row, NEW actual \in Int, CloseHold(h, row, actual)
  PROVE  prepaid' \in Wallet /\ reservations' = [reservations EXCEPT ![h] = row]
<1>1. prepaid \in Wallet /\ Ceiling \in Int
  BY Parts, HostedAssumption
<1>2. [prepaid EXCEPT !.balance = @ - actual, !.reserved = @ - Ceiling] \in Wallet
  BY <1>1, WalletKept
<1>3. ReconcileManagedDebt([prepaid EXCEPT !.balance = @ - actual, !.reserved = @ - Ceiling]) \in Wallet
  BY <1>2, WalletKept
<1> QED BY <1>3 DEF CloseHold

\* Whatever it closes, settling usage that the supplier charged for, or none
\* that anyone knows of, leaves the request good.
LEMMA SettleGood ==
  ASSUME HostedInv, NEW h \in HostedRequests, NEW usage \in Int,
         usage = Unknown \/ usage \in 1..supplier[h],
         SettleModelAPIUsage(h, usage)
  PROVE  \E row \in RowType :
           /\ reservations' = [reservations EXCEPT ![h] = row] /\ prepaid' \in Wallet
           /\ row.evidence = reservations[h].evidence
           /\ Good(row, handlers[h], supplier[h])
<1> DEFINE old == reservations[h]
           actual == Least(usage * rates[old.version], Ceiling)
<1>1. /\ old \in RowType /\ reservations = [reservations EXCEPT ![h] = old]
      /\ handlers[h] \in HandlerType /\ supplier[h] \in Outcomes /\ prepaid \in Wallet
      /\ Good(old, handlers[h], supplier[h])
  BY Parts DEF HostedInv, RequestsInv
<1>2. CASE old.state \notin Ambiguous
  BY <1>1, <1>2 DEF SettleModelAPIUsage
<1>3. CASE old.state \in Ambiguous /\ usage = Unknown
  <2> DEFINE row == [old EXCEPT !.state = "pending_reconciliation"]
  <2>1. reservations' = [reservations EXCEPT ![h] = row] /\ prepaid' = prepaid
    BY <1>3 DEF SettleModelAPIUsage, KeepHold
  <2>2. /\ row \in RowType /\ row.state = "pending_reconciliation" /\ row.evidence = old.evidence
        /\ row.version = old.version /\ row.agreed = old.agreed
    BY <1>1 DEF RowType, Ambiguous
  <2>3. Good(row, handlers[h], supplier[h])
    BY <1>1, <1>3, <2>2 DEF Good, PositionGood, PriceGood, KnowledgeGood, ChargeGood,
      Ambiguous, InFlight
  <2> QED BY <1>1, <2>1, <2>2, <2>3
<1>4. CASE old.state \in Ambiguous /\ usage # Unknown
  <2> DEFINE row == [old EXCEPT !.state = "settled", !.actual = actual]
  <2>1. supplier[h] \in Units /\ supplier[h] \in Nat /\ usage \in Nat /\ usage <= supplier[h]
    BY <1>1, <1>4, HostedAssumption DEF Outcomes, Unknown, NoCharge
  <2>2. /\ old.version \in 1..Len(rates) /\ old.agreed \in Prices /\ rates[old.version] <= old.agreed
    BY <1>1, <1>4 DEF Good, PriceGood, Ambiguous, InFlight
  <2>3. rates[old.version] \in Nat /\ old.agreed \in Nat
    <3>1. Prices \subseteq Nat
      BY HostedAssumption
    <3> QED BY <2>2, <3>1, Parts
  <2>4. usage * rates[old.version] <= supplier[h] * old.agreed
        /\ usage * rates[old.version] \in Nat /\ supplier[h] * old.agreed \in Nat
    <3> DEFINE p == rates[old.version]
               q == old.agreed
               s == supplier[h]
    <3>1. p \in Nat /\ q \in Nat /\ s \in Nat /\ p <= q /\ usage <= s
      BY <2>1, <2>2, <2>3
    <3> HIDE DEF p, q, s
    <3>2. usage * p <= s * q
      BY <2>1, <3>1, CostMonotone
    <3>3. usage * p \in Nat /\ s * q \in Nat
      BY <2>1, <3>1
    <3> QED BY <3>2, <3>3 DEF p, q, s
  <2>5. actual \in Nat /\ actual <= Least(supplier[h] * old.agreed, Ceiling)
    BY <2>4, HostedAssumption DEF Least
  <2>6. CloseHold(h, row, actual)
    BY <1>4 DEF SettleModelAPIUsage
  <2> HIDE DEF actual
  <2>7. prepaid' \in Wallet /\ reservations' = [reservations EXCEPT ![h] = row]
    BY <2>5, <2>6, CloseKept
  <2>8. /\ row \in RowType /\ row.state = "settled" /\ row.evidence = old.evidence
        /\ row.version = old.version /\ row.agreed = old.agreed /\ row.actual = actual
    BY <1>1, <2>5 DEF RowType, Closed
  <2> HIDE DEF row
  <2>9. Good(row, handlers[h], supplier[h])
    <3>1. PositionGood(row, handlers[h], supplier[h])
      BY <1>1, <1>4, <2>1, <2>8, HostedAssumption
        DEF Good, PositionGood, Ambiguous, InFlight, Unknown, HandlerType
    <3>2. PriceGood(row, handlers[h]) /\ KnowledgeGood(row, handlers[h], supplier[h])
      BY <1>1, <2>2, <2>8 DEF Good, PriceGood, KnowledgeGood
    <3>3. ChargeGood(row, handlers[h], supplier[h])
      BY <2>1, <2>5, <2>8 DEF ChargeGood
    <3> QED BY <3>1, <3>2, <3>3 DEF Good
  <2> QED BY <2>7, <2>8, <2>9
<1> QED BY <1>2, <1>3, <1>4

-----------------------------------------------------------------------------
(* The handler's steps.                                                    *)

\* What a step of one request starts from.
LEMMA Before ==
  ASSUME HostedInv, NEW h \in HostedRequests
  PROVE  /\ reservations[h] \in RowType /\ handlers[h] \in HandlerType /\ supplier[h] \in Outcomes
         /\ Good(reservations[h], handlers[h], supplier[h])
         /\ reservations = [reservations EXCEPT ![h] = reservations[h]]
         /\ handlers = [handlers EXCEPT ![h] = handlers[h]]
         /\ supplier = [supplier EXCEPT ![h] = supplier[h]]
BY Parts DEF HostedInv, RequestsInv

\* A step of the handler alone keeps the invariant if its new state is good.
LEMMA HandlerStep ==
  ASSUME HostedInv, NEW h \in HostedRequests, NEW hd \in HandlerType,
         handlers' = [handlers EXCEPT ![h] = hd],
         Good(reservations[h], hd, supplier[h]),
         UNCHANGED <<contractVars, bank, pass, prepaid, reservations, supplier>>,
         hostedFaults' \in 0..MaxHostedFaults
  PROVE  HostedInv'
<1>1. PassInv' /\ pass' \in PassType /\ prepaid' \in Wallet
  BY Parts DEF HostedInv, PassInv
<1>2. reservations' = [reservations EXCEPT ![h] = reservations[h]]
      /\ supplier' = [supplier EXCEPT ![h] = supplier[h]]
      /\ reservations[h] \in RowType /\ supplier[h] \in Outcomes
  BY Before
<1> QED BY <1>1, <1>2, RequestStep

\* A step of the handler that also writes the reservation.
LEMMA RowStep ==
  ASSUME HostedInv, NEW h \in HostedRequests, NEW row \in RowType, NEW hd \in HandlerType,
         reservations' = [reservations EXCEPT ![h] = row],
         handlers' = [handlers EXCEPT ![h] = hd],
         Good(row, hd, supplier[h]),
         row.evidence = reservations[h].evidence \/ reservations[h].evidence = Unknown,
         UNCHANGED <<contractVars, bank, pass, supplier>>,
         prepaid' \in Wallet, hostedFaults' \in 0..MaxHostedFaults
  PROVE  HostedInv'
<1>1. PassInv' /\ pass' \in PassType
  BY PassKept
<1>2. supplier' = [supplier EXCEPT ![h] = supplier[h]] /\ supplier[h] \in Outcomes
  BY Before
<1> QED BY <1>1, <1>2, RequestStep

LEMMA AcquireStep ==
  ASSUME HostedInv, NEW h \in HostedRequests, AcquireLease(h)
  PROVE  HostedInv'
<1> DEFINE hd == [handlers[h] EXCEPT !.pc = "leased", !.version = route]
<1>1. handlers' = [handlers EXCEPT ![h] = hd] /\ handlers[h].pc = "idle"
      /\ UNCHANGED <<contractVars, bank, pass, prepaid, reservations, supplier>>
      /\ hostedFaults' \in 0..MaxHostedFaults
  BY Parts DEF AcquireLease, OnlyTheRequest, HandlerAt
<1>2. route \in Versions /\ route <= Len(rates)
  <2>1. route \in Versions /\ route \in 0..Len(rates)
    BY DEF HostedInv, HostedTypeOK, ContractInv
  <2> QED BY <2>1, Parts
<1>3. /\ hd \in HandlerType /\ hd.pc = "leased" /\ hd.version = route
      /\ hd.usage = handlers[h].usage /\ hd.noCharge = handlers[h].noCharge
  BY <1>2, Before DEF HandlerType
<1> HIDE DEF hd
<1>4. Good(reservations[h], hd, supplier[h])
  BY <1>1, <1>2, <1>3, Before DEF Good, PositionGood, PriceGood, KnowledgeGood, ChargeGood
<1> QED BY <1>1, <1>3, <1>4, HandlerStep

LEMMA RefusedStep ==
  ASSUME HostedInv, NEW h \in HostedRequests, Refused(h) \/ GatewayCrashes(h)
  PROVE  HostedInv'
<1>1. handlers' = [handlers EXCEPT ![h] = [handlers[h] EXCEPT !.pc = "done"]]
      /\ UNCHANGED <<contractVars, bank, pass, prepaid, reservations, supplier>>
      /\ hostedFaults' \in 0..MaxHostedFaults
  BY Parts DEF Refused, GatewayCrashes, OnlyTheRequest, HandlerGoes
<1> QED BY <1>1, Before, DoneGood, HandlerStep

LEMMA ReserveStep ==
  ASSUME HostedInv, NEW h \in HostedRequests, ReserveCeiling(h)
  PROVE  HostedInv'
<1> DEFINE v == handlers[h].version
           row == Reservation("reserved", v, entitlement.agreed)
           hd == [handlers[h] EXCEPT !.pc = "build"]
<1>1. /\ reservations' = [reservations EXCEPT ![h] = row] /\ handlers[h].pc = "leased"
      /\ UNCHANGED <<contractVars, bank, pass, supplier>>
      /\ prepaid' = [prepaid EXCEPT !.reserved = @ + Ceiling]
      /\ entitlement.active /\ entitlement.version = v
      /\ \/ handlers' = [handlers EXCEPT ![h] = hd]
         \/ handlers' = [handlers EXCEPT ![h] = [handlers[h] EXCEPT !.pc = "done"]]
      /\ hostedFaults' \in 0..MaxHostedFaults
  BY Parts DEF ReserveCeiling, OnlyTheRequest, HandlerAt, HandlerGoes, ReserveModelAPIUsage,
    ReserveAuthorized
<1>2. prepaid' \in Wallet
  <2>1. prepaid \in Wallet /\ Ceiling \in Int
    BY Parts, HostedAssumption
  <2>2. [prepaid EXCEPT !.reserved = @ + Ceiling] \in Wallet
    BY <2>1, WalletKept
  <2> QED BY <1>1, <2>2
<1>3. v \in 1..Len(rates) /\ v \in Versions /\ entitlement.agreed \in Prices /\ rates[v] <= entitlement.agreed
  BY <1>1 DEF HostedInv, HostedTypeOK, ContractInv
<1>4. reservations[h].evidence = Unknown /\ supplier[h] = Unknown
  BY <1>1, Before DEF Good, PositionGood
<1>5. /\ row \in RowType /\ row.state = "reserved" /\ row.version = v /\ row.agreed = entitlement.agreed
      /\ row.evidence = Unknown
  BY <1>3 DEF RowType, Reservation, Outcomes
<1>6. /\ hd \in HandlerType /\ hd.pc = "build" /\ hd.version = v
      /\ hd.usage = handlers[h].usage /\ hd.noCharge = handlers[h].noCharge
  BY Before DEF HandlerType
<1>7. Good(row, hd, supplier[h])
  <2> HIDE DEF row, hd
  <2>1. PositionGood(row, hd, supplier[h])
    BY <1>4, <1>5, <1>6 DEF PositionGood
  <2>2. PriceGood(row, hd)
    BY <1>3, <1>5, <1>6 DEF PriceGood
  <2>3. KnowledgeGood(row, hd, supplier[h])
    BY <1>5, <1>6, Before DEF KnowledgeGood, Good
  <2>4. ChargeGood(row, hd, supplier[h])
    BY <1>5 DEF ChargeGood
  <2> QED BY <2>1, <2>2, <2>3, <2>4 DEF Good
<1>8. [handlers[h] EXCEPT !.pc = "done"] = [hd EXCEPT !.pc = "done"]
  BY Before DEF HandlerType
<1> HIDE DEF row, hd
<1> QED BY <1>1, <1>2, <1>4, <1>5, <1>6, <1>7, <1>8, DoneGood, RowStep

LEMMA AbandonStep ==
  ASSUME HostedInv, NEW h \in HostedRequests, AbandonUnsent(h)
  PROVE  HostedInv'
<1> DEFINE hd == [handlers[h] EXCEPT !.pc = "done"]
           row == [reservations[h] EXCEPT !.state = "released"]
<1>1. /\ handlers' = [handlers EXCEPT ![h] = hd] /\ handlers[h].pc = "build"
      /\ UNCHANGED <<contractVars, bank, pass, supplier>>
      /\ hostedFaults' \in 0..MaxHostedFaults
  BY Parts DEF AbandonUnsent, OnlyTheRequest, HandlerAt, HandlerGoes
<1>2. /\ reservations[h] \in RowType /\ hd \in HandlerType
      /\ Good(reservations[h], hd, supplier[h])
  BY Before, DoneGood
<1>3. reservations[h].state = "reserved" /\ supplier[h] = Unknown
  BY <1>1, Before DEF Good, PositionGood
<1>4. CASE UNCHANGED <<prepaid, reservations>>
  BY <1>1, <1>2, <1>4, HandlerStep
<1>5. CASE CloseHold(h, row, 0)
  <2>1. prepaid' \in Wallet /\ reservations' = [reservations EXCEPT ![h] = row]
    BY <1>5, CloseKept
  <2>2. /\ row \in RowType /\ row.state = "released" /\ row.evidence = reservations[h].evidence
        /\ row.version = reservations[h].version /\ row.agreed = reservations[h].agreed
        /\ hd.pc = "done"
    BY <1>2, Before DEF RowType, HandlerType, Closed
  <2> HIDE DEF row, hd
  <2>3. Good(row, hd, supplier[h])
    BY <1>2, <1>3, <2>2 DEF Good, PositionGood, PriceGood, KnowledgeGood, ChargeGood
  <2> QED BY <1>1, <1>2, <2>1, <2>2, <2>3, RowStep
<1> QED BY <1>3, <1>4, <1>5 DEF AbandonUnsent, ReleaseUnsentModelAPIUsage

LEMMA MarkStep ==
  ASSUME HostedInv, NEW h \in HostedRequests, MarkTransmitted(h)
  PROVE  HostedInv'
<1> DEFINE row == [reservations[h] EXCEPT !.state = "transmitted", !.stale = FALSE]
           hd == [handlers[h] EXCEPT !.pc = "send"]
<1>1. reservations[h].state = "reserved" /\ handlers[h].pc = "build"
      /\ reservations[h].evidence = Unknown /\ supplier[h] = Unknown
  BY Before DEF MarkTransmitted, HandlerAt, Good, PositionGood
<1>2. /\ reservations' = [reservations EXCEPT ![h] = row] /\ prepaid' = prepaid
      /\ UNCHANGED <<contractVars, bank, pass, supplier>>
      /\ \/ handlers' = [handlers EXCEPT ![h] = hd]
         \/ handlers' = [handlers EXCEPT ![h] = [handlers[h] EXCEPT !.pc = "done"]]
      /\ hostedFaults' \in 0..MaxHostedFaults
  BY <1>1, Parts DEF MarkTransmitted, OnlyTheRequest, HandlerGoes, KeepHold, Advanced
<1>3. /\ row \in RowType /\ row.state = "transmitted" /\ row.evidence = Unknown
      /\ row.version = reservations[h].version /\ row.agreed = reservations[h].agreed
  BY <1>1, Before DEF RowType, Ambiguous, InFlight
<1>4. /\ hd \in HandlerType /\ hd.pc = "send" /\ hd.version = handlers[h].version
      /\ hd.usage = handlers[h].usage /\ hd.noCharge = handlers[h].noCharge
  BY Before DEF HandlerType
<1>5. [handlers[h] EXCEPT !.pc = "done"] = [hd EXCEPT !.pc = "done"]
  BY Before DEF HandlerType
<1> HIDE DEF row, hd
<1>6. Good(row, hd, supplier[h])
  BY <1>1, <1>3, <1>4, Before
    DEF Good, PositionGood, PriceGood, KnowledgeGood, ChargeGood, Ambiguous, InFlight
<1>7. prepaid' \in Wallet
  BY <1>2, Parts
<1> QED BY <1>1, <1>2, <1>3, <1>4, <1>5, <1>6, <1>7, DoneGood, RowStep

LEMMA SendStep ==
  ASSUME HostedInv, NEW h \in HostedRequests, Send(h)
  PROVE  HostedInv'
<1> DEFINE hd == [handlers[h] EXCEPT !.pc = "waiting"]
<1>1. PICK out \in Outcomes \ {Unknown} : supplier' = [supplier EXCEPT ![h] = out]
  BY DEF Send
<1>2. /\ handlers' = [handlers EXCEPT ![h] = hd] /\ handlers[h].pc = "send"
      /\ UNCHANGED <<contractVars, bank, pass, prepaid, reservations, hostedFaults>>
  BY DEF Send, OnlyTheRequest, HandlerAt, HandlerGoes
<1>3. /\ hd \in HandlerType /\ hd.pc = "waiting" /\ hd.version = handlers[h].version
      /\ hd.usage = handlers[h].usage /\ hd.noCharge = handlers[h].noCharge
  BY Before DEF HandlerType
<1>4. /\ reservations[h].state \in Ambiguous /\ reservations[h].evidence = Unknown
      /\ supplier[h] = Unknown
  BY <1>2, Before DEF Good, PositionGood
<1>5. hd.usage = Unknown /\ ~hd.noCharge
  <2>1. handlers[h].usage # Unknown => handlers[h].usage \in 1..supplier[h]
    BY Before DEF Good, KnowledgeGood
  <2>2. handlers[h].usage = Unknown
    BY <1>4, <2>1 DEF Unknown
  <2>3. handlers[h].noCharge => supplier[h] = NoCharge
    BY Before DEF Good, KnowledgeGood
  <2> QED BY <1>3, <1>4, <2>2, <2>3 DEF Unknown, NoCharge
<1> HIDE DEF hd
<1>6. Good(reservations[h], hd, out)
  BY <1>1, <1>3, <1>4, <1>5, Before
    DEF Good, PositionGood, PriceGood, KnowledgeGood, ChargeGood, Ambiguous, InFlight
<1>7. PassInv' /\ pass' \in PassType /\ prepaid' \in Wallet /\ hostedFaults' \in 0..MaxHostedFaults
  BY <1>2, Parts DEF HostedInv, PassInv
<1>8. reservations' = [reservations EXCEPT ![h] = reservations[h]] /\ reservations[h] \in RowType
      /\ UNCHANGED <<contractVars, bank>>
  BY <1>2, Before
<1> QED BY <1>1, <1>2, <1>3, <1>6, <1>7, <1>8, RequestStep

LEMMA FailStep ==
  ASSUME HostedInv, NEW h \in HostedRequests, SendFails(h)
  PROVE  HostedInv'
<1> DEFINE hd == [handlers[h] EXCEPT !.pc = "settle"]
<1>1. /\ handlers' = [handlers EXCEPT ![h] = hd] /\ handlers[h].pc = "waiting"
      /\ UNCHANGED <<contractVars, bank, pass, prepaid, reservations, supplier>>
      /\ hostedFaults' \in 0..MaxHostedFaults
  BY Parts DEF SendFails, OnlyTheRequest, HandlerAt, HandlerGoes
<1>2. /\ hd \in HandlerType /\ hd.pc = "settle" /\ hd.version = handlers[h].version
      /\ hd.usage = handlers[h].usage /\ hd.noCharge = handlers[h].noCharge
  BY Before DEF HandlerType
<1> HIDE DEF hd
<1>3. Good(reservations[h], hd, supplier[h])
  BY <1>1, <1>2, Before DEF Good, PositionGood, PriceGood, KnowledgeGood, ChargeGood
<1> QED BY <1>1, <1>2, <1>3, HandlerStep

LEMMA ResponseStep ==
  ASSUME HostedInv, NEW h \in HostedRequests, MarkResponseStarted(h)
  PROVE  HostedInv'
<1> DEFINE hd == [handlers[h] EXCEPT !.pc = "reading"]
           row == Advanced(reservations[h], "transmitted", "response_started")
<1>1. /\ handlers' = [handlers EXCEPT ![h] = hd] /\ handlers[h].pc = "waiting"
      /\ UNCHANGED <<contractVars, bank, pass, supplier, prepaid>>
      /\ hostedFaults' \in 0..MaxHostedFaults
      /\ reservations' \in {reservations, [reservations EXCEPT ![h] = row]}
  BY Parts DEF MarkResponseStarted, OnlyTheRequest, HandlerAt, HandlerGoes, KeepHold
<1>2. /\ hd \in HandlerType /\ hd.pc = "reading" /\ hd.version = handlers[h].version
      /\ hd.usage = handlers[h].usage /\ hd.noCharge = handlers[h].noCharge
  BY Before DEF HandlerType
<1> HIDE DEF hd
<1>3. Good(reservations[h], hd, supplier[h])
  BY <1>1, <1>2, Before DEF Good, PositionGood, PriceGood, KnowledgeGood, ChargeGood
<1>4. /\ row \in RowType /\ row.evidence = reservations[h].evidence
      /\ Good(row, hd, supplier[h])
  <2>1. CASE reservations[h].state = "transmitted"
    <3>1. /\ row \in RowType /\ row.state = "response_started" /\ row.evidence = reservations[h].evidence
          /\ row.version = reservations[h].version /\ row.agreed = reservations[h].agreed
      BY <2>1, Before DEF Advanced, RowType, Ambiguous, InFlight
    <3> HIDE DEF row
    <3> QED BY <1>2, <1>3, <2>1, <3>1
      DEF Good, PositionGood, PriceGood, KnowledgeGood, ChargeGood, Ambiguous, InFlight
  <2>2. CASE reservations[h].state # "transmitted"
    BY <1>3, <2>2, Before DEF Advanced
  <2> QED BY <2>1, <2>2
<1> HIDE DEF row
<1>5. CASE reservations' = reservations
  BY <1>1, <1>2, <1>3, <1>5, HandlerStep
<1>6. CASE reservations' = [reservations EXCEPT ![h] = row]
  <2>1. prepaid' \in Wallet
    BY <1>1, Parts
  <2> QED BY <1>1, <1>2, <1>4, <1>6, <2>1, RowStep
<1> QED BY <1>1, <1>5, <1>6

LEMMA ReadStep ==
  ASSUME HostedInv, NEW h \in HostedRequests, ReadResponse(h)
  PROVE  HostedInv'
<1>1. PICK usage \in {Unknown} \cup 1..supplier[h], noCharge \in BOOLEAN :
        /\ noCharge => supplier[h] = NoCharge
        /\ handlers' = [handlers EXCEPT ![h] =
                         [handlers[h] EXCEPT !.pc = "settle", !.usage = usage, !.noCharge = noCharge]]
  BY DEF ReadResponse
<1> DEFINE hd == [handlers[h] EXCEPT !.pc = "settle", !.usage = usage, !.noCharge = noCharge]
<1>2. /\ handlers[h].pc = "reading"
      /\ UNCHANGED <<contractVars, bank, pass, prepaid, reservations, supplier>>
      /\ hostedFaults' \in 0..MaxHostedFaults
  BY Parts DEF ReadResponse, OnlyTheRequest, HandlerAt
<1>3. usage \in Int
  BY <1>1 DEF Unknown
<1>4. /\ hd \in HandlerType /\ hd.pc = "settle" /\ hd.version = handlers[h].version
      /\ hd.usage = usage /\ hd.noCharge = noCharge
  BY <1>1, <1>3, Before DEF HandlerType
<1>5. handlers' = [handlers EXCEPT ![h] = hd]
  BY <1>1
<1> HIDE DEF hd
<1>6. Good(reservations[h], hd, supplier[h])
  BY <1>1, <1>2, <1>4, Before DEF Good, PositionGood, PriceGood, KnowledgeGood, ChargeGood
<1> QED BY <1>2, <1>4, <1>5, <1>6, HandlerStep

LEMMA SettleStep ==
  ASSUME HostedInv, NEW h \in HostedRequests, Settle(h)
  PROVE  HostedInv'
<1> DEFINE pc == IF handlers[h].noCharge THEN "evidence" ELSE "done"
           hd == [handlers[h] EXCEPT !.pc = pc]
<1>1. /\ handlers' = [handlers EXCEPT ![h] = hd] /\ handlers[h].pc = "settle"
      /\ UNCHANGED <<contractVars, bank, pass, supplier>>
      /\ hostedFaults' \in 0..MaxHostedFaults
  BY Parts DEF Settle, OnlyTheRequest, HandlerAt, HandlerGoes
<1>2. pc \in {"evidence", "done"} /\ (pc = "evidence" => handlers[h].noCharge)
  OBVIOUS
<1> HIDE DEF pc
<1>3. /\ hd \in HandlerType /\ hd.pc \in {"evidence", "done"} /\ hd.version = handlers[h].version
      /\ (hd.pc = "evidence" => handlers[h].noCharge)
      /\ hd.usage = handlers[h].usage /\ hd.noCharge = handlers[h].noCharge
  BY <1>2, Before DEF HandlerType
<1> HIDE DEF hd
<1>4. ASSUME NEW row \in RowType, Good(row, handlers[h], supplier[h])
      PROVE  Good(row, hd, supplier[h])
  BY <1>1, <1>3, <1>4 DEF Good, PositionGood, PriceGood, KnowledgeGood, ChargeGood
<1>5. CASE UNCHANGED <<prepaid, reservations>>
  BY <1>1, <1>3, <1>4, <1>5, Before, HandlerStep
<1>6. CASE SettleModelAPIUsage(h, handlers[h].usage)
  <2>1. handlers[h].usage \in Int /\ (handlers[h].usage = Unknown \/ handlers[h].usage \in 1..supplier[h])
    BY Before DEF HandlerType, Good, KnowledgeGood
  <2>2. PICK row \in RowType :
          /\ reservations' = [reservations EXCEPT ![h] = row] /\ prepaid' \in Wallet
          /\ row.evidence = reservations[h].evidence
          /\ Good(row, handlers[h], supplier[h])
    BY <1>6, <2>1, SettleGood
  <2> QED BY <1>1, <1>3, <1>4, <2>2, RowStep
<1> QED BY <1>5, <1>6 DEF Settle

\* Evidence that agrees with the supplier leaves the request good.
LEMMA EvidenceGood ==
  ASSUME HostedInv, NEW h \in HostedRequests, NEW outcome \in Outcomes,
         supplier[h] # Unknown \/ handlers[h].pc = "done",
         outcome = IF supplier[h] = Unknown THEN NoCharge ELSE supplier[h],
         RecordEvidence(h, outcome)
  PROVE  \E row \in RowType :
           /\ reservations' = [reservations EXCEPT ![h] = row] /\ prepaid' \in Wallet
           /\ row.evidence = reservations[h].evidence \/ reservations[h].evidence = Unknown
           /\ Good(row, handlers[h], supplier[h])
<1> DEFINE row == [reservations[h] EXCEPT !.evidence = outcome]
<1>0. prepaid \in Wallet
  BY Parts
<1>1. CASE UNCHANGED <<prepaid, reservations>>
  BY <1>0, <1>1, Before
<1>2. CASE /\ reservations[h].state \in Ambiguous /\ reservations[h].evidence = Unknown
           /\ KeepHold(h, row)
  <2>1. /\ row \in RowType /\ row.state = reservations[h].state /\ row.evidence = outcome
        /\ row.version = reservations[h].version /\ row.agreed = reservations[h].agreed
        /\ row.actual = reservations[h].actual
    BY Before DEF RowType
  <2>2. reservations' = [reservations EXCEPT ![h] = row] /\ prepaid' = prepaid
    BY <1>2 DEF KeepHold
  <2> HIDE DEF row
  <2>3. PositionGood(row, handlers[h], supplier[h])
    BY <1>2, <2>1, Before DEF Good, PositionGood, Ambiguous, InFlight
  <2>4. PriceGood(row, handlers[h]) /\ KnowledgeGood(row, handlers[h], supplier[h])
    BY <1>2, <2>1, Before DEF Good, PriceGood, KnowledgeGood
  <2>5. ChargeGood(row, handlers[h], supplier[h])
    BY <1>2, <2>1 DEF ChargeGood, Ambiguous, InFlight
  <2> QED BY <1>0, <1>2, <2>1, <2>2, <2>3, <2>4, <2>5 DEF Good
<1> QED BY <1>1, <1>2 DEF RecordEvidence

LEMMA EvidenceStep ==
  ASSUME HostedInv, NEW h \in HostedRequests, RecordReconciliationEvidence(h)
  PROVE  HostedInv'
<1> DEFINE hd == [handlers[h] EXCEPT !.pc = "done"]
<1>1. /\ handlers' = [handlers EXCEPT ![h] = hd] /\ handlers[h].pc = "evidence"
      /\ UNCHANGED <<contractVars, bank, pass, supplier>>
      /\ hostedFaults' \in 0..MaxHostedFaults
  BY Parts DEF RecordReconciliationEvidence, OnlyTheRequest, HandlerAt, HandlerGoes
<1>2. supplier[h] = NoCharge /\ supplier[h] # Unknown /\ NoCharge \in Outcomes
  BY <1>1, Before DEF Good, KnowledgeGood, Outcomes, Unknown, NoCharge
<1>3. CASE UNCHANGED <<prepaid, reservations>>
  BY <1>1, <1>3, Before, DoneGood, HandlerStep
<1>4. CASE RecordEvidence(h, NoCharge)
  <2>1. PICK row \in RowType :
          /\ reservations' = [reservations EXCEPT ![h] = row] /\ prepaid' \in Wallet
          /\ row.evidence = reservations[h].evidence \/ reservations[h].evidence = Unknown
          /\ Good(row, handlers[h], supplier[h])
    BY <1>2, <1>4, EvidenceGood
  <2> QED BY <1>1, <2>1, Before, DoneGood, RowStep
<1> QED BY <1>3, <1>4 DEF RecordReconciliationEvidence

\* The steps a handler takes.
LEMMA ServeStep ==
  ASSUME HostedInv, NEW h \in HostedRequests, Serve(h)
  PROVE  HostedInv'
BY RefusedStep, ReserveStep, AbandonStep, MarkStep, SendStep, FailStep, ResponseStep, ReadStep,
   SettleStep, EvidenceStep DEF Serve

-----------------------------------------------------------------------------
(* The reconciler's and the operator's steps.                              *)

LEMMA ListStep ==
  ASSUME HostedInv, NEW h \in HostedRequests, ListReconcileable(h)
  PROVE  HostedInv'
<1>1. /\ pass' = [PassIdle EXCEPT
           !.of = h, !.pc = IF reservations[h].state \in InFlight THEN "retain" ELSE "resolve"]
      /\ UNCHANGED <<contractVars, bank, handlers, supplier, prepaid, reservations, hostedFaults>>
  BY DEF ListReconcileable, OnlyThePass
<1>2. pass' \in PassType /\ pass'.pc \in {"retain", "resolve"} /\ pass'.of = h
  BY <1>1 DEF PassType, PassIdle, Outcomes
<1>3. PassInv'
  BY <1>2 DEF PassInv
<1> QED BY <1>1, <1>2, <1>3, Before, Parts, RequestStep

\* A step that writes a reservation and takes the pass somewhere other than
\* to the application of evidence.
LEMMA PassStep ==
  ASSUME HostedInv, NEW h \in HostedRequests, NEW row \in RowType,
         reservations' = [reservations EXCEPT ![h] = row],
         Good(row, handlers[h], supplier[h]), prepaid' \in Wallet,
         UNCHANGED <<contractVars, bank, handlers, supplier>>,
         hostedFaults' \in 0..MaxHostedFaults,
         pass' \in PassType, PassInv'
  PROVE  HostedInv'
<1>1. UNCHANGED <<contractVars, bank>>
      /\ handlers' = [handlers EXCEPT ![h] = handlers[h]] /\ handlers[h] \in HandlerType
      /\ supplier' = [supplier EXCEPT ![h] = supplier[h]] /\ supplier[h] \in Outcomes
  BY Before
<1> QED BY <1>1, RequestStep

LEMMA RetainStep ==
  ASSUME HostedInv, Retain
  PROVE  HostedInv'
<1>1. pass.of \in HostedRequests /\ SettleModelAPIUsage(pass.of, Unknown)
      /\ UNCHANGED <<contractVars, bank, handlers, supplier, hostedFaults>>
      /\ pass' = [pass EXCEPT !.pc = "resolve"]
  BY DEF HostedInv, PassInv, Retain, OnlyThePass
<1>2. PICK row \in RowType :
        /\ reservations' = [reservations EXCEPT ![pass.of] = row] /\ prepaid' \in Wallet
        /\ Good(row, handlers[pass.of], supplier[pass.of])
  BY <1>1, SettleGood DEF Unknown
<1>3. pass' \in PassType /\ pass'.pc = "resolve" /\ pass'.of = pass.of
  BY <1>1, Parts DEF PassType
<1>4. PassInv' /\ hostedFaults' \in 0..MaxHostedFaults
  BY <1>1, <1>3, Parts DEF PassInv
<1> QED BY <1>1, <1>2, <1>3, <1>4, PassStep

LEMMA ResolveStep ==
  ASSUME HostedInv, ResolveModelAPIUsage
  PROVE  HostedInv'
<1> DEFINE h == pass.of
           evidence == reservations[h].evidence
<1>1. h \in HostedRequests
      /\ UNCHANGED <<contractVars, bank, handlers, supplier, prepaid, reservations, hostedFaults>>
      /\ pass' = IF evidence = Unknown THEN PassIdle
                 ELSE [pass EXCEPT !.pc = "apply", !.evidence = evidence]
  BY DEF HostedInv, PassInv, ResolveModelAPIUsage, OnlyThePass
<1>2. evidence \in Outcomes
  BY <1>1, Before DEF RowType
<1>3. pass' \in PassType /\ PassInv'
  <2>1. CASE evidence = Unknown
    BY <1>1, <2>1 DEF PassIdle, PassType, PassInv, Outcomes
  <2>2. CASE evidence # Unknown
    <3>1. /\ pass' \in PassType /\ pass'.pc = "apply" /\ pass'.of = h /\ pass'.evidence = evidence
      BY <1>1, <1>2, <2>2, Parts DEF PassType
    <3> QED BY <1>1, <2>2, <3>1 DEF PassInv
  <2> QED BY <2>1, <2>2
<1> QED BY <1>1, <1>3, Before, Parts, PassStep

LEMMA ApplyStep ==
  ASSUME HostedInv, ApplyEvidence
  PROVE  HostedInv'
<1> DEFINE h == pass.of
           row == [reservations[h] EXCEPT !.state = "released"]
<1>1. h \in HostedRequests /\ pass.evidence # Unknown /\ pass.evidence = reservations[h].evidence
      /\ UNCHANGED <<contractVars, bank, handlers, supplier, hostedFaults>>
      /\ pass' = PassIdle
  BY DEF HostedInv, PassInv, ApplyEvidence, OnlyThePass
<1>2. pass' \in PassType /\ PassInv' /\ hostedFaults' \in 0..MaxHostedFaults
  BY <1>1, Parts DEF PassIdle, PassType, PassInv, Outcomes
<1>3. /\ supplier[h] # Unknown \/ handlers[h].pc = "done"
      /\ pass.evidence = IF supplier[h] = Unknown THEN NoCharge ELSE supplier[h]
  BY <1>1, Before DEF Good, KnowledgeGood
<1>4. CASE pass.evidence = NoCharge /\ CloseHold(h, row, 0) /\ reservations[h].state \in Ambiguous
  <2>1. prepaid' \in Wallet /\ reservations' = [reservations EXCEPT ![h] = row]
    BY <1>1, <1>4, CloseKept
  <2>2. /\ row \in RowType /\ row.state = "released" /\ row.evidence = reservations[h].evidence
        /\ row.version = reservations[h].version /\ row.agreed = reservations[h].agreed
    BY <1>1, Before DEF RowType, Closed
  <2> HIDE DEF row
  <2>3. PositionGood(row, handlers[h], supplier[h])
    BY <1>1, <1>4, <2>2, Before DEF Good, PositionGood, Ambiguous, InFlight
  <2>4. PriceGood(row, handlers[h]) /\ KnowledgeGood(row, handlers[h], supplier[h])
    BY <1>1, <1>4, <2>2, Before DEF Good, PriceGood, KnowledgeGood, Ambiguous, InFlight
  <2>5. ChargeGood(row, handlers[h], supplier[h])
    BY <1>3, <1>4, <2>2 DEF ChargeGood
  <2>6. Good(row, handlers[h], supplier[h])
    BY <2>3, <2>4, <2>5 DEF Good
  <2> QED BY <1>1, <1>2, <2>1, <2>2, <2>6, PassStep
<1>5. CASE UNCHANGED <<prepaid, reservations>>
  BY <1>1, <1>2, <1>5, Before, Parts, PassStep
<1>6. CASE pass.evidence # NoCharge /\ SettleModelAPIUsage(h, pass.evidence)
  <2>1. pass.evidence = supplier[h] /\ pass.evidence \in Units
    BY <1>1, <1>3, <1>6, Parts DEF PassType, Outcomes
  <2>2. pass.evidence \in Int /\ pass.evidence \in 1..supplier[h]
    <3>1. \A u \in Units : u \in Int /\ u \in 1..u
      BY HostedAssumption
    <3> QED BY <2>1, <3>1
  <2>3. PICK new \in RowType :
          /\ reservations' = [reservations EXCEPT ![h] = new] /\ prepaid' \in Wallet
          /\ Good(new, handlers[h], supplier[h])
    BY <1>1, <1>6, <2>2, SettleGood
  <2> QED BY <1>1, <1>2, <2>3, PassStep
<1> QED BY <1>4, <1>5, <1>6 DEF ApplyEvidence, ConfirmNoChargeModelAPIUsage

LEMMA GraceStep ==
  ASSUME HostedInv, NEW h \in HostedRequests, GracePasses(h)
  PROVE  HostedInv'
<1> DEFINE row == [reservations[h] EXCEPT !.stale = TRUE]
<1>1. /\ reservations' = [reservations EXCEPT ![h] = row] /\ prepaid' = prepaid
      /\ UNCHANGED <<contractVars, bank, handlers, supplier, pass, hostedFaults>>
  BY DEF GracePasses, KeepHold, OnlyThePass
<1>2. /\ row \in RowType /\ row.state = reservations[h].state /\ row.evidence = reservations[h].evidence
      /\ row.version = reservations[h].version /\ row.agreed = reservations[h].agreed
      /\ row.actual = reservations[h].actual
  BY Before DEF RowType
<1> HIDE DEF row
<1>3. Good(row, handlers[h], supplier[h])
  BY <1>2, Before DEF Good, PositionGood, PriceGood, KnowledgeGood, ChargeGood
<1>4. pass' \in PassType /\ PassInv' /\ prepaid' \in Wallet /\ hostedFaults' \in 0..MaxHostedFaults
  BY <1>1, <1>2, Parts, PassKept
<1> QED BY <1>1, <1>2, <1>3, <1>4, PassStep

LEMMA OperatorStep ==
  ASSUME HostedInv, NEW h \in HostedRequests, RecordOperatorEvidence(h)
  PROVE  HostedInv'
<1>1. /\ supplier[h] # Unknown \/ handlers[h].pc = "done"
      /\ RecordEvidence(h, Greatest(supplier[h], NoCharge))
      /\ UNCHANGED <<contractVars, bank, handlers, supplier, pass, hostedFaults>>
  BY DEF RecordOperatorEvidence, HandlerAt, OnlyThePass
<1>2. /\ Greatest(supplier[h], NoCharge) \in Outcomes
      /\ Greatest(supplier[h], NoCharge) = IF supplier[h] = Unknown THEN NoCharge ELSE supplier[h]
  BY Before, HostedAssumption DEF Greatest, Outcomes, Unknown, NoCharge
<1>3. PICK row \in RowType :
        /\ reservations' = [reservations EXCEPT ![h] = row] /\ prepaid' \in Wallet
        /\ row.evidence = reservations[h].evidence \/ reservations[h].evidence = Unknown
        /\ Good(row, handlers[h], supplier[h])
  BY <1>1, <1>2, EvidenceGood
<1>4. pass' \in PassType /\ PassInv' /\ hostedFaults' \in 0..MaxHostedFaults
  BY <1>1, <1>3, Parts, PassKept
<1> QED BY <1>1, <1>3, <1>4, PassStep

-----------------------------------------------------------------------------
(* The contract's steps, and those of the bank.                            *)

\* No request is affected by a step that only adds rates.
LEMMA ContractStep ==
  ASSUME HostedInv, HostedTypeOK', ContractInv',
         Len(rates') \in Nat, Len(rates) <= Len(rates'),
         \A v \in 1..Len(rates) : rates'[v] = rates[v],
         UNCHANGED <<reservations, handlers, supplier, pass>>
  PROVE  HostedInv'
<1>1. PassInv'
  BY DEF HostedInv, PassInv
<1>2. ASSUME NEW h \in HostedRequests
      PROVE  Good(reservations[h], handlers[h], supplier[h])'
  <2>1. Good(reservations[h], handlers[h], supplier[h]) /\ Len(rates) \in Nat
    BY Before, Parts
  <2>2. PriceGood(reservations[h], handlers[h])'
    <3>1. handlers[h].version \in Int
      BY Before DEF HandlerType, Versions
    <3>2. handlers'[h].version <= Len(rates')
      BY <2>1, <3>1 DEF Good, PriceGood
    <3> QED BY <2>1, <3>2 DEF Good, PriceGood
  <2> QED BY <2>1, <2>2 DEF Good, PositionGood, KnowledgeGood, ChargeGood
<1> QED BY <1>1, <1>2 DEF HostedInv, RequestsInv

LEMMA PublicationStep ==
  ASSUME HostedInv, NEW price \in Prices, SaveModelAPIOperatorPublication(price)
  PROVE  HostedInv'
<1> DEFINE n == Len(rates)
<1>1. /\ rates' = Append(rates, price) /\ saved < MaxContractChanges /\ saved' = saved + 1
      /\ UNCHANGED <<saving, route, prepaid, bank, reservations, handlers, supplier, pass, hostedFaults>>
  BY DEF SaveModelAPIOperatorPublication, ContractChanges, moneyVars
<1>2. /\ rates \in Seq(Prices) /\ saved \in 0..MaxContractChanges /\ n \in 1..(saved + 1)
      /\ n \in Nat /\ entitlement.version \in 1..n /\ saving \in 0..n /\ route \in 0..n
      /\ entitlement \in [active: BOOLEAN, version: Versions, agreed: Prices]
      /\ (entitlement.active => rates[entitlement.version] <= entitlement.agreed)
  BY Parts DEF HostedInv, HostedTypeOK, ContractInv
<1>3. /\ rates' \in Seq(Prices) /\ Len(rates') = n + 1 /\ rates'[n + 1] = price
      /\ \A v \in 1..n : rates'[v] = rates[v]
  BY <1>1, <1>2
<1>4. /\ n + 1 \in Versions /\ saved' \in 0..MaxContractChanges /\ Len(rates') \in 1..(saved' + 1)
      /\ saving' \in 0..Len(rates') /\ route' \in 0..Len(rates')
  BY <1>1, <1>2, <1>3, HostedAssumption DEF Versions
<1>5. /\ entitlement' \in [active: BOOLEAN, version: Versions, agreed: Prices]
      /\ entitlement'.version \in 1..Len(rates')
      /\ (entitlement'.active => rates'[entitlement'.version] <= entitlement'.agreed)
  <2>1. CASE entitlement' = entitlement
    BY <1>2, <1>3, <2>1
  <2>2. CASE /\ entitlement.active /\ entitlement.version = n /\ price <= rates[n]
             /\ entitlement' = [entitlement EXCEPT !.version = n + 1]
    <3>1. /\ entitlement' \in [active: BOOLEAN, version: Versions, agreed: Prices]
          /\ entitlement'.version = n + 1 /\ entitlement'.agreed = entitlement.agreed
      BY <1>2, <1>4, <2>2
    <3>2. price \in Nat /\ rates[n] \in Nat /\ entitlement.agreed \in Nat
      <4>1. Prices \subseteq Nat
        BY HostedAssumption
      <4> QED BY <1>2, <2>2, <4>1, Parts
    <3>3. price <= entitlement.agreed
      BY <1>2, <2>2, <3>2
    <3> QED BY <1>2, <1>3, <3>1, <3>3
  <2> QED BY <2>1, <2>2 DEF SaveModelAPIOperatorPublication, Published, RateDoesNotIncrease
<1>6. HostedTypeOK'
  BY <1>1, <1>3, <1>4, <1>5 DEF HostedInv, HostedTypeOK
<1>7. ContractInv'
  BY <1>4, <1>5 DEF ContractInv
<1>8. Len(rates) <= Len(rates') /\ Len(rates') \in Nat
  BY <1>2, <1>3
<1> QED BY <1>1, <1>3, <1>6, <1>7, <1>8, ContractStep

LEMMA GrantStep ==
  ASSUME HostedInv, NEW active \in BOOLEAN, SaveModelAPIProductEntitlement(active)
  PROVE  HostedInv'
<1>1. /\ saving # 0 /\ saving' = 0
      /\ entitlement' = [active |-> active, version |-> saving,
                         agreed |-> IF active THEN rates[saving] ELSE entitlement.agreed]
      /\ UNCHANGED <<rates, saved, route, prepaid, bank, reservations, handlers, supplier, pass, hostedFaults>>
  BY DEF SaveModelAPIProductEntitlement, moneyVars
<1>2. saving \in 0..Len(rates) /\ saving \in Versions /\ entitlement.agreed \in Prices
      /\ Len(rates) \in 1..(saved + 1) /\ route \in 0..Len(rates)
  BY DEF HostedInv, HostedTypeOK, ContractInv
<1>3. saving \in 1..Len(rates) /\ 0 \in Versions /\ 0 \in 0..Len(rates)
  BY <1>1, <1>2, Parts, HostedAssumption DEF Versions
<1>4. rates[saving] \in Prices /\ rates[saving] <= rates[saving]
  <2>1. Prices \subseteq Nat
    BY HostedAssumption
  <2>2. rates[saving] \in Prices
    BY <1>3, Parts
  <2>3. rates[saving] \in Nat
    BY <2>1, <2>2
  <2> QED BY <2>2, <2>3
<1>5. /\ entitlement' \in [active: BOOLEAN, version: Versions, agreed: Prices]
      /\ entitlement'.version = saving
      /\ entitlement'.active => rates[saving] <= entitlement'.agreed
  BY <1>1, <1>2, <1>4
<1>6. HostedTypeOK'
  BY <1>1, <1>3, <1>5 DEF HostedInv, HostedTypeOK
<1>7. ContractInv'
  BY <1>1, <1>2, <1>3, <1>5 DEF ContractInv
<1>8. Len(rates') \in Nat /\ Len(rates) <= Len(rates')
  BY <1>1, Parts
<1> QED BY <1>1, <1>6, <1>7, <1>8, ContractStep

LEMMA ReadPublicationStep ==
  ASSUME HostedInv, ReadPublication \/ PublishOnce
  PROVE  HostedInv'
<1>1. /\ UNCHANGED <<rates, entitlement, prepaid, bank, reservations, handlers, supplier, pass, hostedFaults>>
      /\ \/ saved < MaxContractChanges /\ saved' = saved + 1 /\ saving' = Len(rates) /\ route' = route
         \/ UNCHANGED <<saved, saving>> /\ route' \in {0, route, Len(rates)}
  BY DEF ReadPublication, PublishOnce, ContractChanges, Published, moneyVars
<1>2. /\ saved \in 0..MaxContractChanges /\ saving \in 0..Len(rates) /\ route \in 0..Len(rates)
      /\ Len(rates) \in 1..(saved + 1)
      /\ entitlement.version \in 1..Len(rates)
      /\ entitlement.active => rates[entitlement.version] <= entitlement.agreed
  BY DEF HostedInv, HostedTypeOK, ContractInv
<1>3. /\ saved' \in 0..MaxContractChanges /\ saving' \in 0..Len(rates) /\ route' \in 0..Len(rates)
      /\ Len(rates) \in 1..(saved' + 1)
  BY <1>1, <1>2, Parts, HostedAssumption
<1>4. saving' \in Versions /\ route' \in Versions
  BY <1>3, Parts, HostedAssumption DEF Versions
<1>5. HostedTypeOK'
  BY <1>1, <1>3, <1>4 DEF HostedInv, HostedTypeOK
<1>6. ContractInv'
  BY <1>1, <1>2, <1>3 DEF ContractInv
<1>7. Len(rates') \in Nat /\ Len(rates) <= Len(rates')
  BY <1>1, Parts
<1> QED BY <1>1, <1>5, <1>6, <1>7, ContractStep

\* Refunds and payments only change the wallet, failed passes only the pass.
LEMMA BankStep ==
  ASSUME HostedInv, RefundDeposit \/ PayAgain
  PROVE  HostedInv'
<1>1. prepaid \in Wallet /\ Deposit \in Int
  BY Parts, HostedAssumption
<1>2. RefundedWallet(prepaid, Deposit) \in Wallet /\ ApplyManagedCredit(prepaid, Deposit) \in Wallet
  BY <1>1, WalletKept
<1>3. /\ prepaid' \in Wallet /\ bank' \in {"paid", "refunded", "paid again"}
      /\ UNCHANGED <<contractVars, reservations, handlers, supplier, pass, hostedFaults>>
  BY <1>2 DEF RefundDeposit, PayAgain
<1>4. HostedTypeOK'
  BY <1>3 DEF HostedInv, HostedTypeOK, contractVars
<1>5. ContractInv' /\ Len(rates') \in Nat /\ Len(rates) <= Len(rates')
      /\ \A v \in 1..Len(rates) : rates'[v] = rates[v]
  <2>1. UNCHANGED rates /\ ContractInv'
    BY <1>3 DEF HostedInv, ContractInv, contractVars
  <2>2. Len(rates) \in Nat
    BY Parts
  <2> QED BY <2>1, <2>2
<1> QED BY <1>3, <1>4, <1>5, ContractStep

LEMMA FailedPassStep ==
  ASSUME HostedInv, PassFails
  PROVE  HostedInv'
<1>1. /\ pass' = PassIdle /\ hostedFaults' \in 0..MaxHostedFaults
      /\ UNCHANGED <<contractVars, bank, handlers, supplier, prepaid, reservations>>
  BY Parts DEF PassFails, OnlyThePass
<1>2. pass' \in PassType /\ PassInv'
  BY <1>1 DEF PassIdle, PassType, PassInv, Outcomes
<1>3. HostedTypeOK'
  BY <1>1, <1>2 DEF HostedInv, HostedTypeOK, contractVars, PassType
<1>4. ContractInv'
  BY <1>1 DEF HostedInv, ContractInv, contractVars
<1>5. RequestsInv'
  BY <1>1 DEF HostedInv, RequestsInv, Good, PositionGood, PriceGood, KnowledgeGood,
    ChargeGood, contractVars
<1> QED BY <1>2, <1>3, <1>4, <1>5 DEF HostedInv

-----------------------------------------------------------------------------
(* The theorems.                                                           *)

LEMMA InitInv == HostedInit => HostedInv
<1> SUFFICES ASSUME HostedInit PROVE HostedInv
  OBVIOUS
<1>1. PICK p \in Prices : rates = <<p>>
  BY DEF HostedInit
<1>2. p \in Nat /\ Len(rates) = 1 /\ rates[1] = p /\ rates \in Seq(Prices)
  BY <1>1, HostedAssumption
<1>3. 0 \in Versions /\ 1 \in Versions /\ 0 \in 0..MaxContractChanges /\ 0 \in 0..MaxHostedFaults
  BY HostedAssumption DEF Versions
<1>4. Deposit \in Int /\ 0 \in Int
  BY HostedAssumption
<1>5. HostedTypeOK
  <2>1. entitlement \in [active: BOOLEAN, version: Versions, agreed: Prices]
    BY <1>1, <1>2, <1>3 DEF HostedInit
  <2>2. prepaid \in Wallet
    BY <1>4 DEF HostedInit, Wallet
  <2>3. Reservation("none", 0, 0) \in RowType
    BY <1>3 DEF Reservation, RowType, Outcomes
  <2>4. [pc |-> "idle", version |-> 0, usage |-> Unknown, noCharge |-> FALSE] \in HandlerType
    BY <1>3 DEF HandlerType, Unknown
  <2>5. pass \in PassType
    BY DEF HostedInit, PassIdle, PassType, Outcomes
  <2>6. supplier \in [HostedRequests -> Outcomes]
    BY DEF HostedInit, Outcomes
  <2>7. reservations \in [HostedRequests -> RowType] /\ handlers \in [HostedRequests -> HandlerType]
    BY <2>3, <2>4 DEF HostedInit
  <2> QED BY <1>2, <1>3, <2>1, <2>2, <2>5, <2>6, <2>7
    DEF HostedInit, HostedTypeOK, RowType, HandlerType, PassType
<1>6. ContractInv
  BY <1>1, <1>2 DEF HostedInit, ContractInv
<1>7. RequestsInv
  BY <1>2 DEF HostedInit, RequestsInv, Good, PositionGood, PriceGood, KnowledgeGood,
    ChargeGood, Reservation
<1>8. PassInv
  BY DEF HostedInit, PassInv, PassIdle
<1> QED BY <1>5, <1>6, <1>7, <1>8 DEF HostedInv

LEMMA NextInv == HostedInv /\ [HostedNext]_hostedVars => HostedInv'
<1> SUFFICES ASSUME HostedInv, [HostedNext]_hostedVars PROVE HostedInv'
  OBVIOUS
<1>1. CASE Contract
  BY <1>1, PublicationStep, GrantStep, ReadPublicationStep DEF Contract
<1>2. ASSUME NEW h \in HostedRequests,
             \/ AcquireLease(h) \/ Serve(h) \/ GatewayCrashes(h)
             \/ ListReconcileable(h) \/ GracePasses(h) \/ RecordOperatorEvidence(h)
      PROVE  HostedInv'
  BY <1>2, AcquireStep, ServeStep, RefusedStep, ListStep, GraceStep, OperatorStep
<1>3. CASE Reconcile
  BY <1>3, RetainStep, ResolveStep, ApplyStep DEF Reconcile
<1>4. CASE PassFails \/ RefundDeposit \/ PayAgain
  BY <1>4, FailedPassStep, BankStep
<1>5. CASE UNCHANGED hostedVars
  <2>1. UNCHANGED <<contractVars, prepaid, bank, reservations, handlers, supplier, pass, hostedFaults>>
    BY <1>5 DEF hostedVars, moneyVars
  <2>2. HostedTypeOK'
    BY <2>1 DEF HostedInv, HostedTypeOK, contractVars
  <2>3. ContractInv'
    BY <2>1 DEF HostedInv, ContractInv, contractVars
  <2>4. RequestsInv'
    BY <2>1 DEF HostedInv, RequestsInv, Good, PositionGood, PriceGood, KnowledgeGood,
      ChargeGood, contractVars
  <2>5. PassInv'
    BY <2>1 DEF HostedInv, PassInv
  <2> QED BY <2>2, <2>3, <2>4, <2>5 DEF HostedInv
<1> QED BY <1>1, <1>2, <1>3, <1>4, <1>5 DEF HostedNext

\* The state keeps its shape: contract, wallet, reservations, handlers and the
\* reconciler's pass.
THEOREM HostedTypes == HostedSpec => []HostedTypeOK
<1>1. HostedInv => HostedTypeOK
  BY DEF HostedInv
<1> QED BY <1>1, InitInv, NextInv, PTL DEF HostedSpec

\* For any number of requests, prices, contract changes and faults, a customer
\* pays only for what the supplier charged for, at most at the price it agreed
\* to, and a hold is given back only when nothing is charged.
THEOREM CustomerPaysAsServed == HostedSpec => []ChargedAsServed
<1>1. HostedInv => ChargedAsServed
  BY DEF HostedInv, RequestsInv, Good, ChargeGood, ChargedAsServed, HandlerAt
<1> QED BY <1>1, InitInv, NextInv, PTL DEF HostedSpec
-----------------------------------------------------------------------------
(* The books: the wallet against the reservations.                         *)

\* Only a settled reservation has cost anything.
CostInv == \A h \in HostedRequests : reservations[h].state # "settled" => reservations[h].actual = 0

\* HostedBooksBalance, a wallet that owes nothing while it has money, and
\* reservations whose cost is not yet known.
HostedBooks ==
  /\ Sound(prepaid)
  /\ prepaid.reserved = Total(HeldCeilings, HostedRequests)
  /\ Net(prepaid) = Funded - Total(SettledCosts, HostedRequests)
  /\ CostInv

HoldOf(row) == IF OpenHold(row) THEN Ceiling ELSE 0

\* The amounts that the sums are made of.
LEMMA Amounts ==
  ASSUME NEW row \in RowType
  PROVE  row.actual \in Nat /\ HoldOf(row) \in Nat
BY HostedAssumption DEF RowType, HoldOf

\* What becomes of the sums when one reservation changes.
LEMMA SumsMove ==
  ASSUME HostedInv, NEW h \in HostedRequests, NEW row \in RowType,
         reservations' = [reservations EXCEPT ![h] = row]
  PROVE  /\ Total(HeldCeilings, HostedRequests)'
              = Total(HeldCeilings, HostedRequests) - HoldOf(reservations[h]) + HoldOf(row)
         /\ Total(SettledCosts, HostedRequests)'
              = Total(SettledCosts, HostedRequests) - reservations[h].actual + row.actual
         /\ Total(HeldCeilings, HostedRequests) \in Nat /\ Total(SettledCosts, HostedRequests) \in Nat
         /\ HoldOf(reservations[h]) <= Total(HeldCeilings, HostedRequests)
<1>1. reservations \in [HostedRequests -> RowType] /\ IsFiniteSet(HostedRequests)
  BY Parts, HostedAssumption
<1> DEFINE R == [reservations EXCEPT ![h] = row]
           f == HeldCeilings
           g == [x \in HostedRequests |-> HoldOf(R[x])]
           c == SettledCosts
           d == [x \in HostedRequests |-> R[x].actual]
<1>2. R \in [HostedRequests -> RowType] /\ R[h] = row
      /\ \A x \in HostedRequests \ {h} : R[x] = reservations[x]
  BY <1>1
<1> HIDE DEF R
<1>3. /\ \A x \in HostedRequests : f[x] = HoldOf(reservations[x]) /\ c[x] = reservations[x].actual
      /\ \A x \in HostedRequests : g[x] = HoldOf(R[x]) /\ d[x] = R[x].actual
  BY DEF HeldCeilings, SettledCosts, HoldOf
<1>4. HeldCeilings' = g /\ SettledCosts' = d
  BY DEF HeldCeilings, SettledCosts, HoldOf, R, OpenHold
<1> HIDE DEF f, g, c, d
<1>5. \A x \in HostedRequests : f[x] \in Nat /\ g[x] \in Nat /\ c[x] \in Nat /\ d[x] \in Nat
  BY <1>1, <1>2, <1>3, Amounts
<1>6. \A x \in HostedRequests \ {h} : f[x] = g[x] /\ c[x] = d[x]
  BY <1>2, <1>3
<1>7. /\ Total(g, HostedRequests) = Total(f, HostedRequests) - f[h] + g[h]
      /\ Total(f, HostedRequests) \in Nat
  BY <1>1, <1>5, <1>6, TotalChange
<1>8. /\ Total(d, HostedRequests) = Total(c, HostedRequests) - c[h] + d[h]
      /\ Total(c, HostedRequests) \in Nat
  BY <1>1, <1>5, <1>6, TotalChange
<1>9. f[h] <= Total(f, HostedRequests)
  <2>1. Total(f, HostedRequests) = Total(f, HostedRequests \ {h}) + f[h] /\ Total(f, HostedRequests \ {h}) \in Nat
    BY <1>1, <1>5, TotalSplit
  <2> QED BY <1>5, <2>1
<1>10. /\ Total(HeldCeilings, HostedRequests)' = Total(g, HostedRequests)
       /\ Total(SettledCosts, HostedRequests)' = Total(d, HostedRequests)
  BY <1>4 DEF Total, Pieces
<1>11. f[h] = HoldOf(reservations[h]) /\ g[h] = HoldOf(row) /\ c[h] = reservations[h].actual /\ d[h] = row.actual
  BY <1>2, <1>3
<1> QED BY <1>7, <1>8, <1>9, <1>10, <1>11 DEF f, c

\* A step whose wallet moves with the reservation keeps the books.
LEMMA RowBooks ==
  ASSUME HostedInv, HostedBooks, NEW h \in HostedRequests, NEW row \in RowType,
         reservations' = [reservations EXCEPT ![h] = row], bank' = bank,
         row.state # "settled" => row.actual = 0,
         Sound(prepaid'),
         prepaid'.reserved = prepaid.reserved - HoldOf(reservations[h]) + HoldOf(row),
         Net(prepaid') = Net(prepaid) + reservations[h].actual - row.actual
  PROVE  HostedBooks'
<1>1. reservations \in [HostedRequests -> RowType] /\ reservations[h] \in RowType
  BY Parts
<1>2. CostInv'
  BY <1>1 DEF CostInv, HostedBooks
<1> DEFINE held == Total(HeldCeilings, HostedRequests)
           cost == Total(SettledCosts, HostedRequests)
           fund == Funded
           paid == reservations[h].actual
           net == Net(prepaid)
<1>3. /\ held' = held - HoldOf(reservations[h]) + HoldOf(row)
      /\ cost' = cost - paid + row.actual
      /\ cost \in Nat
  BY SumsMove
<1>4. prepaid.reserved = held /\ net = fund - cost /\ fund' = fund
  BY DEF HostedBooks, Funded
<1>5. paid \in Nat /\ row.actual \in Nat /\ fund \in Int
  BY <1>1, Amounts, HostedAssumption DEF Funded
<1>6. Net(prepaid') = net + paid - row.actual
  OBVIOUS
<1>7. prepaid'.reserved = held'
  BY <1>3, <1>4
<1> HIDE DEF held, cost, fund, paid, net
<1>8. Net(prepaid') = fund' - cost'
  BY <1>3, <1>4, <1>5, <1>6
<1> QED BY <1>2, <1>7, <1>8 DEF HostedBooks, held, cost, fund

\* A reservation that stays open, or stays closed, at the same cost.
LEMMA KeepBooks ==
  ASSUME HostedInv, HostedBooks, NEW h \in HostedRequests, NEW row \in RowType,
         KeepHold(h, row), bank' = bank,
         OpenHold(row) <=> OpenHold(reservations[h]),
         row.actual = reservations[h].actual,
         row.state = "settled" <=> reservations[h].state = "settled"
  PROVE  HostedBooks'
<1>1. reservations' = [reservations EXCEPT ![h] = row] /\ prepaid' = prepaid
  BY DEF KeepHold
<1>2. HoldOf(row) = HoldOf(reservations[h]) /\ HoldOf(row) \in Nat /\ row.actual \in Nat
  BY Amounts DEF HoldOf
<1>3. row.state # "settled" => row.actual = 0
  BY DEF HostedBooks, CostInv
<1>4. prepaid \in Wallet /\ prepaid.reserved \in Int /\ Net(prepaid) \in Int /\ Sound(prepaid')
  BY <1>1, Parts DEF Wallet, Net, HostedBooks
<1>5. prepaid'.reserved = prepaid.reserved - HoldOf(reservations[h]) + HoldOf(row)
  BY <1>1, <1>2, <1>4
<1>6. Net(prepaid') = Net(prepaid) + reservations[h].actual - row.actual
  BY <1>1, <1>2, <1>4
<1> QED BY <1>1, <1>3, <1>4, <1>5, <1>6, RowBooks

\* Closing an open reservation for at most its ceiling.
LEMMA CloseBooks ==
  ASSUME HostedInv, HostedBooks, NEW h \in HostedRequests, NEW row \in RowType, NEW actual \in Nat,
         CloseHold(h, row, actual), bank' = bank,
         actual <= Ceiling, OpenHold(reservations[h]), ~OpenHold(row),
         row.actual = actual, row.state # "settled" => actual = 0
  PROVE  HostedBooks'
<1>1. Ceiling \in Nat /\ prepaid \in Wallet /\ reservations[h] \in RowType
  BY Parts, HostedAssumption
<1>2. prepaid.balance \in Int /\ prepaid.reserved \in Int /\ prepaid.debt \in Int
  BY <1>1 DEF Wallet
<1> DEFINE b == prepaid.balance - actual
           r == prepaid.reserved - Ceiling
           w == [prepaid EXCEPT !.balance = b, !.reserved = r]
<1>3. b \in Int /\ r \in Int
  BY <1>1, <1>2
<1>4. prepaid' = ReconcileManagedDebt(w) /\ reservations' = [reservations EXCEPT ![h] = row]
  BY DEF CloseHold
<1>5. HoldOf(reservations[h]) = Ceiling /\ HoldOf(row) = 0 /\ reservations[h].actual = 0
  BY DEF HoldOf, HostedBooks, CostInv, OpenHold, Ambiguous, InFlight
<1>6. Ceiling <= prepaid.reserved
  BY <1>5, SumsMove, <1>4 DEF HostedBooks
<1>7. w \in Wallet /\ w.balance = b /\ w.reserved = r /\ w.debt = prepaid.debt
  <2> HIDE DEF b, r
  <2> QED BY <1>1, <1>3 DEF Wallet
<1> HIDE DEF w
<1>8. WalletCheck(w) /\ Net(w) = Net(prepaid) - actual
  BY <1>1, <1>2, <1>6, <1>7 DEF HostedBooks, Sound, WalletCheck, Net
<1>9. /\ Sound(prepaid') /\ Net(prepaid') = Net(prepaid) - actual
      /\ prepaid'.reserved = prepaid.reserved - Ceiling
  BY <1>4, <1>7, <1>8, ReconcileSound
<1>10. Net(prepaid) \in Int
  BY <1>2 DEF Net
<1>11. /\ Net(prepaid') = Net(prepaid) + reservations[h].actual - row.actual
       /\ prepaid'.reserved = prepaid.reserved - HoldOf(reservations[h]) + HoldOf(row)
  BY <1>1, <1>2, <1>5, <1>9, <1>10
<1> QED BY <1>4, <1>5, <1>9, <1>11, RowBooks

\* Steps that touch neither the wallet nor a reservation.
LEMMA SameBooks ==
  ASSUME HostedBooks, UNCHANGED <<prepaid, bank, reservations>>
  PROVE  HostedBooks'
<1>1. HeldCeilings' = HeldCeilings /\ SettledCosts' = SettledCosts /\ Funded' = Funded
  BY DEF HeldCeilings, SettledCosts, Funded, OpenHold
<1>2. /\ Total(HeldCeilings, HostedRequests)' = Total(HeldCeilings, HostedRequests)
      /\ Total(SettledCosts, HostedRequests)' = Total(SettledCosts, HostedRequests)
  BY <1>1 DEF Total, Pieces
<1>3. CostInv'
  BY DEF HostedBooks, CostInv
<1> QED BY <1>1, <1>2, <1>3 DEF HostedBooks

\* Settling reported usage, or none that anyone knows of.
LEMMA SettleBooks ==
  ASSUME HostedInv, HostedBooks, NEW h \in HostedRequests, NEW usage \in Int,
         usage = Unknown \/ usage \in Nat,
         SettleModelAPIUsage(h, usage), bank' = bank
  PROVE  HostedBooks'
<1> DEFINE old == reservations[h]
           actual == Least(usage * rates[old.version], Ceiling)
<1>1. old \in RowType /\ Good(old, handlers[h], supplier[h])
  BY Before
<1>2. CASE old.state \notin Ambiguous
  BY <1>2, SameBooks DEF SettleModelAPIUsage
<1>3. CASE old.state \in Ambiguous /\ usage = Unknown
  <2> DEFINE row == [old EXCEPT !.state = "pending_reconciliation"]
  <2>1. KeepHold(h, row)
    BY <1>3 DEF SettleModelAPIUsage
  <2>2. row \in RowType /\ row.state = "pending_reconciliation" /\ row.actual = old.actual
    BY <1>1 DEF RowType, Ambiguous
  <2> HIDE DEF row
  <2>3. OpenHold(row) /\ OpenHold(old) /\ old.state # "settled"
    BY <1>3, <2>2 DEF OpenHold, Ambiguous, InFlight
  <2> QED BY <2>1, <2>2, <2>3, KeepBooks
<1>4. CASE old.state \in Ambiguous /\ usage # Unknown
  <2> DEFINE row == [old EXCEPT !.state = "settled", !.actual = actual]
  <2>1. old.version \in 1..Len(rates) /\ rates[old.version] \in Nat
    <3>1. old.version \in 1..Len(rates)
      BY <1>1, <1>4 DEF Good, PriceGood, Ambiguous, InFlight
    <3>2. Prices \subseteq Nat
      BY HostedAssumption
    <3> QED BY <3>1, <3>2, Parts
  <2>2. usage * rates[old.version] \in Nat
    <3> DEFINE p == rates[old.version]
    <3>1. p \in Nat /\ usage \in Nat
      BY <1>4, <2>1
    <3> HIDE DEF p
    <3>2. usage * p \in Nat
      BY <3>1
    <3> QED BY <3>2 DEF p
  <2>3. actual \in Nat /\ actual <= Ceiling
    BY <2>2, HostedAssumption DEF Least
  <2>4. CloseHold(h, row, actual)
    BY <1>4 DEF SettleModelAPIUsage
  <2> HIDE DEF actual
  <2>5. row \in RowType /\ row.state = "settled" /\ row.actual = actual
    BY <1>1, <2>3 DEF RowType, Closed
  <2> HIDE DEF row
  <2>6. ~OpenHold(row) /\ OpenHold(old)
    BY <1>4, <2>5 DEF OpenHold, Ambiguous, InFlight
  <2> QED BY <2>3, <2>4, <2>5, <2>6, CloseBooks
<1> QED BY <1>2, <1>3, <1>4

\* Giving the whole ceiling back.
LEMMA ReleaseBooks ==
  ASSUME HostedInv, HostedBooks, NEW h \in HostedRequests, OpenHold(reservations[h]),
         CloseHold(h, [reservations[h] EXCEPT !.state = "released"], 0), bank' = bank
  PROVE  HostedBooks'
<1> DEFINE row == [reservations[h] EXCEPT !.state = "released"]
<1>1. reservations[h] \in RowType /\ reservations[h].actual = 0
  BY Before DEF HostedBooks, CostInv, OpenHold, Ambiguous, InFlight
<1>2. row \in RowType /\ row.state = "released" /\ row.actual = 0
  BY <1>1 DEF RowType, Closed
<1>3. CloseHold(h, row, 0) /\ 0 \in Nat /\ 0 <= Ceiling
  BY HostedAssumption
<1> HIDE DEF row
<1>4. ~OpenHold(row)
  BY <1>2 DEF OpenHold, Ambiguous, InFlight
<1> QED BY <1>2, <1>3, <1>4, CloseBooks

\* Recording evidence.
LEMMA EvidenceBooks ==
  ASSUME HostedInv, HostedBooks, NEW h \in HostedRequests, NEW outcome \in Outcomes,
         RecordEvidence(h, outcome), bank' = bank
  PROVE  HostedBooks'
<1> DEFINE row == [reservations[h] EXCEPT !.evidence = outcome]
<1>1. reservations[h] \in RowType
  BY Before
<1>2. /\ row \in RowType /\ row.state = reservations[h].state /\ row.actual = reservations[h].actual
  BY <1>1 DEF RowType
<1>3. KeepHold(h, row) \/ UNCHANGED <<prepaid, reservations>>
  BY DEF RecordEvidence
<1> HIDE DEF row
<1>4. OpenHold(row) <=> OpenHold(reservations[h])
  BY <1>2 DEF OpenHold
<1> QED BY <1>2, <1>3, <1>4, KeepBooks, SameBooks

\* A ceiling is reserved from money that is neither held nor owed.
LEMMA ReserveBooks ==
  ASSUME HostedInv, HostedBooks, NEW h \in HostedRequests, ReserveCeiling(h)
  PROVE  HostedBooks'
<1> DEFINE row == Reservation("reserved", handlers[h].version, entitlement.agreed)
           r == prepaid.reserved + Ceiling
<1>1. /\ reservations' = [reservations EXCEPT ![h] = row] /\ handlers[h].pc = "leased"
      /\ prepaid' = [prepaid EXCEPT !.reserved = r] /\ bank' = bank
      /\ Spendable(prepaid) >= Ceiling
  BY DEF ReserveCeiling, OnlyTheRequest, HandlerAt, ReserveModelAPIUsage, ReserveAuthorized
<1>2. prepaid \in Wallet /\ Ceiling \in Nat /\ Ceiling > 0 /\ handlers[h] \in HandlerType
  BY Parts, HostedAssumption
<1>3. prepaid.balance \in Int /\ prepaid.reserved \in Int /\ prepaid.debt \in Int
  BY <1>2 DEF Wallet
<1>4. entitlement.agreed \in Prices /\ handlers[h].version \in Versions
  BY <1>2 DEF HostedInv, HostedTypeOK, HandlerType
<1>5. row \in RowType /\ row.state = "reserved" /\ row.actual = 0
  BY <1>4 DEF RowType, Reservation, Outcomes
<1>6. reservations[h].state = "none"
  BY <1>1, Before DEF Good, PositionGood
<1>7. HoldOf(reservations[h]) = 0 /\ reservations[h].actual = 0
  BY <1>6 DEF HoldOf, OpenHold, Ambiguous, InFlight, HostedBooks, CostInv
<1> HIDE DEF row
<1>8. HoldOf(row) = Ceiling
  BY <1>5 DEF HoldOf, OpenHold
<1>9. r \in Int
  BY <1>2, <1>3
<1>10. /\ prepaid' \in Wallet /\ prepaid'.balance = prepaid.balance
       /\ prepaid'.debt = prepaid.debt /\ prepaid'.reserved = r
  <2> HIDE DEF r
  <2> QED BY <1>1, <1>2, <1>9 DEF Wallet
<1>11. Sound(prepaid') /\ Net(prepaid') = Net(prepaid) /\ Net(prepaid) \in Int
  BY <1>1, <1>2, <1>3, <1>10 DEF HostedBooks, Sound, WalletCheck, SpentOut, Net, Spendable
<1>12. /\ prepaid'.reserved = prepaid.reserved - HoldOf(reservations[h]) + HoldOf(row)
       /\ Net(prepaid') = Net(prepaid) + reservations[h].actual - row.actual
  BY <1>2, <1>3, <1>5, <1>7, <1>8, <1>10, <1>11
<1> QED BY <1>1, <1>5, <1>11, <1>12, RowBooks

\* The marks of the request path and the grace period keep the hold.
LEMMA MarkBooks ==
  ASSUME HostedInv, HostedBooks, NEW h \in HostedRequests, bank' = bank,
         NEW from \in {"reserved", "transmitted"}, NEW to \in InFlight,
         KeepHold(h, Advanced(reservations[h], from, to))
  PROVE  HostedBooks'
<1> DEFINE row == Advanced(reservations[h], from, to)
<1>1. reservations[h] \in RowType
  BY Before
<1>2. /\ row \in RowType /\ row.actual = reservations[h].actual
      /\ row.state = reservations[h].state \/ (reservations[h].state = from /\ row.state = to)
  BY <1>1 DEF RowType, Advanced, Ambiguous
<1>3. KeepHold(h, row)
  OBVIOUS
<1> HIDE DEF row
<1>4. /\ OpenHold(row) <=> OpenHold(reservations[h])
      /\ row.state = "settled" <=> reservations[h].state = "settled"
  BY <1>2 DEF OpenHold, Ambiguous, InFlight
<1> QED BY <1>2, <1>3, <1>4, KeepBooks

LEMMA GraceBooks ==
  ASSUME HostedInv, HostedBooks, NEW h \in HostedRequests, GracePasses(h)
  PROVE  HostedBooks'
<1> DEFINE row == [reservations[h] EXCEPT !.stale = TRUE]
<1>1. reservations[h] \in RowType /\ KeepHold(h, row) /\ bank' = bank
  BY Before DEF GracePasses, OnlyThePass
<1>2. row \in RowType /\ row.actual = reservations[h].actual /\ row.state = reservations[h].state
  BY <1>1 DEF RowType
<1> HIDE DEF row
<1>3. OpenHold(row) <=> OpenHold(reservations[h])
  BY <1>2 DEF OpenHold
<1> QED BY <1>1, <1>2, <1>3, KeepBooks

\* A refund and a new payment change what was funded by the deposit.
LEMMA BankBooks ==
  ASSUME HostedInv, HostedBooks, RefundDeposit \/ PayAgain
  PROVE  HostedBooks'
<1>1. Deposit \in Nat /\ Sound(prepaid) /\ Net(prepaid) \in Int /\ reservations' = reservations
  <2>1. prepaid \in Wallet /\ Deposit \in Nat /\ Sound(prepaid)
    BY Parts, HostedAssumption DEF HostedBooks
  <2>2. Net(prepaid) \in Int
    BY <2>1 DEF Wallet, Net
  <2> QED BY <2>1, <2>2 DEF RefundDeposit, PayAgain
<1>2. HeldCeilings' = HeldCeilings /\ SettledCosts' = SettledCosts /\ CostInv'
  BY <1>1 DEF HeldCeilings, SettledCosts, OpenHold, HostedBooks, CostInv
<1> DEFINE held == Total(HeldCeilings, HostedRequests)
           cost == Total(SettledCosts, HostedRequests)
<1>3. held' = held /\ cost' = cost
  BY <1>2 DEF Total, Pieces
<1>4. cost \in Nat
  <2>1. reservations \in [HostedRequests -> RowType] /\ IsFiniteSet(HostedRequests)
    BY Parts, HostedAssumption
  <2>2. \A h \in HostedRequests : SettledCosts[h] \in Nat
    BY <2>1, Amounts DEF SettledCosts
  <2> QED BY <2>1, <2>2, TotalType
<1>5. prepaid.reserved = held /\ Net(prepaid) = Funded - cost
  BY DEF HostedBooks
<1> HIDE DEF held, cost
<1>6. CASE RefundDeposit
  <2>1. prepaid' = RefundedWallet(prepaid, Deposit) /\ Funded = Deposit /\ Funded' = 0
    BY <1>6 DEF RefundDeposit, Funded
  <2>2. Sound(prepaid') /\ Net(prepaid') = Net(prepaid) - Deposit /\ prepaid'.reserved = prepaid.reserved
    BY <1>1, <2>1, RefundSound
  <2>3. Net(prepaid') = Funded' - cost'
    BY <1>1, <1>3, <1>4, <1>5, <2>1, <2>2
  <2> QED BY <1>2, <1>3, <1>5, <2>2, <2>3 DEF HostedBooks, held, cost
<1>7. CASE PayAgain
  <2>1. prepaid' = ApplyManagedCredit(prepaid, Deposit) /\ Funded = 0 /\ Funded' = Deposit
    BY <1>7 DEF PayAgain, Funded
  <2>2. Sound(prepaid') /\ Net(prepaid') = Net(prepaid) + Deposit /\ prepaid'.reserved = prepaid.reserved
    BY <1>1, <2>1, CreditSound
  <2>3. Net(prepaid') = Funded' - cost'
    BY <1>1, <1>3, <1>4, <1>5, <2>1, <2>2
  <2> QED BY <1>2, <1>3, <1>5, <2>2, <2>3 DEF HostedBooks, held, cost
<1> QED BY <1>6, <1>7

\* The request path.
LEMMA ServeBooks ==
  ASSUME HostedInv, HostedBooks, NEW h \in HostedRequests, Serve(h)
  PROVE  HostedBooks'
<1>1. bank' = bank
  BY DEF Serve, OnlyTheRequest, Refused, ReserveCeiling, AbandonUnsent, MarkTransmitted, Send,
    SendFails, MarkResponseStarted, ReadResponse, Settle, RecordReconciliationEvidence
<1>2. CASE Refused(h) \/ Send(h) \/ SendFails(h) \/ ReadResponse(h)
  BY <1>1, <1>2, SameBooks DEF Refused, Send, SendFails, ReadResponse
<1>3. CASE AbandonUnsent(h)
  <2>1. CASE UNCHANGED <<prepaid, reservations>>
    BY <1>1, <2>1, SameBooks
  <2>2. CASE ReleaseUnsentModelAPIUsage(h)
    BY <1>1, <2>1, <2>2, ReleaseBooks DEF ReleaseUnsentModelAPIUsage, OpenHold
  <2> QED BY <1>3, <2>1, <2>2 DEF AbandonUnsent
<1>4. CASE MarkTransmitted(h)
  BY <1>1, <1>4, MarkBooks DEF MarkTransmitted, InFlight
<1>5. CASE MarkResponseStarted(h)
  <2>1. CASE UNCHANGED <<prepaid, reservations>>
    BY <1>1, <2>1, SameBooks
  <2>2. CASE KeepHold(h, Advanced(reservations[h], "transmitted", "response_started"))
    BY <1>1, <2>2, MarkBooks DEF InFlight
  <2> QED BY <1>5, <2>1, <2>2 DEF MarkResponseStarted
<1>6. CASE Settle(h)
  <2>1. handlers[h].usage \in Int /\ (handlers[h].usage = Unknown \/ handlers[h].usage \in Nat)
    <3>1. handlers[h] \in HandlerType /\ supplier[h] \in Int
      BY Before, HostedAssumption DEF Outcomes, Unknown, NoCharge
    <3> QED BY <3>1, Before DEF HandlerType, Good, KnowledgeGood
  <2>2. CASE UNCHANGED <<prepaid, reservations>>
    BY <1>1, <2>2, SameBooks
  <2>3. CASE SettleModelAPIUsage(h, handlers[h].usage)
    BY <1>1, <2>1, <2>3, SettleBooks
  <2> QED BY <1>6, <2>2, <2>3 DEF Settle
<1>7. CASE RecordReconciliationEvidence(h)
  <2>1. CASE UNCHANGED <<prepaid, reservations>>
    BY <1>1, <2>1, SameBooks
  <2>2. CASE RecordEvidence(h, NoCharge)
    BY <1>1, <2>2, EvidenceBooks DEF Outcomes
  <2> QED BY <1>7, <2>1, <2>2 DEF RecordReconciliationEvidence
<1> QED BY <1>2, <1>3, <1>4, <1>5, <1>6, <1>7, ReserveBooks DEF Serve

\* The reconciler.
LEMMA ReconcileBooks ==
  ASSUME HostedInv, HostedBooks, Reconcile
  PROVE  HostedBooks'
<1>1. bank' = bank
  BY DEF Reconcile, OnlyThePass, Retain, ResolveModelAPIUsage, ApplyEvidence
<1>2. CASE Retain
  <2>1. pass.of \in HostedRequests /\ SettleModelAPIUsage(pass.of, Unknown)
    BY <1>2 DEF Retain, HostedInv, PassInv
  <2>2. Unknown \in Int
    BY DEF Unknown
  <2> QED BY <1>1, <2>1, <2>2, SettleBooks
<1>3. CASE ResolveModelAPIUsage
  BY <1>1, <1>3, SameBooks DEF ResolveModelAPIUsage
<1>4. CASE ApplyEvidence
  <2>1. pass.of \in HostedRequests /\ pass.evidence # Unknown /\ pass.evidence \in Outcomes
    BY <1>4, Parts DEF ApplyEvidence, HostedInv, PassInv, PassType
  <2>2. CASE pass.evidence = NoCharge
    <3>1. ConfirmNoChargeModelAPIUsage(pass.of)
      BY <1>4, <2>2 DEF ApplyEvidence
    <3> QED BY <1>1, <2>1, <3>1, ReleaseBooks, SameBooks DEF ConfirmNoChargeModelAPIUsage, OpenHold
  <2>3. CASE pass.evidence # NoCharge
    <3>1. SettleModelAPIUsage(pass.of, pass.evidence)
      BY <1>4, <2>3 DEF ApplyEvidence
    <3>2. pass.evidence \in Nat /\ pass.evidence \in Int
      <4>1. pass.evidence \in Units /\ Units \subseteq Nat
        BY <2>1, <2>3, HostedAssumption DEF Outcomes
      <4>2. pass.evidence \in Nat
        BY <4>1, Zenon
      <4> QED BY <4>2
    <3> QED BY <1>1, <2>1, <3>1, <3>2, SettleBooks
  <2> QED BY <2>2, <2>3
<1> QED BY <1>2, <1>3, <1>4 DEF Reconcile

LEMMA NextBooks == HostedInv /\ HostedBooks /\ [HostedNext]_hostedVars => HostedBooks'
<1> SUFFICES ASSUME HostedInv, HostedBooks, [HostedNext]_hostedVars PROVE HostedBooks'
  OBVIOUS
<1>1. CASE Contract \/ PassFails \/ UNCHANGED hostedVars
  BY <1>1, SameBooks DEF Contract, SaveModelAPIOperatorPublication, ReadPublication,
    SaveModelAPIProductEntitlement, PublishOnce, PassFails, OnlyThePass, hostedVars, moneyVars
<1>2. ASSUME NEW h \in HostedRequests, AcquireLease(h) \/ GatewayCrashes(h) \/ ListReconcileable(h)
      PROVE  HostedBooks'
  BY <1>2, SameBooks DEF AcquireLease, GatewayCrashes, ListReconcileable, OnlyTheRequest,
    OnlyThePass
<1>3. ASSUME NEW h \in HostedRequests, RecordOperatorEvidence(h)
      PROVE  HostedBooks'
  <2>1. RecordEvidence(h, Greatest(supplier[h], NoCharge)) /\ bank' = bank
    BY <1>3 DEF RecordOperatorEvidence, OnlyThePass
  <2>2. Greatest(supplier[h], NoCharge) \in Outcomes
    BY Before DEF Greatest, Outcomes, NoCharge
  <2> QED BY <2>1, <2>2, EvidenceBooks
<1> QED BY <1>1, <1>2, <1>3, ServeBooks, GraceBooks, ReconcileBooks, BankBooks DEF HostedNext

LEMMA InitBooks == HostedInit => HostedBooks
<1> SUFFICES ASSUME HostedInit PROVE HostedBooks
  OBVIOUS
<1>1. \A h \in HostedRequests : reservations[h].state = "none" /\ reservations[h].actual = 0
  BY DEF HostedInit, Reservation
<1>2. \A h \in HostedRequests : HeldCeilings[h] = 0 /\ SettledCosts[h] = 0
  BY <1>1 DEF HeldCeilings, SettledCosts, OpenHold, Ambiguous, InFlight
<1>3. Total(HeldCeilings, HostedRequests) = 0 /\ Total(SettledCosts, HostedRequests) = 0
  BY <1>2, TotalZero
<1>4. Deposit \in Nat /\ Funded = Deposit /\ prepaid = [balance |-> Deposit, reserved |-> 0, debt |-> 0]
  BY HostedAssumption DEF HostedInit, Funded
<1>5. Sound(prepaid) /\ prepaid.reserved = 0 /\ Net(prepaid) = Deposit
  BY <1>4 DEF Sound, Wallet, WalletCheck, SpentOut, Net
<1> QED BY <1>1, <1>3, <1>4, <1>5 DEF HostedBooks, CostInv

\* Whatever order the request path, the reconciler and the bank come in, the
\* wallet reserves exactly the open ceilings and has lost exactly what the
\* settled reservations cost.
THEOREM HostedBooksHold == HostedSpec => []HostedBooksBalance
<1>1. HostedBooks => HostedBooksBalance
  BY DEF HostedBooks, HostedBooksBalance, Sound, Net
<1> QED BY <1>1, InitInv, NextInv, InitBooks, NextBooks, PTL DEF HostedSpec
=============================================================================
