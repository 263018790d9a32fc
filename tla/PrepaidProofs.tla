--------------------------- MODULE PrepaidProofs ----------------------------
(***************************************************************************)
(* Machine-checked proofs about prepaid money: FundingIntent, for any      *)
(* keys, calls, amounts, sessions and faults, and ManagedWallet, for any   *)
(* tenants, payments, events and holds of any size.                        *)
(***************************************************************************)
EXTENDS FundingIntent, ManagedWallet, AccountingProofs

-----------------------------------------------------------------------------
(* Checkouts.                                                              *)

\* The initial state satisfies the inductive invariant.
LEMMA InitFunding == FundingInit => FundingInv
  BY FundingConstants DEF FundingInit, FundingInv, FundingTypeOK, HandedOutIsDurable,
    NoIntent, Intent, Call

\* The row a call adopts: its own new row, or the stored one.
LEMMA AdoptedRow ==
  ASSUME FundingInv, NEW c \in Calls
  PROVE  /\ Adopted(c) \in Intent
         /\ Adopted(c).status # "absent"
         /\ (Adopted(c).status = "completed") <=> (Adopted(c).session # 0)
         /\ Adopted(c).status = "completed" => Adopted(c) = intent[KeyOf[c]]
         /\ intent[KeyOf[c]].status # "absent" => Adopted(c) = intent[KeyOf[c]]
  BY FundingConstants DEF FundingInv, FundingTypeOK, Adopted, NoIntent, Intent

\* Preparing an intent disturbs no other call: the row's amount and session are
\* set only when the row is created, and no call is in progress on an absent row.
LEMMA PrepareInv == ASSUME FundingInv, NEW c \in Calls, Prepare(c) PROVE FundingInv'
<1> DEFINE k == KeyOf[c]
<1> DEFINE row == Adopted(c)
<1>1. k \in Keys
  BY FundingConstants
<1>2. intent \in [Keys -> Intent] /\ call \in [Calls -> Call]
  BY DEF FundingInv, FundingTypeOK
<1>3. UNCHANGED <<remembered, minted, callFaults>>
  BY DEF Prepare
<1>4. \/ /\ intent' = intent
         /\ call' = [call EXCEPT ![c] = [pc |-> "done", session |-> 0, answer |-> "conflict"]]
      \/ /\ intent' = intent
         /\ call' = [call EXCEPT ![c] = [pc |-> "done", session |-> 0, answer |-> "in_progress"]]
      \/ /\ intent' = intent
         /\ row.amount = AmountOf[c] /\ row.status = "completed"
         /\ call' = [call EXCEPT ![c] = [pc |-> "done", session |-> row.session, answer |-> "checkout"]]
      \/ /\ row.amount = AmountOf[c] /\ row.status = "pending"
         /\ intent' = [intent EXCEPT ![k] = [row EXCEPT !.token = c, !.live = TRUE]]
         /\ call' = [call EXCEPT ![c] = [@ EXCEPT !.pc = "creating"]]
  BY DEF Prepare, Answered
<1>5. call[c].pc = "idle"
  BY DEF Prepare
<1>6. CASE /\ intent' = intent
           /\ \E a \in {"conflict", "in_progress"} :
                call' = [call EXCEPT ![c] = [pc |-> "done", session |-> 0, answer |-> a]]
  BY <1>1, <1>2, <1>3, <1>6, FundingConstants DEF FundingInv, FundingTypeOK,
    HandedOutIsDurable, Call
<1>7. CASE /\ intent' = intent
           /\ row.amount = AmountOf[c] /\ row.status = "completed"
           /\ call' = [call EXCEPT ![c] = [pc |-> "done", session |-> row.session, answer |-> "checkout"]]
  <2>1. row = intent[k] /\ row \in Intent /\ row.session # 0 /\ row.session \in Nat
    BY <1>7, AdoptedRow DEF Intent
  <2> HIDE DEF row
  <2> QED
    BY <1>1, <1>2, <1>3, <1>7, <2>1, FundingConstants DEF FundingInv, FundingTypeOK,
      HandedOutIsDurable, Call
<1>8. CASE /\ row.amount = AmountOf[c] /\ row.status = "pending"
           /\ intent' = [intent EXCEPT ![k] = [row EXCEPT !.token = c, !.live = TRUE]]
           /\ call' = [call EXCEPT ![c] = [@ EXCEPT !.pc = "creating"]]
  <2>1. row \in Intent /\ row.session = 0 /\ row.status # "completed"
    BY <1>8, AdoptedRow DEF Intent
  <2>2. intent[k].status # "absent" => row = intent[k]
    BY AdoptedRow
  <2> HIDE DEF row
  <2> DEFINE new == [row EXCEPT !.token = c, !.live = TRUE]
  <2>3. /\ new \in Intent /\ new.status = "pending" /\ new.session = 0
        /\ new.amount = AmountOf[c] /\ new.token = c
    BY <1>8, <2>1 DEF Intent
  <2>4. intent[k].status # "absent" => intent[k].amount = new.amount /\ intent[k].status = "pending"
    BY <1>8, <2>2, <2>3
  <2>5. intent' = [intent EXCEPT ![k] = new]
    BY <1>8
  <2> HIDE DEF new
  <2>6. FundingTypeOK'
    <3>1. intent' \in [Keys -> Intent]
      BY <1>1, <1>2, <2>3, <2>5
    <3>2. call' \in [Calls -> Call]
      BY <1>2, <1>8 DEF Call
    <3>3. \A j \in Keys : /\ (intent'[j].status = "completed") <=> (intent'[j].session # 0)
                          /\ intent'[j].status # "pending" => intent'[j].token = None
      BY <1>1, <1>2, <2>3, <2>5 DEF FundingInv, FundingTypeOK
    <3> QED
      BY <1>3, <3>1, <3>2, <3>3 DEF FundingInv, FundingTypeOK
  <2>7. HandedOutIsDurable'
    BY <1>1, <1>2, <1>5, <1>8, <2>3, <2>4, <2>5, FundingConstants DEF FundingInv,
      FundingTypeOK, HandedOutIsDurable, Call
  <2> QED
    BY <1>1, <1>2, <1>5, <1>8, <2>3, <2>4, <2>5, <2>6, <2>7, FundingConstants DEF FundingInv, Call
<1> QED
  BY <1>4, <1>6, <1>7, <1>8

\* Completion records a session for a pending row, so no answer given before
\* can refer to the row.
LEMMA CompletionInv ==
  ASSUME FundingInv, NEW c \in Calls, call[c].pc = "completing",
         MayComplete(KeyOf[c], c), intent' = CompletedBy(KeyOf[c], c),
         UNCHANGED <<remembered, minted>>, callFaults' \in 0..MaxCallFaults,
         \/ call' = [call EXCEPT ![c] = [pc |-> "done", session |-> call[c].session, answer |-> "checkout"]]
         \/ call' = [call EXCEPT ![c] = [pc |-> "done", session |-> 0, answer |-> "error"]]
  PROVE  FundingInv'
<1> DEFINE k == KeyOf[c]
<1>1. k \in Keys
  BY FundingConstants
<1>2. intent \in [Keys -> Intent] /\ call \in [Calls -> Call]
  BY DEF FundingInv, FundingTypeOK
<1> DEFINE new == [intent[k] EXCEPT !.status = "completed", !.session = call[c].session,
                                    !.token = None, !.live = FALSE]
<1>3. call[c].session \in Nat /\ call[c].session # 0 /\ intent[k] \in Intent
  BY <1>1, <1>2 DEF FundingInv, Call
<1>4. /\ new \in Intent /\ new.status = "completed" /\ new.session = call[c].session
      /\ new.token = None /\ new.amount = intent[k].amount
  BY <1>3 DEF Intent
<1>5. intent[k].status = "pending" /\ intent[k].amount = AmountOf[c]
  BY DEF MayComplete, FundingInv
<1>6. intent' = [intent EXCEPT ![k] = new]
  BY DEF CompletedBy
<1> HIDE DEF new
<1>7. FundingTypeOK'
  BY <1>1, <1>2, <1>3, <1>4, <1>6 DEF FundingInv, FundingTypeOK, Call
<1>8. HandedOutIsDurable'
  BY <1>1, <1>2, <1>3, <1>4, <1>5, <1>6, FundingConstants DEF FundingInv, HandedOutIsDurable, Call
<1> QED
  BY <1>1, <1>2, <1>3, <1>4, <1>5, <1>6, <1>7, <1>8, FundingConstants DEF FundingInv, Call

\* A step that only ends a call without a checkout, and at most drops the lease
\* of a row, keeps the invariant.
LEMMA GivesUpInv ==
  ASSUME FundingInv, NEW c \in Calls, NEW a \in {"none", "error"},
         call' = [call EXCEPT ![c] = [pc |-> "done", session |-> 0, answer |-> a]],
         \/ intent' = intent
         \/ intent' = [intent EXCEPT ![KeyOf[c]] = [@ EXCEPT !.token = None, !.live = FALSE]],
         remembered' \in [Keys -> Nat], minted' \in Nat, callFaults' \in 0..MaxCallFaults
  PROVE  FundingInv'
<1> DEFINE k == KeyOf[c]
<1>1. k \in Keys
  BY FundingConstants
<1>2. intent \in [Keys -> Intent] /\ call \in [Calls -> Call]
  BY DEF FundingInv, FundingTypeOK
<1> DEFINE new == [intent[k] EXCEPT !.token = None, !.live = FALSE]
<1>0. intent[k] \in Intent
  BY <1>1, <1>2
<1>3. /\ new \in Intent /\ new.status = intent[k].status /\ new.session = intent[k].session
      /\ new.token = None /\ new.amount = intent[k].amount
  BY <1>0 DEF Intent
<1>4. intent' = intent \/ intent' = [intent EXCEPT ![k] = new]
  OBVIOUS
<1> HIDE DEF new
<1>5. FundingTypeOK'
  <2>1. intent' \in [Keys -> Intent]
    BY <1>1, <1>2, <1>3, <1>4
  <2>2. call' \in [Calls -> Call]
    BY <1>2 DEF Call
  <2>3. \A j \in Keys : /\ (intent'[j].status = "completed") <=> (intent'[j].session # 0)
                        /\ intent'[j].status # "pending" => intent'[j].token = None
    BY <1>1, <1>2, <1>3, <1>4 DEF FundingInv, FundingTypeOK
  <2> QED
    BY <2>1, <2>2, <2>3 DEF FundingTypeOK
<1>6. \A j \in Keys : /\ intent'[j].status = intent[j].status
                      /\ intent'[j].session = intent[j].session
                      /\ intent'[j].amount = intent[j].amount
  BY <1>1, <1>2, <1>3, <1>4
<1> QED
  BY <1>2, <1>5, <1>6, FundingConstants DEF FundingInv, HandedOutIsDurable, Call

\* Every step keeps the invariant.
LEMMA NextFunding == ASSUME FundingInv, [FundingNext]_fundingVars PROVE FundingInv'
<1>1. /\ intent \in [Keys -> Intent] /\ call \in [Calls -> Call] /\ remembered \in [Keys -> Nat]
      /\ minted \in Nat /\ callFaults \in 0..MaxCallFaults /\ MaxCallFaults \in Nat
      /\ KeyOf \in [Calls -> Keys]
  BY FundingConstants DEF FundingInv, FundingTypeOK
<1>2. ASSUME NEW c \in Calls, Prepare(c) PROVE FundingInv'
  BY <1>2, PrepareInv
<1>3. ASSUME NEW c \in Calls, CreateCheckoutSession(c) PROVE FundingInv'
  <2> DEFINE k == KeyOf[c]
  <2>1. PICK s \in Nat \ {0} :
          call' = [call EXCEPT ![c] = [@ EXCEPT !.pc = "completing", !.session = s]]
    <3>1. k \in Keys /\ remembered[k] \in Nat /\ minted + 1 \in Nat \ {0}
      BY <1>1
    <3>2. \/ /\ remembered[k] # 0
             /\ call' = [call EXCEPT ![c] = [@ EXCEPT !.pc = "completing", !.session = remembered[k]]]
          \/ call' = [call EXCEPT ![c] = [@ EXCEPT !.pc = "completing", !.session = minted + 1]]
      BY <1>3 DEF CreateCheckoutSession
    <3> QED
      BY <3>1, <3>2
  <2>2. remembered' \in [Keys -> Nat] /\ minted' \in Nat /\ UNCHANGED <<intent, callFaults>>
    BY <1>1, <1>3 DEF CreateCheckoutSession
  <2>3. call[c].pc = "creating"
    BY <1>3 DEF CreateCheckoutSession
  <2>4. FundingTypeOK'
    BY <1>1, <2>1, <2>2 DEF FundingInv, FundingTypeOK, Call
  <2> QED
    BY <1>1, <2>1, <2>2, <2>3, <2>4 DEF FundingInv, HandedOutIsDurable, Call
<1>4. ASSUME NEW c \in Calls, CreateFails(c) PROVE FundingInv'
  <2>1. remembered' \in [Keys -> Nat] /\ minted' \in Nat /\ callFaults' \in 0..MaxCallFaults
    BY <1>1, <1>4 DEF CreateFails
  <2>2. call' = [call EXCEPT ![c] = [pc |-> "done", session |-> 0, answer |-> "error"]]
    BY <1>4 DEF CreateFails, Answered
  <2>3. \/ intent' = intent
        \/ intent' = [intent EXCEPT ![KeyOf[c]] = [@ EXCEPT !.token = None, !.live = FALSE]]
    BY <1>4 DEF CreateFails, Released
  <2> QED
    BY <2>1, <2>2, <2>3, GivesUpInv
<1>5. ASSUME NEW c \in Calls, Complete(c) PROVE FundingInv'
  <2> DEFINE k == KeyOf[c]
  <2>1. CASE MayComplete(k, c)
    <3>1. intent[k].status # "completed"
      BY <2>1 DEF MayComplete
    <3>2. /\ intent' = CompletedBy(k, c)
          /\ call' = [call EXCEPT ![c] = [pc |-> "done", session |-> call[c].session, answer |-> "checkout"]]
      BY <1>5, <2>1, <3>1 DEF Complete, Answered
    <3> QED
      BY <1>1, <1>5, <2>1, <3>2, CompletionInv DEF Complete
  <2>2. CASE ~MayComplete(k, c) /\ intent[k].status = "completed" /\ intent[k].session = call[c].session
    <3>1. /\ UNCHANGED <<intent, remembered, minted, callFaults>>
          /\ call' = [call EXCEPT ![c] = [pc |-> "done", session |-> call[c].session, answer |-> "checkout"]]
          /\ call[c].pc = "completing"
      BY <1>5, <2>2 DEF Complete, Answered
    <3>2. FundingTypeOK'
      BY <1>1, <3>1 DEF FundingInv, FundingTypeOK, Call
    <3> QED
      BY <1>1, <2>2, <3>1, <3>2 DEF FundingInv, HandedOutIsDurable, Call
  <2>3. CASE ~MayComplete(k, c) /\ ~(intent[k].status = "completed" /\ intent[k].session = call[c].session)
    <3>1. /\ UNCHANGED <<intent, remembered, minted, callFaults>>
          /\ call' = [call EXCEPT ![c] = [pc |-> "done", session |-> 0, answer |-> "error"]]
      BY <1>5, <2>3 DEF Complete, Answered
    <3> QED
      BY <1>1, <3>1, GivesUpInv
  <2> QED
    BY <2>1, <2>2, <2>3
<1>6. ASSUME NEW c \in Calls, CompleteFails(c) PROVE FundingInv'
  <2>1. /\ UNCHANGED <<remembered, minted>> /\ callFaults' \in 0..MaxCallFaults
        /\ call[c].pc = "completing"
        /\ call' = [call EXCEPT ![c] = [pc |-> "done", session |-> 0, answer |-> "error"]]
    BY <1>1, <1>6 DEF CompleteFails, Answered
  <2>2. CASE intent' = intent
    BY <1>1, <2>1, <2>2, GivesUpInv
  <2>3. CASE MayComplete(KeyOf[c], c) /\ intent' = CompletedBy(KeyOf[c], c)
    BY <2>1, <2>3, CompletionInv
  <2> QED
    BY <1>6, <2>2, <2>3 DEF CompleteFails
<1>7. ASSUME NEW c \in Calls, CallCrashes(c) PROVE FundingInv'
  <2>1. /\ UNCHANGED <<intent, remembered, minted>> /\ callFaults' \in 0..MaxCallFaults
        /\ call' = [call EXCEPT ![c] = [pc |-> "done", session |-> 0, answer |-> "none"]]
    BY <1>1, <1>7 DEF CallCrashes, Answered
  <2> QED
    BY <1>1, <2>1, GivesUpInv
<1>8. ASSUME NEW k \in Keys, LeaseExpires(k) PROVE FundingInv'
  <2> DEFINE new == [intent[k] EXCEPT !.live = FALSE]
  <2>1. /\ new \in Intent /\ new.status = intent[k].status /\ new.session = intent[k].session
        /\ new.token = intent[k].token /\ new.amount = intent[k].amount
    BY <1>1, <1>8 DEF Intent
  <2>2. intent' = [intent EXCEPT ![k] = new] /\ UNCHANGED <<call, remembered, minted, callFaults>>
    BY <1>8 DEF LeaseExpires
  <2> HIDE DEF new
  <2>3. FundingTypeOK'
    BY <1>1, <1>8, <2>1, <2>2 DEF FundingInv, FundingTypeOK
  <2>4. \A j \in Keys : /\ intent'[j].status = intent[j].status
                        /\ intent'[j].session = intent[j].session
                        /\ intent'[j].amount = intent[j].amount
    BY <1>1, <1>8, <2>1, <2>2
  <2> QED
    BY <1>1, <2>2, <2>3, <2>4 DEF FundingInv, HandedOutIsDurable
<1>9. ASSUME NEW k \in Keys, KeyPruned(k) PROVE FundingInv'
  BY <1>1, <1>9 DEF KeyPruned, FundingInv, FundingTypeOK, HandedOutIsDurable
<1>10. CASE UNCHANGED fundingVars
  BY <1>10 DEF fundingVars, FundingInv, FundingTypeOK, HandedOutIsDurable
<1> QED
  BY <1>2, <1>3, <1>4, <1>5, <1>6, <1>7, <1>8, <1>9, <1>10 DEF FundingNext

\* The inductive invariant holds throughout.
THEOREM FundingInvariance == FundingSpec => []FundingInv
  BY InitFunding, NextFunding, PTL DEF FundingSpec

\* The funding-intent table, its CHECK constraint, the calls and the provider
\* keep their types in every behaviour of the checkout handler.
THEOREM FundingTypes == FundingSpec => []FundingTypeOK
<1>1. FundingInv => FundingTypeOK
  BY DEF FundingInv
<1> QED
  BY <1>1, FundingInvariance, PTL

\* Every checkout URL ever handed out is, and stays, the one session its intent
\* records, for any number of racing calls, expired leases, lost answers and
\* pruned provider keys.
THEOREM CheckoutDurable == FundingSpec => []HandedOutIsDurable
<1>1. FundingInv => HandedOutIsDurable
  BY DEF FundingInv
<1> QED
  BY <1>1, FundingInvariance, PTL

-----------------------------------------------------------------------------
(* The wallet and its ledger.                                              *)

\* Money is held only in a wallet without debt, and holding it moves nothing.
LEMMA HeldSound ==
  ASSUME NEW w, Sound(w), NEW h \in Holds, Spendable(w) >= HoldSize[h]
  PROVE  /\ Sound(HeldWallet(w, h))
         /\ Net(HeldWallet(w, h)) = Net(w)
         /\ HeldWallet(w, h).reserved = w.reserved + HoldSize[h]
<1> DEFINE n == HeldWallet(w, h)
<1>1. w \in Wallet /\ w.balance \in Int /\ w.reserved \in Int /\ w.debt \in Int
  BY DEF Sound, Wallet
<1>2. HoldSize[h] \in Nat /\ HoldSize[h] > 0
  BY WalletConstants
<1> DEFINE r == w.reserved + HoldSize[h]
<1>3. r \in Int /\ n = [w EXCEPT !.reserved = r]
  BY <1>1, <1>2 DEF HeldWallet
<1> HIDE DEF n, r
<1>4. n \in Wallet /\ n.balance = w.balance /\ n.debt = w.debt /\ n.reserved = r
  BY <1>1, <1>3 DEF Wallet
<1>5. Sound(n) /\ Net(n) = Net(w)
  BY <1>1, <1>2, <1>4 DEF r, Sound, WalletCheck, SpentOut, Net, Spendable
<1> QED
  BY <1>4, <1>5 DEF n, r

\* Closing a hold that the CHECK constraints accept charges the actual cost.
LEMMA ChargedNet ==
  ASSUME NEW w \in Wallet, NEW h \in Holds, NEW actual \in Nat
  PROVE  /\ ChargedWallet(w, h, actual) \in Wallet
         /\ Net(ChargedWallet(w, h, actual)) = Net(w) - actual
         /\ ChargedWallet(w, h, actual).reserved = w.reserved - HoldSize[h]
<1>1. HoldSize[h] \in Nat
  BY WalletConstants
<1> DEFINE n == ChargedWallet(w, h, actual)
<1> DEFINE b == w.balance - actual
<1> DEFINE r == w.reserved - HoldSize[h]
<1>2. w.balance \in Int /\ w.reserved \in Int /\ w.debt \in Int
  BY DEF Wallet
<1>3. b \in Int /\ r \in Int /\ n = [w EXCEPT !.balance = b, !.reserved = r]
  BY <1>1, <1>2 DEF ChargedWallet
<1> HIDE DEF n, b, r
<1>4. n \in Wallet /\ n.balance = b /\ n.debt = w.debt /\ n.reserved = r
  BY <1>3 DEF Wallet
<1>5. n \in Wallet /\ Net(n) = Net(w) - actual
  BY <1>2, <1>4 DEF b, Net
<1> QED
  BY <1>4, <1>5 DEF n, r

-----------------------------------------------------------------------------
\* The part of the invariant about wallets and the ledger.
WalletInv ==
  /\ wallet \in [Tenants -> Wallet] /\ posted \in [Tenants -> Int]
  /\ \A t \in Tenants : Sound(wallet[t]) /\ Net(wallet[t]) = posted[t]

\* The part about events, payments and holds.
TableInv ==
  /\ checkout \in [Sessions -> {"pending", "completed"}]
  /\ recorded \subseteq Events
  /\ \A x, y \in recorded : x.id = y.id => x = y
  /\ credited \subseteq Sessions
  /\ refunded \in [Sessions -> Nat]
  /\ hold \in [Holds -> Hold]
  /\ \A h \in Holds : <<"settlement", h>> \in ledger => hold[h].state \in ClosedStates

LEMMA Split == IndInv <=> WalletInv /\ TableInv
  BY DEF IndInv, TypeOK, LedgerBalances, DebtFreezesSpending, WalletInv, TableInv, Sound,
         SpentOut, Net

LEMMA SplitNext == IndInv' <=> WalletInv' /\ TableInv'
  BY DEF IndInv, TypeOK, LedgerBalances, DebtFreezesSpending, WalletInv, TableInv, Sound,
         SpentOut, Net, WalletCheck

\* One tenant's wallet and ledger move together.
LEMMA WalletMoves ==
  ASSUME WalletInv, NEW t \in Tenants, NEW w, NEW p \in Int,
         Sound(w), Net(w) = p,
         wallet' = [wallet EXCEPT ![t] = w],
         posted' = [posted EXCEPT ![t] = p]
  PROVE  WalletInv'
<1>1. wallet' \in [Tenants -> Wallet] /\ posted' \in [Tenants -> Int]
  BY DEF WalletInv, Sound
<1>2. ASSUME NEW u \in Tenants PROVE Sound(wallet'[u]) /\ Net(wallet'[u]) = posted'[u]
  <2>1. CASE u = t
    BY <2>1 DEF WalletInv
  <2>2. CASE u # t
    BY <2>2 DEF WalletInv
  <2> QED
    BY <2>1, <2>2
<1>3. \A u \in Tenants : Sound(wallet'[u]) /\ Net(wallet'[u]) = posted'[u]
  BY <1>2
<1> QED
  BY <1>1, <1>3 DEF WalletInv, Sound, Net, WalletCheck, SpentOut

LEMMA WalletStays ==
  ASSUME WalletInv, UNCHANGED <<wallet, posted>> PROVE WalletInv'
  BY DEF WalletInv, Sound, Net, WalletCheck, SpentOut

\* Recording an event keeps event IDs unique.
LEMMA RecordsInv ==
  ASSUME recorded \subseteq Events, \A x, y \in recorded : x.id = y.id => x = y,
         NEW e \in Events, Records(e)
  PROVE  recorded' \subseteq Events /\ \A x, y \in recorded' : x.id = y.id => x = y
  BY DEF Records

\* Closing a hold.
LEMMA CloseInv ==
  ASSUME WalletInv, TableInv, NEW h \in Holds, NEW actual \in Nat,
         NEW state \in ClosedStates, NEW line \in BOOLEAN, ~line => actual = 0,
         Close(h, actual, state, line)
  PROVE  WalletInv' /\ TableInv'
<1> DEFINE t == HoldTenant[h]
<1> DEFINE charged == ChargedWallet(wallet[t], h, actual)
<1> DEFINE final == ReconcileManagedDebt(charged)
<1>1. t \in Tenants
  BY WalletConstants
<1>2. wallet[t] \in Wallet
  BY <1>1 DEF WalletInv
<1>3. charged \in Wallet /\ Net(charged) = Net(wallet[t]) - actual
  BY <1>2, ChargedNet
<1>4. WalletCheck(charged) /\ wallet' = [wallet EXCEPT ![t] = final]
  BY DEF Close
<1>5. Sound(final) /\ Net(final) = Net(charged)
  BY <1>3, <1>4, ReconcileSound
<1>6. hold[h].state \in OpenStates
  BY DEF Close, MayClose
<1>7. <<"settlement", h>> \notin ledger
  BY <1>6 DEF TableInv, OpenStates, ClosedStates
<1> DEFINE p == posted[t] - actual
<1>8. p \in Int /\ posted' = [posted EXCEPT ![t] = p]
  <2>1. posted[t] \in Int /\ posted \in [Tenants -> Int]
    BY <1>1 DEF WalletInv
  <2>2. CASE line
    BY <1>7, <2>1, <2>2 DEF Close
  <2>3. CASE ~line
    <3>1. posted' = posted /\ actual = 0
      BY <2>3 DEF Close
    <3>2. p = posted[t]
      BY <2>1, <3>1
    <3> HIDE DEF p
    <3> QED
      BY <2>1, <3>1, <3>2
  <2> QED
    BY <2>2, <2>3
<1>9. Net(final) = p
  <2>1. Net(wallet[t]) = posted[t]
    BY <1>1 DEF WalletInv
  <2> QED
    BY <1>3, <1>5, <2>1
<1> HIDE DEF charged, final, t, p
<1>10. WalletInv'
  BY <1>1, <1>4, <1>5, <1>8, <1>9, WalletMoves
<1>11. TableInv'
  <2>1. hold' = [hold EXCEPT ![h] = [@ EXCEPT !.state = state, !.actual = actual]]
        /\ UNCHANGED <<checkout, recorded, credited, refunded>>
        /\ ledger' \subseteq ledger \union {<<"settlement", h>>}
    BY DEF Close
  <2>2. hold \in [Holds -> Hold] /\ hold[h] \in Hold
    BY DEF TableInv
  <2>3. [hold[h] EXCEPT !.state = state, !.actual = actual] \in Hold
    BY <2>2 DEF Hold, ClosedStates
  <2>4. hold' \in [Holds -> Hold]
    BY <2>1, <2>2, <2>3
  <2>5. hold'[h].state \in ClosedStates /\ \A j \in Holds \ {h} : hold'[j] = hold[j]
    BY <2>1, <2>2 DEF Hold
  <2>6. \A j \in Holds : <<"settlement", j>> \in ledger' => hold'[j].state \in ClosedStates
    BY <2>1, <2>5 DEF TableInv
  <2> QED
    BY <2>1, <2>4, <2>6 DEF TableInv
<1> QED
  BY <1>10, <1>11

\* Changing an open hold without closing it.
LEMMA HoldChangesInv ==
  ASSUME TableInv, NEW h \in Holds, NEW r \in Hold,
         hold[h].state \notin ClosedStates,
         hold' = [hold EXCEPT ![h] = r],
         UNCHANGED <<ledger, checkout, recorded, credited, refunded>>
  PROVE  TableInv'
<1>1. hold \in [Holds -> Hold]
  BY DEF TableInv
<1>2. hold' \in [Holds -> Hold]
  BY <1>1
<1>3. <<"settlement", h>> \notin ledger
  BY DEF TableInv
<1>4. \A j \in Holds : <<"settlement", j>> \in ledger' => hold'[j].state \in ClosedStates
  BY <1>1, <1>3 DEF TableInv
<1> QED
  BY <1>2, <1>4 DEF TableInv

\* Placing a hold.
LEMMA ReserveInv ==
  ASSUME WalletInv, TableInv, NEW h \in Holds, Reserve(h)
  PROVE  WalletInv' /\ TableInv'
<1> DEFINE t == HoldTenant[h]
<1> DEFINE w == HeldWallet(wallet[t], h)
<1>1. t \in Tenants /\ posted \in [Tenants -> Int] /\ posted[t] \in Int
  BY WalletConstants DEF WalletInv
<1>2. Sound(w) /\ Net(w) = Net(wallet[t]) /\ Net(wallet[t]) \in Int
  <2>1. Sound(wallet[t])
    BY <1>1 DEF WalletInv
  <2>2. Net(wallet[t]) \in Int
    BY <2>1 DEF Sound, Wallet, Net
  <2> QED
    BY <2>1, <2>2, HeldSound DEF Reserve
<1>3. wallet' = [wallet EXCEPT ![t] = w]
  BY DEF Reserve
<1>4. Net(w) = posted[t]
  BY <1>1, <1>2 DEF WalletInv
<1>5. posted' = [posted EXCEPT ![t] = posted[t]]
  BY <1>1 DEF Reserve
<1> HIDE DEF w, t
<1>6. WalletInv'
  BY <1>1, <1>2, <1>3, <1>4, <1>5, WalletMoves
<1>7. hold \in [Holds -> Hold]
  BY DEF TableInv
<1>8. [hold[h] EXCEPT !.state = "reserved"] \in Hold
  BY <1>7 DEF Hold, OpenStates
<1>9. hold[h].state \notin ClosedStates
  BY DEF Reserve, ClosedStates
<1>10. TableInv'
  BY <1>8, <1>9, HoldChangesInv DEF Reserve
<1> QED
  BY <1>6, <1>10

\* A credit of any origin.
LEMMA CreditMoves ==
  ASSUME WalletInv, NEW t \in Tenants, NEW a \in Nat,
         wallet' = [wallet EXCEPT ![t] = ApplyManagedCredit(@, a)],
         posted' = [posted EXCEPT ![t] = @ + a]
  PROVE  WalletInv'
<1> DEFINE w == ApplyManagedCredit(wallet[t], a)
<1>1. Sound(wallet[t])
  BY DEF WalletInv
<1>2. Sound(w) /\ Net(w) = Net(wallet[t]) + a
  BY <1>1, CreditSound
<1> DEFINE p == posted[t] + a
<1>3. wallet' = [wallet EXCEPT ![t] = w] /\ posted' = [posted EXCEPT ![t] = p]
  BY DEF WalletInv
<1>4. p \in Int /\ Net(w) = p
  BY <1>2 DEF WalletInv
<1> HIDE DEF w, p
<1> QED
  BY <1>2, <1>3, <1>4, WalletMoves

\* A charge capped at the hold is a natural number.
LEMMA CapType == ASSUME NEW h \in Holds, NEW cost \in Nat PROVE Least(cost, HoldSize[h]) \in Nat
<1>1. HoldSize[h] \in Nat
  BY WalletConstants
<1> QED
  BY <1>1 DEF Least

\* Every step keeps the invariant.
LEMMA NextWallet == ASSUME IndInv, [Next]_vars PROVE IndInv'
<1>0. WalletInv /\ TableInv
  BY Split
<1>1. ASSUME NEW g \in Grants, CreditManagedWallet(g) PROVE WalletInv' /\ TableInv'
  <2>1. GrantTenant[g] \in Tenants /\ GrantAmount[g] \in Nat
    BY WalletConstants
  <2>2. WalletInv'
    BY <1>0, <1>1, <2>1, CreditMoves DEF CreditManagedWallet
  <2>3. \A h \in Holds : <<"settlement", h>> \in ledger' => <<"settlement", h>> \in ledger
    BY <1>1 DEF CreditManagedWallet
  <2>4. TableInv'
    BY <1>0, <1>1, <2>3 DEF CreditManagedWallet, TableInv
  <2> QED
    BY <2>2, <2>4
<1>2. ASSUME NEW s \in Sessions, CompleteManagedFundingIntent(s) PROVE WalletInv' /\ TableInv'
  <2>1. WalletInv'
    BY <1>0, <1>2, WalletStays DEF CompleteManagedFundingIntent
  <2>2. TableInv'
    BY <1>0, <1>2 DEF CompleteManagedFundingIntent, TableInv
  <2> QED
    BY <2>1, <2>2
<1>3. ASSUME NEW e \in Events, IgnorePaymentEvent(e) PROVE WalletInv' /\ TableInv'
  <2>1. WalletInv'
    BY <1>0, <1>3, WalletStays DEF IgnorePaymentEvent
  <2>2. recorded' \subseteq Events /\ \A x, y \in recorded' : x.id = y.id => x = y
    BY <1>0, <1>3, RecordsInv DEF IgnorePaymentEvent, TableInv
  <2>3. TableInv'
    BY <1>0, <1>3, <2>2 DEF IgnorePaymentEvent, TableInv
  <2> QED
    BY <2>1, <2>3
<1>4. ASSUME NEW e \in Events, ProcessManagedPaymentEvent(e) PROVE WalletInv' /\ TableInv'
  <2>1. e.session \in Sessions /\ e.amount \in Nat /\ SessionTenant[e.session] \in Tenants
    <3>1. e \in Event
      BY WalletConstants
    <3>2. e.session \in Sessions /\ e.amount \in Nat
      BY <3>1 DEF Event
    <3> QED
      BY <3>2, WalletConstants
  <2>2. recorded' \subseteq Events /\ \A x, y \in recorded' : x.id = y.id => x = y
    BY <1>0, <1>4, RecordsInv DEF ProcessManagedPaymentEvent, TableInv
  <2>3. UNCHANGED <<checkout, refunded, hold>>
    BY <1>4 DEF ProcessManagedPaymentEvent
  <2>4. CASE e.session \in credited
    <3>1. UNCHANGED <<wallet, posted, ledger, credited>>
      BY <1>4, <2>4 DEF ProcessManagedPaymentEvent
    <3>2. WalletInv'
      BY <1>0, <3>1, WalletStays
    <3>3. TableInv'
      BY <1>0, <2>2, <2>3, <3>1 DEF TableInv
    <3> QED
      BY <3>2, <3>3
  <2>5. CASE e.session \notin credited
    <3>1. /\ credited' = credited \union {e.session}
          /\ ledger' = ledger \union {<<"credit", e.session>>}
          /\ posted' = [posted EXCEPT ![SessionTenant[e.session]] = @ + e.amount]
          /\ wallet' = [wallet EXCEPT ![SessionTenant[e.session]] = ApplyManagedCredit(@, e.amount)]
      BY <1>4, <2>5 DEF ProcessManagedPaymentEvent
    <3>2. WalletInv'
      BY <1>0, <2>1, <3>1, CreditMoves
    <3>3. \A h \in Holds : <<"settlement", h>> \in ledger' => <<"settlement", h>> \in ledger
      BY <3>1
    <3>4. TableInv'
      BY <1>0, <2>1, <2>2, <2>3, <3>1, <3>3 DEF TableInv
    <3> QED
      BY <3>2, <3>4
  <2> QED
    BY <2>4, <2>5
<1>5. ASSUME NEW e \in Events, ProcessManagedRefund(e) PROVE WalletInv' /\ TableInv'
  <2> DEFINE t == SessionTenant[e.session]
  <2> DEFINE delta == e.amount - refunded[e.session]
  <2> DEFINE w == RefundedWallet(wallet[t], delta)
  <2>1. e.session \in Sessions /\ e.amount \in Nat /\ t \in Tenants
    <3>1. e \in Event
      BY WalletConstants
    <3>2. e.session \in Sessions /\ e.amount \in Nat
      BY <3>1 DEF Event
    <3> QED
      BY <3>2, WalletConstants
  <2>2. recorded' \subseteq Events /\ \A x, y \in recorded' : x.id = y.id => x = y
    BY <1>0, <1>5, RecordsInv DEF ProcessManagedRefund, TableInv
  <2>3. UNCHANGED <<checkout, credited, hold>> /\ refunded \in [Sessions -> Nat]
    BY <1>0, <1>5 DEF ProcessManagedRefund, TableInv
  <2>4. delta \in Nat
    <3>1. refunded[e.session] \in Nat /\ e.amount >= refunded[e.session]
      BY <1>5, <2>1, <2>3 DEF ProcessManagedRefund, RefundLegal
    <3> QED
      BY <2>1, <3>1
  <2>5. CASE delta = 0
    <3>1. UNCHANGED <<wallet, posted, ledger, refunded>>
      BY <1>5, <2>5 DEF ProcessManagedRefund
    <3>2. WalletInv'
      BY <1>0, <3>1, WalletStays
    <3>3. TableInv'
      BY <1>0, <2>2, <2>3, <3>1 DEF TableInv
    <3> QED
      BY <3>2, <3>3
  <2>6. CASE delta # 0
    <3>1. /\ wallet' = [wallet EXCEPT ![t] = w]
          /\ refunded' = [refunded EXCEPT ![e.session] = e.amount]
          /\ ledger' = ledger \union {<<"refund", e.id>>}
          /\ posted' = [posted EXCEPT ![t] = posted[t] - delta]
      BY <1>5, <2>6 DEF ProcessManagedRefund
    <3>2. Sound(wallet[t]) /\ posted[t] \in Int
      BY <1>0, <2>1 DEF WalletInv
    <3>3. Sound(w) /\ Net(w) = Net(wallet[t]) - delta
      BY <2>4, <3>2, RefundSound
    <3> DEFINE p == posted[t] - delta
    <3>4. Net(wallet[t]) = posted[t]
      BY <1>0, <2>1 DEF WalletInv
    <3>5. p \in Int /\ Net(w) = p
      BY <2>4, <3>2, <3>3, <3>4
    <3>6. posted' = [posted EXCEPT ![t] = p]
      BY <3>1
    <3> HIDE DEF w, t, delta, p
    <3>7. WalletInv'
      BY <1>0, <2>1, <3>1, <3>3, <3>5, <3>6, WalletMoves
    <3>8. \A h \in Holds : <<"settlement", h>> \in ledger' => <<"settlement", h>> \in ledger
      BY <3>1
    <3>9. TableInv'
      BY <1>0, <2>1, <2>2, <2>3, <3>1, <3>8 DEF TableInv
    <3> QED
      BY <3>7, <3>9
  <2> QED
    BY <2>5, <2>6
<1>6. ASSUME NEW h \in Holds,
             AuthorizeManagedUsage(h) \/ ReserveManagedSandboxSpend(h) \/ ReserveManagedDeployment(h)
      PROVE  WalletInv' /\ TableInv'
  BY <1>0, <1>6, ReserveInv
     DEF AuthorizeManagedUsage, ReserveManagedSandboxSpend, ReserveManagedDeployment
<1>7. ASSUME NEW h \in Holds, ActivateManagedSandboxSpend(h) \/ ActivateManagedDeployment(h)
      PROVE  WalletInv' /\ TableInv'
  <2>1. Activate(h)
    BY <1>7 DEF ActivateManagedSandboxSpend, ActivateManagedDeployment
  <2>2. [hold[h] EXCEPT !.activated = TRUE] \in Hold
    BY <1>0 DEF TableInv, Hold
  <2>3. hold[h].state \notin ClosedStates
    BY <2>1 DEF Activate, ClosedStates
  <2>4. TableInv'
    BY <1>0, <2>1, <2>2, <2>3, HoldChangesInv DEF Activate
  <2> QED
    BY <1>0, <2>1, <2>4, WalletStays DEF Activate
<1>8. ASSUME NEW h \in Holds, SettleWithoutUsage(h) PROVE WalletInv' /\ TableInv'
  <2>1. [hold[h] EXCEPT !.state = "pending_reconciliation"] \in Hold
    BY <1>0 DEF TableInv, Hold, OpenStates
  <2>2. hold[h].state \notin ClosedStates
    BY <1>8 DEF SettleWithoutUsage, MayClose, OpenStates, ClosedStates
  <2>3. TableInv'
    BY <1>0, <1>8, <2>1, <2>2, HoldChangesInv DEF SettleWithoutUsage
  <2> QED
    BY <1>0, <1>8, <2>3, WalletStays DEF SettleWithoutUsage
<1>9. ASSUME NEW h \in Holds, ReleaseManagedUsage(h) \/ ReleaseManagedSandboxSpend(h)
      PROVE  WalletInv' /\ TableInv'
  <2>1. Close(h, 0, "released", FALSE)
    BY <1>9 DEF ReleaseManagedUsage, ReleaseManagedSandboxSpend
  <2>2. "released" \in ClosedStates
    BY DEF ClosedStates
  <2> QED
    BY <1>0, <2>1, <2>2, CloseInv
<1>10. ASSUME NEW h \in Holds, NEW cost \in 0..MaxCost, SettleManagedUsage(h, cost)
       PROVE  WalletInv' /\ TableInv'
  <2>1. cost \in Nat /\ "settled" \in ClosedStates
    BY WalletConstants DEF ClosedStates
  <2> QED
    BY <1>0, <1>10, <2>1, CapType, CloseInv DEF SettleManagedUsage
<1>11. ASSUME NEW h \in Holds, NEW cost \in 0..MaxCost, SettleManagedSandboxSpend(h, cost)
       PROVE  WalletInv' /\ TableInv'
  <2> DEFINE actual == Least(cost, HoldSize[h])
  <2>1. cost \in Nat /\ "settled" \in ClosedStates
    BY WalletConstants DEF ClosedStates
  <2>2. actual \in Nat
    BY <2>1, CapType
  <2>3. Close(h, actual, "settled", actual > 0)
    BY <1>11 DEF SettleManagedSandboxSpend
  <2> HIDE DEF actual
  <2>4. (actual > 0) \in BOOLEAN /\ (~(actual > 0) => actual = 0)
    BY <2>2
  <2> QED
    BY <1>0, <2>1, <2>2, <2>3, <2>4, CloseInv
<1>12. ASSUME NEW h \in Holds, NEW cost \in 0..MaxCost, FinalizeManagedDeploymentSpend(h, cost)
       PROVE  WalletInv' /\ TableInv'
  <2> DEFINE actual == IF hold[h].activated THEN Least(cost, HoldSize[h]) ELSE 0
  <2> DEFINE state == IF hold[h].activated THEN "settled" ELSE "released"
  <2>1. cost \in Nat /\ state \in ClosedStates
    BY WalletConstants DEF ClosedStates
  <2>2. actual \in Nat
    BY <2>1, CapType
  <2>3. Close(h, actual, state, actual > 0)
    BY <1>12 DEF FinalizeManagedDeploymentSpend
  <2> HIDE DEF actual, state
  <2>4. (actual > 0) \in BOOLEAN /\ (~(actual > 0) => actual = 0)
    BY <2>2
  <2> QED
    BY <1>0, <2>1, <2>2, <2>3, <2>4, CloseInv
<1>13. ASSUME UNCHANGED vars PROVE WalletInv' /\ TableInv'
  <2>1. WalletInv'
    BY <1>0, <1>13, WalletStays DEF vars
  <2>2. TableInv'
    BY <1>0, <1>13 DEF vars, TableInv
  <2> QED
    BY <2>1, <2>2
<1>14. WalletInv' /\ TableInv'
  BY <1>1, <1>2, <1>3, <1>4, <1>5, <1>6, <1>7, <1>8, <1>9, <1>10, <1>11, <1>12, <1>13 DEF Next
<1> QED
  BY <1>14, SplitNext

\* The empty tables satisfy the invariant.
LEMMA InitWallet == Init => IndInv
  BY WalletConstants DEF Init, IndInv, TypeOK, LedgerBalances, DebtFreezesSpending, Wallet,
     WalletCheck, Hold

\* The inductive invariant holds throughout.
THEOREM WalletInvariance == Spec => []IndInv
  BY InitWallet, NextWallet, PTL DEF Spec

\* The tables keep their types and the wallets their constraints.
THEOREM WalletTypes == Spec => []TypeOK
<1>1. IndInv => TypeOK
  BY DEF IndInv
<1> QED
  BY <1>1, WalletInvariance, PTL

\* A wallet always agrees with the sum of its ledger, for any number of
\* tenants, payments, refunds and holds in any order.
THEOREM LedgerAgreement == Spec => []LedgerBalances
<1>1. IndInv => LedgerBalances
  BY DEF IndInv
<1> QED
  BY <1>1, WalletInvariance, PTL

\* A tenant in debt never has anything to spend.
THEOREM DebtSuspends == Spec => []DebtFreezesSpending
<1>1. IndInv => DebtFreezesSpending
  BY DEF IndInv
<1> QED
  BY <1>1, WalletInvariance, PTL

\* No step reopens, recharges or releases a closed hold.
LEMMA ClosedStays ==
  ASSUME IndInv, [Next]_vars, NEW h \in Holds, hold[h].state \in ClosedStates
  PROVE  hold'[h] = hold[h]
<1>1. hold \in [Holds -> Hold]
  BY DEF IndInv, TypeOK
<1>2. hold[h].state \notin OpenStates /\ hold[h].state # "none" /\ hold[h].state # "reserved"
  BY DEF OpenStates, ClosedStates
<1>3. \/ hold' = hold
      \/ \E j \in Holds, r \in Hold : /\ hold[j].state \in OpenStates \union {"none"}
                                      /\ hold' = [hold EXCEPT ![j] = r]
  <2>1. ASSUME NEW j \in Holds, Reserve(j)
        PROVE  \E r \in Hold : hold[j].state = "none" /\ hold' = [hold EXCEPT ![j] = r]
    <3>1. [hold[j] EXCEPT !.state = "reserved"] \in Hold
      BY <1>1 DEF Hold, OpenStates
    <3> QED
      BY <2>1, <3>1 DEF Reserve
  <2>2. ASSUME NEW j \in Holds, Activate(j)
        PROVE  \E r \in Hold : hold[j].state \in OpenStates /\ hold' = [hold EXCEPT ![j] = r]
    <3>1. [hold[j] EXCEPT !.activated = TRUE] \in Hold
      BY <1>1 DEF Hold
    <3> QED
      BY <2>2, <3>1 DEF Activate, OpenStates
  <2>3. ASSUME NEW j \in Holds, SettleWithoutUsage(j)
        PROVE  \E r \in Hold : hold[j].state \in OpenStates /\ hold' = [hold EXCEPT ![j] = r]
    <3>1. [hold[j] EXCEPT !.state = "pending_reconciliation"] \in Hold
      BY <1>1 DEF Hold, OpenStates
    <3> QED
      BY <2>3, <3>1 DEF SettleWithoutUsage, MayClose
  <2>4. ASSUME NEW j \in Holds, NEW a \in Nat, NEW s \in ClosedStates,
               hold[j].state \in OpenStates,
               hold' = [hold EXCEPT ![j] = [@ EXCEPT !.state = s, !.actual = a]]
        PROVE  \E r \in Hold : hold[j].state \in OpenStates /\ hold' = [hold EXCEPT ![j] = r]
    <3>1. [hold[j] EXCEPT !.state = s, !.actual = a] \in Hold
      BY <1>1 DEF Hold
    <3> QED
      BY <2>4, <3>1
  <2>5. ASSUME NEW j \in Holds, ReleaseManagedUsage(j) \/ ReleaseManagedSandboxSpend(j)
        PROVE  \E r \in Hold : hold[j].state \in OpenStates /\ hold' = [hold EXCEPT ![j] = r]
    <3>1. /\ hold[j].state \in OpenStates /\ "released" \in ClosedStates
          /\ hold' = [hold EXCEPT ![j] = [@ EXCEPT !.state = "released", !.actual = 0]]
      BY <2>5 DEF ReleaseManagedUsage, ReleaseManagedSandboxSpend, ClosedStates, Close, MayClose
    <3> QED
      BY <2>4, <3>1
  <2>6. ASSUME NEW j \in Holds, NEW cost \in 0..MaxCost,
               \/ SettleManagedUsage(j, cost) \/ SettleManagedSandboxSpend(j, cost)
               \/ FinalizeManagedDeploymentSpend(j, cost)
        PROVE  \E r \in Hold : hold[j].state \in OpenStates /\ hold' = [hold EXCEPT ![j] = r]
    <3>1. cost \in Nat
      BY WalletConstants
    <3>2. Least(cost, HoldSize[j]) \in Nat
      BY <3>1, CapType
    <3>3. "settled" \in ClosedStates /\ "released" \in ClosedStates
      BY DEF ClosedStates
    <3>4. CASE SettleManagedUsage(j, cost)
      BY <2>4, <3>2, <3>3, <3>4 DEF SettleManagedUsage, Close, MayClose
    <3>5. CASE SettleManagedSandboxSpend(j, cost)
      <4> DEFINE a == Least(cost, HoldSize[j])
      <4>1. /\ hold[j].state \in OpenStates
            /\ hold' = [hold EXCEPT ![j] = [@ EXCEPT !.state = "settled", !.actual = a]]
        BY <3>5 DEF SettleManagedSandboxSpend, Close, MayClose
      <4> QED
        BY <2>4, <3>2, <3>3, <4>1
    <3>6. CASE FinalizeManagedDeploymentSpend(j, cost)
      <4> DEFINE a == IF hold[j].activated THEN Least(cost, HoldSize[j]) ELSE 0
      <4> DEFINE s == IF hold[j].activated THEN "settled" ELSE "released"
      <4>1. /\ hold[j].state \in OpenStates
            /\ hold' = [hold EXCEPT ![j] = [@ EXCEPT !.state = s, !.actual = a]]
        BY <3>6 DEF FinalizeManagedDeploymentSpend, Close, MayClose
      <4>2. a \in Nat /\ s \in ClosedStates
        BY <3>2, <3>3
      <4> HIDE DEF a, s
      <4> QED
        BY <2>4, <4>1, <4>2
    <3> QED
      BY <2>6, <3>4, <3>5, <3>6
  <2>7. ASSUME \/ \E g \in Grants : CreditManagedWallet(g)
               \/ \E s \in Sessions : CompleteManagedFundingIntent(s)
               \/ \E e \in Events : \/ IgnorePaymentEvent(e) \/ ProcessManagedPaymentEvent(e)
                                    \/ ProcessManagedRefund(e)
               \/ UNCHANGED vars
        PROVE  hold' = hold
    BY <2>7 DEF CreditManagedWallet, CompleteManagedFundingIntent, IgnorePaymentEvent,
                ProcessManagedPaymentEvent, ProcessManagedRefund, vars
  <2> QED
    BY <2>1, <2>2, <2>3, <2>5, <2>6, <2>7
       DEF Next, AuthorizeManagedUsage, ReserveManagedSandboxSpend, ReserveManagedDeployment,
           ActivateManagedSandboxSpend, ActivateManagedDeployment
<1> QED
  BY <1>1, <1>2, <1>3

\* Every hold is settled or released at most once.
THEOREM HoldsClosedOnce == Spec => HoldsCloseOnce
<1>1. IndInv /\ [Next]_vars => [\A h \in Holds : hold[h].state \in ClosedStates => hold'[h] = hold[h]]_vars
  BY ClosedStays
<1> QED
  BY <1>1, WalletInvariance, PTL DEF Spec, HoldsCloseOnce

\* The refunded total of a session only grows.
LEMMA RefundGrows ==
  ASSUME IndInv, [Next]_vars, NEW s \in Sessions PROVE refunded'[s] >= refunded[s]
<1>1. refunded \in [Sessions -> Nat]
  BY DEF IndInv, TypeOK
<1>2. ASSUME NEW e \in Events, ProcessManagedRefund(e) PROVE refunded'[s] >= refunded[s]
  <2>1. e \in Event
    BY WalletConstants
  <2>2. e.session \in Sessions /\ e.amount \in Nat
    BY <2>1 DEF Event
  <2>3. e.amount >= refunded[e.session]
    BY <1>2 DEF ProcessManagedRefund, RefundLegal
  <2>4. refunded' = refunded \/ refunded' = [refunded EXCEPT ![e.session] = e.amount]
    BY <1>2 DEF ProcessManagedRefund
  <2> QED
    BY <1>1, <2>2, <2>3, <2>4
<1>3. ASSUME NEW g \in Grants, CreditManagedWallet(g) PROVE refunded' = refunded
  BY <1>3 DEF CreditManagedWallet
<1>4. ASSUME NEW x \in Sessions, CompleteManagedFundingIntent(x) PROVE refunded' = refunded
  BY <1>4 DEF CompleteManagedFundingIntent
<1>5. ASSUME NEW e \in Events, IgnorePaymentEvent(e) \/ ProcessManagedPaymentEvent(e)
      PROVE  refunded' = refunded
  BY <1>5 DEF IgnorePaymentEvent, ProcessManagedPaymentEvent
<1>6. ASSUME NEW h \in Holds,
             \/ AuthorizeManagedUsage(h) \/ ReserveManagedSandboxSpend(h)
             \/ ReserveManagedDeployment(h) \/ ActivateManagedSandboxSpend(h)
             \/ ActivateManagedDeployment(h) \/ SettleWithoutUsage(h)
      PROVE  refunded' = refunded
  BY <1>6 DEF AuthorizeManagedUsage, ReserveManagedSandboxSpend, ReserveManagedDeployment, Reserve,
     ActivateManagedSandboxSpend, ActivateManagedDeployment, Activate, SettleWithoutUsage
<1>7. ASSUME NEW h \in Holds, ReleaseManagedUsage(h) \/ ReleaseManagedSandboxSpend(h)
      PROVE  refunded' = refunded
  BY <1>7 DEF ReleaseManagedUsage, ReleaseManagedSandboxSpend, Close
<1>8. ASSUME NEW h \in Holds, NEW cost \in 0..MaxCost,
             \/ SettleManagedUsage(h, cost) \/ SettleManagedSandboxSpend(h, cost)
             \/ FinalizeManagedDeploymentSpend(h, cost)
      PROVE  refunded' = refunded
  BY <1>8 DEF SettleManagedUsage, SettleManagedSandboxSpend, FinalizeManagedDeploymentSpend, Close
<1>9. CASE UNCHANGED vars
  BY <1>1, <1>9 DEF vars
<1>10. refunded' = refunded => refunded'[s] >= refunded[s]
  BY <1>1
<1> QED
  BY <1>2, <1>3, <1>4, <1>5, <1>6, <1>7, <1>8, <1>9, <1>10 DEF Next

\* No delivery order of refund events gives refunded money back.
THEOREM RefundsMonotone == Spec => RefundsAccumulate
<1>1. IndInv /\ [Next]_vars => [\A s \in Sessions : refunded'[s] >= refunded[s]]_vars
  BY RefundGrows
<1> QED
  BY <1>1, WalletInvariance, PTL DEF Spec, RefundsAccumulate

-----------------------------------------------------------------------------
(***************************************************************************)
(* The sums.  A step changes one grant, one payment or one hold, so each   *)
(* of the sums moves by what that one contributes (TotalChange).           *)
(***************************************************************************)

\* What a hold contributes to the reserved and to the charged amounts.
SizeIn(r, h) == IF r.state \in OpenStates THEN HoldSize[h] ELSE 0
ChargeIn(r) == IF r.state = "settled" THEN r.actual ELSE 0

\* What the ledger of a tenant comes to.
Posted(t) ==
  Total(GrantsPosted(t), Grants) + Total(PaymentsKept(t), Sessions) - Total(HoldsCharged(t), Holds)

\* One hold changes, and its tenant's reserved amount by as much.
LEMMA ReservedMoves ==
  ASSUME ReservedIsOpenHolds, hold \in [Holds -> Hold], wallet \in [Tenants -> Wallet],
         NEW h \in Holds, NEW r, hold' = [hold EXCEPT ![h] = r],
         \A t \in Tenants \ {HoldTenant[h]} : wallet'[t].reserved = wallet[t].reserved,
         wallet'[HoldTenant[h]].reserved
           = wallet[HoldTenant[h]].reserved - SizeIn(hold[h], h) + SizeIn(r, h)
  PROVE  ReservedIsOpenHolds'
<1> SUFFICES ASSUME NEW t \in Tenants
             PROVE  wallet'[t].reserved = Total(OpenSizes(t)', Holds)
  BY DEF ReservedIsOpenHolds, Total, Pieces
<1> DEFINE f == OpenSizes(t)
           g == OpenSizes(t)'
<1>1. IsFiniteSet(Holds) /\ \A j \in Holds : HoldSize[j] \in Nat
  BY WalletConstants
<1>2. \A j \in Holds : f[j] \in Nat /\ g[j] \in Nat
  BY <1>1 DEF OpenSizes
<1>3. \A j \in Holds \ {h} : f[j] = g[j]
  BY DEF OpenSizes
<1>4. /\ f[h] = IF HoldTenant[h] = t THEN SizeIn(hold[h], h) ELSE 0
      /\ g[h] = IF HoldTenant[h] = t THEN SizeIn(r, h) ELSE 0
  BY DEF OpenSizes, SizeIn
<1>5. wallet[t].reserved = Total(f, Holds)
  BY DEF ReservedIsOpenHolds
<1> HIDE DEF f, g
<1>6. /\ Total(g, Holds) = Total(f, Holds) - f[h] + g[h]
      /\ Total(f, Holds) \in Nat /\ f[h] \in Nat /\ g[h] \in Nat
  BY <1>1, <1>2, <1>3, TotalChange
<1>7. wallet'[t].reserved = Total(g, Holds)
  <2>1. CASE HoldTenant[h] = t
    BY <1>4, <1>5, <1>6, <2>1
  <2>2. CASE HoldTenant[h] # t
    BY <1>4, <1>5, <1>6, <2>2
  <2> QED
    BY <2>1, <2>2
<1> QED
  BY <1>7 DEF g

\* No hold changes, and no reserved amount.
LEMMA ReservedStays ==
  ASSUME ReservedIsOpenHolds, hold' = hold,
         \A t \in Tenants : wallet'[t].reserved = wallet[t].reserved
  PROVE  ReservedIsOpenHolds'
  BY DEF ReservedIsOpenHolds, OpenSizes, Total, Pieces

\* One grant enters the ledger.
LEMMA GrantMoves ==
  ASSUME NEW g \in Grants, <<"grant", g>> \notin ledger,
         ledger' = ledger \union {<<"grant", g>>},
         NEW t \in Tenants
  PROVE  /\ Total(GrantsPosted(t), Grants) \in Nat
         /\ Total(GrantsPosted(t)', Grants)
              = Total(GrantsPosted(t), Grants) + (IF GrantTenant[g] = t THEN GrantAmount[g] ELSE 0)
<1> DEFINE a == GrantsPosted(t)
           b == GrantsPosted(t)'
<1>1. IsFiniteSet(Grants) /\ \A x \in Grants : GrantAmount[x] \in Nat
  BY WalletConstants
<1>2. \A x \in Grants : a[x] \in Nat /\ b[x] \in Nat
  BY <1>1 DEF GrantsPosted
<1>3. \A x \in Grants \ {g} : a[x] = b[x]
  BY DEF GrantsPosted
<1>4. a[g] = 0 /\ b[g] = IF GrantTenant[g] = t THEN GrantAmount[g] ELSE 0
  BY DEF GrantsPosted
<1> HIDE DEF a, b
<1>5. Total(b, Grants) = Total(a, Grants) - a[g] + b[g] /\ Total(a, Grants) \in Nat
      /\ b[g] \in Nat
  BY <1>1, <1>2, <1>3, TotalChange
<1>6. Total(b, Grants) = Total(a, Grants) + b[g]
  BY <1>4, <1>5
<1> QED
  BY <1>4, <1>5, <1>6 DEF a, b

\* One payment changes, with what of it is kept.
LEMMA PaymentMoves ==
  ASSUME RefundsBounded, RefundsBounded', refunded \in [Sessions -> Nat],
         refunded' \in [Sessions -> Nat],
         NEW s \in Sessions, NEW t \in Tenants,
         \A x \in Sessions \ {s} : refunded'[x] = refunded[x] /\ (x \in credited' <=> x \in credited)
  PROVE  /\ Total(PaymentsKept(t), Sessions) \in Nat
         /\ Total(PaymentsKept(t)', Sessions)
              = Total(PaymentsKept(t), Sessions) - PaymentsKept(t)[s] + PaymentsKept(t)'[s]
         /\ PaymentsKept(t)[s] \in Nat /\ PaymentsKept(t)'[s] \in Nat
<1> DEFINE a == PaymentsKept(t)
           b == PaymentsKept(t)'
<1>1. IsFiniteSet(Sessions) /\ \A x \in Sessions : SessionAmount[x] \in Nat
  BY WalletConstants
<1>2. \A x \in Sessions : a[x] \in Nat
  BY <1>1 DEF PaymentsKept, RefundsBounded
<1>3. \A x \in Sessions : b[x] \in Nat
  BY <1>1 DEF PaymentsKept, RefundsBounded
<1>4. \A x \in Sessions \ {s} : a[x] = b[x]
  BY DEF PaymentsKept
<1> HIDE DEF a, b
<1>5. /\ Total(b, Sessions) = Total(a, Sessions) - a[s] + b[s]
      /\ Total(a, Sessions) \in Nat /\ a[s] \in Nat /\ b[s] \in Nat
  BY <1>1, <1>2, <1>3, <1>4, TotalChange
<1> QED
  BY <1>5 DEF a, b

\* One hold changes, with what was charged for it.
LEMMA ChargeMoves ==
  ASSUME hold \in [Holds -> Hold], NEW h \in Holds, NEW r \in Hold,
         hold' = [hold EXCEPT ![h] = r], NEW t \in Tenants
  PROVE  /\ Total(HoldsCharged(t), Holds) \in Nat
         /\ Total(HoldsCharged(t)', Holds)
              = Total(HoldsCharged(t), Holds)
                - (IF HoldTenant[h] = t THEN ChargeIn(hold[h]) ELSE 0)
                + (IF HoldTenant[h] = t THEN ChargeIn(r) ELSE 0)
<1> DEFINE a == HoldsCharged(t)
           b == HoldsCharged(t)'
<1>1. IsFiniteSet(Holds)
  BY WalletConstants
<1>2. \A x \in Holds : hold[x].actual \in Nat /\ hold'[x].actual \in Nat
  BY DEF Hold
<1>3. \A x \in Holds : a[x] \in Nat /\ b[x] \in Nat
  BY <1>2 DEF HoldsCharged
<1>4. \A x \in Holds \ {h} : a[x] = b[x]
  BY DEF HoldsCharged
<1>5. /\ a[h] = IF HoldTenant[h] = t THEN ChargeIn(hold[h]) ELSE 0
      /\ b[h] = IF HoldTenant[h] = t THEN ChargeIn(r) ELSE 0
  BY DEF HoldsCharged, ChargeIn
<1> HIDE DEF a, b
<1>6. Total(b, Holds) = Total(a, Holds) - a[h] + b[h] /\ Total(a, Holds) \in Nat
  BY <1>1, <1>3, <1>4, TotalChange
<1> QED
  BY <1>5, <1>6 DEF a, b

\* The sums that a step leaves alone.
LEMMA GrantsStay ==
  ASSUME \A g \in Grants : <<"grant", g>> \in ledger' <=> <<"grant", g>> \in ledger, NEW t
  PROVE  Total(GrantsPosted(t)', Grants) = Total(GrantsPosted(t), Grants)
<1>1. GrantsPosted(t)' = GrantsPosted(t)
  BY DEF GrantsPosted
<1> QED
  BY <1>1

LEMMA PaymentsStay ==
  ASSUME UNCHANGED <<credited, refunded>>, NEW t
  PROVE  Total(PaymentsKept(t)', Sessions) = Total(PaymentsKept(t), Sessions)
<1>1. PaymentsKept(t)' = PaymentsKept(t)
  BY DEF PaymentsKept
<1> QED
  BY <1>1

LEMMA ChargesStay ==
  ASSUME UNCHANGED hold, NEW t
  PROVE  Total(HoldsCharged(t)', Holds) = Total(HoldsCharged(t), Holds)
<1>1. HoldsCharged(t)' = HoldsCharged(t)
  BY DEF HoldsCharged
<1> QED
  BY <1>1

\* The sums are numbers.
LEMMA SumTypes ==
  ASSUME TableInv, RefundsBounded, NEW t \in Tenants
  PROVE  /\ Total(GrantsPosted(t), Grants) \in Nat
         /\ Total(PaymentsKept(t), Sessions) \in Nat
         /\ Total(HoldsCharged(t), Holds) \in Nat
<1>1. \A x \in Grants : GrantsPosted(t)[x] \in Nat
  BY WalletConstants DEF GrantsPosted
<1>2. \A x \in Sessions : PaymentsKept(t)[x] \in Nat
  BY WalletConstants DEF PaymentsKept, RefundsBounded, TableInv
<1>3. \A x \in Holds : hold[x].actual \in Nat
  BY DEF TableInv, Hold
<1>4. \A x \in Holds : HoldsCharged(t)[x] \in Nat
  BY <1>3 DEF HoldsCharged
<1>5. IsFiniteSet(Grants) /\ IsFiniteSet(Sessions) /\ IsFiniteSet(Holds)
  BY WalletConstants
<1> QED
  BY <1>1, <1>2, <1>4, <1>5, TotalType

\* The part of the invariant about the sums.
PostedInv == \A t \in Tenants : posted[t] = Posted(t)
SumInv == RefundsBounded /\ ReservedIsOpenHolds /\ PostedInv

LEMMA SplitBooks == BooksInv <=> IndInv /\ SumInv
  BY DEF BooksInv, SumInv, PostedInv, Posted, LedgerExplained, IndInv, LedgerBalances

LEMMA SplitBooksNext == IndInv' /\ SumInv' => BooksInv'
  BY DEF BooksInv, SumInv, PostedInv, Posted, LedgerExplained, IndInv, LedgerBalances

\* A hold changes, the ledger line of its charge is written, and nothing else.
LEMMA HoldBooks ==
  ASSUME WalletInv, TableInv, SumInv, NEW h \in Holds, NEW r \in Hold, NEW w,
         hold' = [hold EXCEPT ![h] = r],
         wallet' = [wallet EXCEPT ![HoldTenant[h]] = w],
         w.reserved = wallet[HoldTenant[h]].reserved - SizeIn(hold[h], h) + SizeIn(r, h),
         posted' = [posted EXCEPT ![HoldTenant[h]] = @ + ChargeIn(hold[h]) - ChargeIn(r)],
         ledger' \subseteq ledger \union {<<"settlement", h>>}, ledger \subseteq ledger',
         UNCHANGED <<credited, refunded>>
  PROVE  SumInv'
<1> DEFINE u == HoldTenant[h]
<1>1. u \in Tenants /\ wallet \in [Tenants -> Wallet] /\ posted \in [Tenants -> Int]
      /\ hold \in [Holds -> Hold]
  BY WalletConstants DEF WalletInv, TableInv
<1>2. ReservedIsOpenHolds'
  BY <1>1, ReservedMoves DEF SumInv
<1>3. RefundsBounded'
  BY DEF SumInv, RefundsBounded
<1>4. \A g \in Grants : <<"grant", g>> \in ledger' <=> <<"grant", g>> \in ledger
  OBVIOUS
<1>5. ASSUME NEW t \in Tenants PROVE posted'[t] = Posted(t)'
  <2> DEFINE a == Total(GrantsPosted(t), Grants)
             b == Total(PaymentsKept(t), Sessions)
             c == Total(HoldsCharged(t), Holds)
             d == Total(HoldsCharged(t)', Holds)
             x == ChargeIn(hold[h])
             y == ChargeIn(r)
  <2>1. posted[t] = a + b - c /\ posted[t] \in Int
    BY <1>1 DEF SumInv, PostedInv, Posted
  <2>2. a \in Nat /\ b \in Nat /\ c \in Nat
    BY SumTypes DEF SumInv
  <2>3. d = c - (IF u = t THEN x ELSE 0) + (IF u = t THEN y ELSE 0)
    BY <1>1, ChargeMoves
  <2>4. Posted(t)' = a + b - d
    BY <1>4, GrantsStay, PaymentsStay DEF Posted
  <2>5. x \in Nat /\ y \in Nat
    BY <1>1 DEF ChargeIn, Hold
  <2>6. posted'[t] = IF u = t THEN posted[t] + x - y ELSE posted[t]
    BY <1>1
  <2> HIDE DEF a, b, c, d, x, y, u
  <2>7. posted'[t] = a + b - d
    BY <2>1, <2>2, <2>3, <2>5, <2>6
  <2> QED
    BY <2>4, <2>7
<1>6. PostedInv'
  BY <1>5 DEF PostedInv
<1> QED
  BY <1>2, <1>3, <1>6 DEF SumInv

\* Closing a hold.
LEMMA CloseBooks ==
  ASSUME WalletInv, TableInv, SumInv, NEW h \in Holds, NEW actual \in Nat,
         NEW state \in ClosedStates, NEW line \in BOOLEAN, ~line => actual = 0,
         state = "released" => actual = 0,
         Close(h, actual, state, line)
  PROVE  SumInv'
<1> DEFINE u == HoldTenant[h]
           charged == ChargedWallet(wallet[u], h, actual)
           w == ReconcileManagedDebt(charged)
           r == [hold[h] EXCEPT !.state = state, !.actual = actual]
<1>1. u \in Tenants /\ wallet[u] \in Wallet /\ wallet[u].reserved \in Int /\ hold[h] \in Hold
      /\ hold \in [Holds -> Hold] /\ posted \in [Tenants -> Int] /\ posted[u] \in Int
      /\ HoldSize[h] \in Nat
  BY WalletConstants DEF WalletInv, TableInv, Wallet
<1>2. /\ hold' = [hold EXCEPT ![h] = r]
      /\ wallet' = [wallet EXCEPT ![u] = w]
      /\ WalletCheck(charged)
      /\ hold[h].state \in OpenStates
      /\ UNCHANGED <<credited, refunded>>
  BY DEF Close, MayClose
<1>3. r \in Hold /\ r.state = state /\ r.actual = actual
  BY <1>1 DEF Hold, ClosedStates
<1>4. charged \in Wallet /\ charged.reserved = wallet[u].reserved - HoldSize[h]
  BY <1>1, ChargedNet
<1>5. w.reserved = charged.reserved
  BY <1>2, <1>4, ReconcileSound
<1>6. SizeIn(hold[h], h) = HoldSize[h] /\ SizeIn(r, h) = 0
  BY <1>2, <1>3 DEF SizeIn, OpenStates, ClosedStates
<1>7. ChargeIn(hold[h]) = 0 /\ ChargeIn(r) = actual
  BY <1>2, <1>3 DEF ChargeIn, OpenStates, ClosedStates
<1>8. <<"settlement", h>> \notin ledger
  BY <1>2 DEF TableInv, OpenStates, ClosedStates
<1>9. /\ posted' = [posted EXCEPT ![u] = posted[u] - actual]
      /\ ledger' \subseteq ledger \union {<<"settlement", h>>} /\ ledger \subseteq ledger'
  <2>1. CASE line
    BY <1>8, <2>1 DEF Close
  <2>2. CASE ~line
    <3>1. UNCHANGED <<ledger, posted>> /\ actual = 0
      BY <2>2 DEF Close
    <3>2. posted[u] - actual = posted[u]
      BY <1>1, <3>1
    <3> QED
      BY <1>1, <3>1, <3>2
  <2> QED
    BY <2>1, <2>2
<1>10. posted[u] + ChargeIn(hold[h]) - ChargeIn(r) = posted[u] - actual
  BY <1>1, <1>7
<1>11. w.reserved = wallet[u].reserved - SizeIn(hold[h], h) + SizeIn(r, h)
  BY <1>1, <1>4, <1>5, <1>6
<1>12. posted' = [posted EXCEPT ![u] = @ + ChargeIn(hold[h]) - ChargeIn(r)]
  BY <1>1, <1>9, <1>10
<1> HIDE DEF w, r, charged
<1> QED
  BY <1>2, <1>3, <1>9, <1>11, <1>12, HoldBooks

\* Changing a hold without charging for it: only placing it reserves money.
LEMMA OpenBooks ==
  ASSUME WalletInv, TableInv, SumInv, NEW h \in Holds, NEW r \in Hold, NEW w \in Wallet,
         hold[h].state \notin ClosedStates, r.state \in OpenStates,
         hold' = [hold EXCEPT ![h] = r],
         wallet' = [wallet EXCEPT ![HoldTenant[h]] = w],
         w.reserved = wallet[HoldTenant[h]].reserved - SizeIn(hold[h], h) + HoldSize[h],
         UNCHANGED <<posted, ledger, credited, refunded>>
  PROVE  SumInv'
<1> DEFINE u == HoldTenant[h]
<1>1. u \in Tenants /\ posted \in [Tenants -> Int] /\ posted[u] \in Int
  BY WalletConstants DEF WalletInv
<1>2. ChargeIn(hold[h]) = 0 /\ ChargeIn(r) = 0 /\ SizeIn(r, h) = HoldSize[h]
  BY DEF ChargeIn, SizeIn, OpenStates, ClosedStates
<1>3. posted[u] + 0 - 0 = posted[u]
  BY <1>1
<1>4. posted' = [posted EXCEPT ![u] = @ + ChargeIn(hold[h]) - ChargeIn(r)]
  BY <1>1, <1>2, <1>3
<1> QED
  BY <1>2, <1>4, HoldBooks

\* Nothing the sums count changes.
LEMMA BooksStay ==
  ASSUME SumInv, UNCHANGED <<wallet, posted, ledger, credited, refunded, hold>>
  PROVE  SumInv'
<1>1. RefundsBounded' /\ ReservedIsOpenHolds'
  BY ReservedStays DEF SumInv, RefundsBounded
<1>2. PostedInv'
  BY GrantsStay, PaymentsStay, ChargesStay DEF SumInv, PostedInv, Posted
<1> QED
  BY <1>1, <1>2 DEF SumInv

\* An operator credit is posted once, as the grant it is.
LEMMA GrantBooks ==
  ASSUME WalletInv, TableInv, SumInv, NEW g \in Grants, CreditManagedWallet(g)
  PROVE  SumInv'
<1> DEFINE u == GrantTenant[g]
           w == ApplyManagedCredit(wallet[u], GrantAmount[g])
<1>1. u \in Tenants /\ wallet \in [Tenants -> Wallet] /\ posted \in [Tenants -> Int]
      /\ GrantAmount[g] \in Nat /\ Sound(wallet[u])
  BY WalletConstants DEF WalletInv
<1>2. /\ <<"grant", g>> \notin ledger /\ ledger' = ledger \union {<<"grant", g>>}
      /\ posted' = [posted EXCEPT ![u] = @ + GrantAmount[g]]
      /\ wallet' = [wallet EXCEPT ![u] = w]
      /\ UNCHANGED <<credited, refunded, hold>>
  BY DEF CreditManagedWallet
<1>3. w.reserved = wallet[u].reserved
  BY <1>1, CreditSound
<1> HIDE DEF w
<1>4. \A t \in Tenants : wallet'[t].reserved = wallet[t].reserved
  BY <1>1, <1>2, <1>3
<1>5. ReservedIsOpenHolds' /\ RefundsBounded'
  BY <1>2, <1>4, ReservedStays DEF SumInv, RefundsBounded
<1>6. ASSUME NEW t \in Tenants PROVE posted'[t] = Posted(t)'
  <2> DEFINE a == Total(GrantsPosted(t), Grants)
             b == Total(PaymentsKept(t), Sessions)
             c == Total(HoldsCharged(t), Holds)
             d == Total(GrantsPosted(t)', Grants)
             x == GrantAmount[g]
  <2>1. posted[t] = a + b - c /\ posted[t] \in Int
    BY <1>1 DEF SumInv, PostedInv, Posted
  <2>2. a \in Nat /\ b \in Nat /\ c \in Nat /\ x \in Nat
    BY <1>1, SumTypes DEF SumInv
  <2>3. d = a + (IF u = t THEN x ELSE 0)
    BY <1>2, GrantMoves
  <2>4. Posted(t)' = d + b - c
    BY <1>2, PaymentsStay, ChargesStay DEF Posted
  <2>5. posted'[t] = IF u = t THEN posted[t] + x ELSE posted[t]
    BY <1>1, <1>2
  <2> HIDE DEF a, b, c, d, x, u
  <2>6. posted'[t] = d + b - c
    BY <2>1, <2>2, <2>3, <2>5
  <2> QED
    BY <2>4, <2>6
<1> QED
  BY <1>5, <1>6 DEF SumInv, PostedInv

\* A payment changes by n, credited or refunded, and the ledger by as much.
LEMMA PaymentBooks ==
  ASSUME WalletInv, TableInv, SumInv, RefundsBounded',
         NEW s \in Sessions, NEW w, NEW n \in Int,
         refunded' \in [Sessions -> Nat],
         \A x \in Sessions \ {s} : refunded'[x] = refunded[x] /\ (x \in credited' <=> x \in credited),
         \A t \in Tenants : PaymentsKept(t)'[s]
                              = PaymentsKept(t)[s] + (IF SessionTenant[s] = t THEN n ELSE 0),
         wallet' = [wallet EXCEPT ![SessionTenant[s]] = w],
         w.reserved = wallet[SessionTenant[s]].reserved,
         posted' = [posted EXCEPT ![SessionTenant[s]] = @ + n],
         \A g \in Grants : <<"grant", g>> \in ledger' <=> <<"grant", g>> \in ledger,
         UNCHANGED hold
  PROVE  SumInv'
<1> DEFINE u == SessionTenant[s]
<1>1. u \in Tenants /\ wallet \in [Tenants -> Wallet] /\ posted \in [Tenants -> Int]
      /\ refunded \in [Sessions -> Nat]
  BY WalletConstants DEF WalletInv, TableInv
<1>2. \A t \in Tenants : wallet'[t].reserved = wallet[t].reserved
  BY <1>1
<1>3. ReservedIsOpenHolds'
  BY <1>2, ReservedStays DEF SumInv
<1>4. ASSUME NEW t \in Tenants PROVE posted'[t] = Posted(t)'
  <2> DEFINE a == Total(GrantsPosted(t), Grants)
             b == Total(PaymentsKept(t), Sessions)
             c == Total(HoldsCharged(t), Holds)
             d == Total(PaymentsKept(t)', Sessions)
             x == PaymentsKept(t)[s]
             y == PaymentsKept(t)'[s]
  <2>1. posted[t] = a + b - c /\ posted[t] \in Int
    BY <1>1 DEF SumInv, PostedInv, Posted
  <2>2. a \in Nat /\ b \in Nat /\ c \in Nat
    BY SumTypes DEF SumInv
  <2>3. d = b - x + y /\ x \in Nat /\ y \in Nat
    BY <1>1, PaymentMoves DEF SumInv
  <2>4. y = x + (IF u = t THEN n ELSE 0)
    OBVIOUS
  <2>5. Posted(t)' = a + d - c
    BY GrantsStay, ChargesStay DEF Posted
  <2>6. posted'[t] = IF u = t THEN posted[t] + n ELSE posted[t]
    BY <1>1
  <2> HIDE DEF a, b, c, d, x, y, u
  <2>7. posted'[t] = a + d - c
    BY <2>1, <2>2, <2>3, <2>4, <2>6
  <2> QED
    BY <2>5, <2>7
<1> QED
  BY <1>3, <1>4 DEF SumInv, PostedInv

\* A paid session is posted once, whatever announced it.
LEMMA CreditBooks ==
  ASSUME WalletInv, TableInv, SumInv, NEW e \in Events, ProcessManagedPaymentEvent(e)
  PROVE  SumInv'
<1> DEFINE s == e.session
           u == SessionTenant[s]
           w == ApplyManagedCredit(wallet[u], e.amount)
<1>1. s \in Sessions /\ e.amount \in Nat /\ u \in Tenants
  <2>1. e \in Event
    BY WalletConstants
  <2> QED
    BY <2>1, WalletConstants DEF Event
<1>2. wallet \in [Tenants -> Wallet] /\ posted \in [Tenants -> Int]
      /\ Sound(wallet[u]) /\ refunded \in [Sessions -> Nat] /\ credited \subseteq Sessions
  BY <1>1 DEF WalletInv, TableInv
<1>3. CASE s \in credited
  <2>1. UNCHANGED <<wallet, posted, ledger, credited, refunded, hold>>
    BY <1>3 DEF ProcessManagedPaymentEvent
  <2> QED
    BY <2>1, BooksStay
<1>4. CASE s \notin credited
  <2>1. /\ credited' = credited \union {s}
        /\ ledger' = ledger \union {<<"credit", s>>}
        /\ posted' = [posted EXCEPT ![u] = @ + e.amount]
        /\ wallet' = [wallet EXCEPT ![u] = w]
        /\ UNCHANGED <<refunded, hold>>
        /\ e.amount = SessionAmount[s]
    BY <1>4 DEF ProcessManagedPaymentEvent, Matches
  <2>2. w.reserved = wallet[u].reserved
    BY <1>1, <1>2, CreditSound
  <2>3. refunded[s] = 0 /\ RefundsBounded'
    BY <1>1, <1>4, <2>1 DEF SumInv, RefundsBounded
  <2>4. ASSUME NEW t \in Tenants
        PROVE  PaymentsKept(t)'[s] = PaymentsKept(t)[s] + (IF u = t THEN e.amount ELSE 0)
    <3>1. PaymentsKept(t)[s] = 0
      BY <1>1, <1>4 DEF PaymentsKept
    <3>2. PaymentsKept(t)'[s] = IF u = t THEN SessionAmount[s] - refunded[s] ELSE 0
      BY <1>1, <2>1 DEF PaymentsKept
    <3> QED
      BY <1>1, <2>1, <2>3, <3>1, <3>2
  <2>5. \A g \in Grants : <<"grant", g>> \in ledger' <=> <<"grant", g>> \in ledger
    BY <2>1
  <2>6. refunded' \in [Sessions -> Nat] /\ e.amount \in Int
        /\ \A x \in Sessions \ {s} : refunded'[x] = refunded[x] /\ (x \in credited' <=> x \in credited)
    BY <1>1, <1>2, <2>1
  <2> HIDE DEF w
  <2> QED
    BY <1>1, <2>1, <2>2, <2>3, <2>4, <2>5, <2>6, PaymentBooks
<1> QED
  BY <1>3, <1>4

\* A refund lowers what is kept of the payment by its share of the total.
LEMMA RefundBooks ==
  ASSUME WalletInv, TableInv, SumInv, NEW e \in Events, ProcessManagedRefund(e)
  PROVE  SumInv'
<1> DEFINE s == e.session
           u == SessionTenant[s]
           delta == e.amount - refunded[s]
           w == RefundedWallet(wallet[u], delta)
<1>1. s \in Sessions /\ e.amount \in Nat /\ u \in Tenants /\ SessionAmount[s] \in Nat
  <2>1. e \in Event
    BY WalletConstants
  <2> QED
    BY <2>1, WalletConstants DEF Event
<1>2. wallet \in [Tenants -> Wallet] /\ posted \in [Tenants -> Int] /\ posted[u] \in Int
      /\ Sound(wallet[u]) /\ refunded \in [Sessions -> Nat] /\ refunded[s] \in Nat
  BY <1>1 DEF WalletInv, TableInv
<1>3. s \in credited /\ e.amount <= SessionAmount[s] /\ e.amount >= refunded[s]
      /\ UNCHANGED <<credited, hold>>
  BY DEF ProcessManagedRefund, RefundLegal
<1>4. CASE delta = 0
  <2>1. UNCHANGED <<wallet, posted, ledger, refunded>>
    BY <1>4 DEF ProcessManagedRefund
  <2> QED
    BY <1>3, <2>1, BooksStay
<1>5. CASE delta # 0
  <2>1. /\ wallet' = [wallet EXCEPT ![u] = w]
        /\ refunded' = [refunded EXCEPT ![s] = e.amount]
        /\ ledger' = ledger \union {<<"refund", e.id>>}
        /\ posted' = [posted EXCEPT ![u] = posted[u] - delta]
    BY <1>5 DEF ProcessManagedRefund
  <2>2. delta \in Nat
    BY <1>1, <1>2, <1>3
  <2>3. w.reserved = wallet[u].reserved
    BY <1>2, <2>2, RefundSound
  <2> DEFINE n == 0 - delta
  <2>4. n \in Int /\ posted[u] - delta = posted[u] + n
    BY <1>2, <2>2
  <2>5. posted' = [posted EXCEPT ![u] = @ + n]
    BY <2>1, <2>4
  <2>6. refunded' \in [Sessions -> Nat] /\ RefundsBounded'
        /\ \A x \in Sessions \ {s} : refunded'[x] = refunded[x] /\ (x \in credited' <=> x \in credited)
    BY <1>1, <1>2, <1>3, <2>1 DEF SumInv, RefundsBounded
  <2>7. ASSUME NEW t \in Tenants
        PROVE  PaymentsKept(t)'[s] = PaymentsKept(t)[s] + (IF u = t THEN n ELSE 0)
    <3>1. PaymentsKept(t)[s] = IF u = t THEN SessionAmount[s] - refunded[s] ELSE 0
      BY <1>1, <1>3 DEF PaymentsKept
    <3>2. PaymentsKept(t)'[s] = IF u = t THEN SessionAmount[s] - e.amount ELSE 0
      BY <1>1, <1>2, <1>3, <2>1 DEF PaymentsKept
    <3> QED
      BY <1>1, <1>2, <3>1, <3>2
  <2>8. \A g \in Grants : <<"grant", g>> \in ledger' <=> <<"grant", g>> \in ledger
    BY <2>1
  <2> HIDE DEF w, n, delta
  <2> QED
    BY <1>1, <1>3, <2>1, <2>3, <2>4, <2>5, <2>6, <2>7, <2>8, PaymentBooks
<1> QED
  BY <1>4, <1>5

\* Placing a hold reserves its size.
LEMMA ReserveBooks ==
  ASSUME WalletInv, TableInv, SumInv, NEW h \in Holds, Reserve(h)
  PROVE  SumInv'
<1> DEFINE u == HoldTenant[h]
           w == HeldWallet(wallet[u], h)
           r == [hold[h] EXCEPT !.state = "reserved"]
<1>1. u \in Tenants /\ Sound(wallet[u]) /\ wallet[u].reserved \in Int /\ hold[h] \in Hold
      /\ HoldSize[h] \in Nat
  BY WalletConstants DEF WalletInv, TableInv, Sound, Wallet
<1>2. Sound(w) /\ w.reserved = wallet[u].reserved + HoldSize[h]
  BY <1>1, HeldSound DEF Reserve
<1>3. r \in Hold /\ r.state \in OpenStates
  BY <1>1 DEF Hold, OpenStates
<1>4. SizeIn(hold[h], h) = 0 /\ hold[h].state \notin ClosedStates
  BY DEF Reserve, SizeIn, OpenStates, ClosedStates
<1>5. /\ hold' = [hold EXCEPT ![h] = r] /\ wallet' = [wallet EXCEPT ![u] = w]
      /\ UNCHANGED <<posted, ledger, credited, refunded>>
  BY DEF Reserve
<1>6. w.reserved = wallet[u].reserved - SizeIn(hold[h], h) + HoldSize[h]
  BY <1>1, <1>2, <1>4
<1>7. w \in Wallet
  BY <1>2 DEF Sound
<1> HIDE DEF w, r
<1> QED
  BY <1>3, <1>4, <1>5, <1>6, <1>7, OpenBooks

\* An open hold that stays open keeps its size.
LEMMA KeepBooks ==
  ASSUME WalletInv, TableInv, SumInv, NEW h \in Holds, NEW r \in Hold,
         hold[h].state \in OpenStates, r.state \in OpenStates,
         hold' = [hold EXCEPT ![h] = r],
         UNCHANGED <<wallet, posted, ledger, credited, refunded>>
  PROVE  SumInv'
<1> DEFINE u == HoldTenant[h]
<1>1. u \in Tenants /\ wallet \in [Tenants -> Wallet] /\ wallet[u] \in Wallet
      /\ wallet[u].reserved \in Int /\ HoldSize[h] \in Nat
  BY WalletConstants DEF WalletInv, Wallet
<1>2. SizeIn(hold[h], h) = HoldSize[h] /\ hold[h].state \notin ClosedStates
  BY DEF SizeIn, OpenStates, ClosedStates
<1>3. wallet[u].reserved = wallet[u].reserved - SizeIn(hold[h], h) + HoldSize[h]
  BY <1>1, <1>2
<1>4. wallet' = [wallet EXCEPT ![u] = wallet[u]]
  BY <1>1
<1> QED
  BY <1>1, <1>2, <1>3, <1>4, OpenBooks

\* Every step keeps the sums.
LEMMA NextBooks == ASSUME IndInv, SumInv, [Next]_vars PROVE SumInv'
<1>0. WalletInv /\ TableInv
  BY Split
<1>1. ASSUME NEW g \in Grants, CreditManagedWallet(g) PROVE SumInv'
  BY <1>0, <1>1, GrantBooks
<1>2. ASSUME NEW s \in Sessions, CompleteManagedFundingIntent(s) PROVE SumInv'
  BY <1>2, BooksStay DEF CompleteManagedFundingIntent
<1>3. ASSUME NEW e \in Events, IgnorePaymentEvent(e) PROVE SumInv'
  BY <1>3, BooksStay DEF IgnorePaymentEvent
<1>4. ASSUME NEW e \in Events, ProcessManagedPaymentEvent(e) PROVE SumInv'
  BY <1>0, <1>4, CreditBooks
<1>5. ASSUME NEW e \in Events, ProcessManagedRefund(e) PROVE SumInv'
  BY <1>0, <1>5, RefundBooks
<1>6. ASSUME NEW h \in Holds,
             AuthorizeManagedUsage(h) \/ ReserveManagedSandboxSpend(h) \/ ReserveManagedDeployment(h)
      PROVE  SumInv'
  BY <1>0, <1>6, ReserveBooks
     DEF AuthorizeManagedUsage, ReserveManagedSandboxSpend, ReserveManagedDeployment
<1>7. ASSUME NEW h \in Holds, ActivateManagedSandboxSpend(h) \/ ActivateManagedDeployment(h)
      PROVE  SumInv'
  <2> DEFINE r == [hold[h] EXCEPT !.activated = TRUE]
  <2>1. Activate(h) /\ hold[h] \in Hold
    BY <1>0, <1>7 DEF ActivateManagedSandboxSpend, ActivateManagedDeployment, TableInv
  <2>2. hold[h].state \in OpenStates /\ hold' = [hold EXCEPT ![h] = r]
        /\ UNCHANGED <<wallet, posted, ledger, credited, refunded>>
    BY <2>1 DEF Activate, OpenStates
  <2>3. r \in Hold /\ r.state \in OpenStates
    BY <2>1, <2>2 DEF Hold
  <2> HIDE DEF r
  <2> QED
    BY <1>0, <2>2, <2>3, KeepBooks
<1>8. ASSUME NEW h \in Holds, SettleWithoutUsage(h) PROVE SumInv'
  <2> DEFINE r == [hold[h] EXCEPT !.state = "pending_reconciliation"]
  <2>1. hold[h].state \in OpenStates /\ hold' = [hold EXCEPT ![h] = r]
        /\ UNCHANGED <<wallet, posted, ledger, credited, refunded>>
    BY <1>8 DEF SettleWithoutUsage, MayClose
  <2>2. r \in Hold /\ r.state \in OpenStates
    BY <1>0 DEF TableInv, Hold, OpenStates
  <2> HIDE DEF r
  <2> QED
    BY <1>0, <2>1, <2>2, KeepBooks
<1>9. ASSUME NEW h \in Holds, ReleaseManagedUsage(h) \/ ReleaseManagedSandboxSpend(h) PROVE SumInv'
  <2>1. Close(h, 0, "released", FALSE) /\ "released" \in ClosedStates
    BY <1>9 DEF ReleaseManagedUsage, ReleaseManagedSandboxSpend, ClosedStates
  <2> QED
    BY <1>0, <2>1, CloseBooks
<1>10. ASSUME NEW h \in Holds, NEW cost \in 0..MaxCost, SettleManagedUsage(h, cost) PROVE SumInv'
  <2>1. cost \in Nat /\ "settled" \in ClosedStates
    BY WalletConstants DEF ClosedStates
  <2> QED
    BY <1>0, <1>10, <2>1, CapType, CloseBooks DEF SettleManagedUsage
<1>11. ASSUME NEW h \in Holds, NEW cost \in 0..MaxCost, SettleManagedSandboxSpend(h, cost)
       PROVE  SumInv'
  <2> DEFINE actual == Least(cost, HoldSize[h])
  <2>1. cost \in Nat /\ "settled" \in ClosedStates
    BY WalletConstants DEF ClosedStates
  <2>2. actual \in Nat
    BY <2>1, CapType
  <2>3. Close(h, actual, "settled", actual > 0)
    BY <1>11 DEF SettleManagedSandboxSpend
  <2> HIDE DEF actual
  <2>4. (actual > 0) \in BOOLEAN /\ (~(actual > 0) => actual = 0)
    BY <2>2
  <2> QED
    BY <1>0, <2>1, <2>2, <2>3, <2>4, CloseBooks
<1>12. ASSUME NEW h \in Holds, NEW cost \in 0..MaxCost, FinalizeManagedDeploymentSpend(h, cost)
       PROVE  SumInv'
  <2> DEFINE actual == IF hold[h].activated THEN Least(cost, HoldSize[h]) ELSE 0
             state == IF hold[h].activated THEN "settled" ELSE "released"
  <2>1. cost \in Nat /\ state \in ClosedStates /\ (state = "released" => actual = 0)
    BY WalletConstants DEF ClosedStates
  <2>2. actual \in Nat
    BY <2>1, CapType
  <2>3. Close(h, actual, state, actual > 0)
    BY <1>12 DEF FinalizeManagedDeploymentSpend
  <2> HIDE DEF actual, state
  <2>4. (actual > 0) \in BOOLEAN /\ (~(actual > 0) => actual = 0)
    BY <2>2
  <2> QED
    BY <1>0, <2>1, <2>2, <2>3, <2>4, CloseBooks
<1>13. ASSUME UNCHANGED vars PROVE SumInv'
  BY <1>13, BooksStay DEF vars
<1> QED
  BY <1>1, <1>2, <1>3, <1>4, <1>5, <1>6, <1>7, <1>8, <1>9, <1>10, <1>11, <1>12, <1>13 DEF Next

\* Before anything happened every sum is 0.
LEMMA InitBooks == ASSUME Init PROVE SumInv
<1>1. RefundsBounded
  BY WalletConstants DEF Init, RefundsBounded
<1>2. IsFiniteSet(Grants) /\ IsFiniteSet(Sessions) /\ IsFiniteSet(Holds)
  BY WalletConstants
<1>3. ASSUME NEW t \in Tenants
      PROVE  /\ Total(OpenSizes(t), Holds) = 0
             /\ Total(GrantsPosted(t), Grants) = 0
             /\ Total(PaymentsKept(t), Sessions) = 0
             /\ Total(HoldsCharged(t), Holds) = 0
  <2>1. \A h \in Holds : OpenSizes(t)[h] = 0
    BY DEF Init, OpenSizes, OpenStates
  <2>2. \A g \in Grants : GrantsPosted(t)[g] = 0
    BY DEF Init, GrantsPosted
  <2>3. \A s \in Sessions : PaymentsKept(t)[s] = 0
    BY DEF Init, PaymentsKept
  <2>4. \A h \in Holds : HoldsCharged(t)[h] = 0
    BY DEF Init, HoldsCharged
  <2> QED
    BY <2>1, <2>2, <2>3, <2>4, TotalZero
<1>4. ReservedIsOpenHolds
  BY <1>3 DEF Init, ReservedIsOpenHolds
<1>5. PostedInv
  BY <1>3 DEF Init, PostedInv, Posted
<1> QED
  BY <1>1, <1>4, <1>5 DEF SumInv

\* The books stay in order, with all their sums.
THEOREM BooksInvariance == Spec => []BooksInv
<1>1. Init => BooksInv
  BY InitWallet, InitBooks, SplitBooks
<1>2. BooksInv /\ [Next]_vars => BooksInv'
  BY NextWallet, NextBooks, SplitBooks, SplitBooksNext
<1> QED
  BY <1>1, <1>2, PTL DEF Spec

\* At any time a wallet reserves exactly what its open holds hold, for any
\* number of tenants, holds and payments.
THEOREM ReservedExactly == Spec => []ReservedIsOpenHolds
<1>1. BooksInv => ReservedIsOpenHolds
  BY DEF BooksInv
<1> QED
  BY <1>1, BooksInvariance, PTL

\* At any time balance less debt is what was granted and paid, less what was
\* refunded and what the settled holds cost.
THEOREM LedgerIsExplained == Spec => []LedgerExplained
<1>1. BooksInv => LedgerExplained
  BY DEF BooksInv
<1> QED
  BY <1>1, BooksInvariance, PTL
=============================================================================
