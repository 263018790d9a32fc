--------------------------- MODULE FundingIntent ----------------------------
(***************************************************************************)
(* Creation of a prepaid checkout: POST .../checkout in the control API    *)
(* (controlapi/billing.go) over the funding-intent table                   *)
(* (store/funding_intents.go) and the payment provider.                    *)
(*                                                                         *)
(* A call prepares a durable intent for its idempotency key and takes a    *)
(* creation lease, asks the provider for a session, and records the        *)
(* session before it answers with its URL.  Calls of one key interleave at *)
(* every one of those points; a lease may expire under a slow call, a      *)
(* process may die, and the provider may prune its own idempotency key.    *)
(***************************************************************************)
EXTENDS Naturals, FiniteSets

CONSTANTS
  Keys,        \* funding intents: one per tenant and idempotency key
  Calls,       \* HTTP calls; a call's lease token is fresh, so it is the call itself
  KeyOf,       \* [Calls -> Keys]
  AmountOf,    \* [Calls -> Nat]: the amount in the request body
  None,
  MaxSessions, \* bound on sessions the provider creates
  MaxCallFaults    \* bound on failed requests, crashes and pruned keys

ASSUME FundingConstants ==
  /\ KeyOf \in [Calls -> Keys]
  /\ AmountOf \in [Calls -> Nat]
  /\ None \notin Calls
  /\ MaxSessions \in Nat
  /\ MaxCallFaults \in Nat

VARIABLES
  intent,      \* managed_funding_intents
  call,        \* the progress and the answer of each call
  remembered,  \* the session the provider replays for a key; 0 when it has none
  minted,      \* how many sessions the provider has created
  callFaults

fundingVars == <<intent, call, remembered, minted, callFaults>>

Intent == [status: {"absent", "pending", "completed"}, amount: Nat,
           token: Calls \union {None}, live: BOOLEAN, session: Nat]
Call == [pc: {"idle", "creating", "completing", "done"}, session: Nat,
         answer: {"none", "checkout", "conflict", "in_progress", "error"}]

NoIntent == [status |-> "absent", amount |-> 0, token |-> None, live |-> FALSE, session |-> 0]

FundingInit ==
  /\ intent = [k \in Keys |-> NoIntent]
  /\ call = [c \in Calls |-> [pc |-> "idle", session |-> 0, answer |-> "none"]]
  /\ remembered = [k \in Keys |-> 0]
  /\ minted = 0
  /\ callFaults = 0

\* INSERT ... ON CONFLICT DO NOTHING followed by SELECT ... FOR UPDATE.
Adopted(c) ==
  IF intent[KeyOf[c]].status = "absent"
  THEN [NoIntent EXCEPT !.status = "pending", !.amount = AmountOf[c]]
  ELSE intent[KeyOf[c]]

Answered(c, a, s) ==
  call' = [call EXCEPT ![c] = [pc |-> "done", session |-> s, answer |-> a]]

\* PrepareManagedFundingIntent and the handler's three early answers.
Prepare(c) ==
  LET row == Adopted(c) IN
  /\ call[c].pc = "idle"
  /\ \/ /\ row.amount # AmountOf[c]
        /\ Answered(c, "conflict", 0)
        /\ UNCHANGED intent
     \/ /\ row.amount = AmountOf[c]
        /\ row.status = "completed"
        /\ Answered(c, "checkout", row.session)
        /\ UNCHANGED intent
     \/ /\ row.amount = AmountOf[c]
        /\ row.status = "pending"
        /\ row.token # None /\ row.live
        /\ Answered(c, "in_progress", 0)
        /\ UNCHANGED intent
     \/ /\ row.amount = AmountOf[c]
        /\ row.status = "pending"
        /\ row.token = None \/ ~row.live
        /\ intent' = [intent EXCEPT ![KeyOf[c]] = [row EXCEPT !.token = c, !.live = TRUE]]
        /\ call' = [call EXCEPT ![c] = [@ EXCEPT !.pc = "creating"]]
  /\ UNCHANGED <<remembered, minted, callFaults>>

\* The provider answers a create request carrying the intent's ID as its
\* idempotency key: the session it remembers for the key, or a new one.
CreateCheckoutSession(c) ==
  LET k == KeyOf[c] IN
  /\ call[c].pc = "creating"
  /\ \/ /\ remembered[k] # 0
        /\ call' = [call EXCEPT ![c] = [@ EXCEPT !.pc = "completing", !.session = remembered[k]]]
        /\ UNCHANGED <<remembered, minted>>
     \/ /\ remembered[k] = 0
        /\ minted < MaxSessions
        /\ minted' = minted + 1
        /\ remembered' = [remembered EXCEPT ![k] = minted + 1]
        /\ call' = [call EXCEPT ![c] = [@ EXCEPT !.pc = "completing", !.session = minted + 1]]
  /\ UNCHANGED <<intent, callFaults>>

\* ReleaseManagedFundingIntentLease: guarded by the caller's own token.
Released(k, c) ==
  IF intent[k].status = "pending" /\ intent[k].token = c
  THEN [intent EXCEPT ![k] = [@ EXCEPT !.token = None, !.live = FALSE]]
  ELSE intent

\* The provider request fails (the provider may have created the session all
\* the same): the handler releases its lease and answers 502.
CreateFails(c) ==
  /\ call[c].pc = "creating"
  /\ callFaults < MaxCallFaults
  /\ callFaults' = callFaults + 1
  /\ \/ UNCHANGED <<remembered, minted>>
     \/ /\ remembered[KeyOf[c]] = 0
        /\ minted < MaxSessions
        /\ minted' = minted + 1
        /\ remembered' = [remembered EXCEPT ![KeyOf[c]] = minted + 1]
  /\ intent' = Released(KeyOf[c], c)
  /\ Answered(c, "error", 0)

\* Mutant: neither the token nor an earlier completion stops a late call.
MutMayCompleteAgain(k, c) == intent[k].status \in {"pending", "completed"}

\* CompleteManagedFundingIntent's guarded update.
CompletedBy(k, c) ==
  [intent EXCEPT ![k] = [@ EXCEPT !.status = "completed", !.session = call[c].session,
                                  !.token = None, !.live = FALSE]]

MayComplete(k, c) == intent[k].status = "pending" /\ intent[k].token = c

\* CompleteManagedFundingIntent and the handler's last answer.  When it fails
\* the handler assigns the zero intent that came with the error and releases
\* the lease of the intent whose ID is "", which is refused before any update:
\* the stored lease stays.
Complete(c) ==
  LET k == KeyOf[c] IN
  /\ call[c].pc = "completing"
  /\ \/ /\ MayComplete(k, c)
        /\ intent' = CompletedBy(k, c)
        /\ Answered(c, "checkout", call[c].session)
     \/ /\ intent[k].status = "completed"
        /\ intent[k].session = call[c].session
        /\ Answered(c, "checkout", call[c].session)
        /\ UNCHANGED intent
     \/ /\ ~MayComplete(k, c)
        /\ ~(intent[k].status = "completed" /\ intent[k].session = call[c].session)
        /\ Answered(c, "error", 0)
        /\ UNCHANGED intent
  /\ UNCHANGED <<remembered, minted, callFaults>>

\* The session is refused or the database is unavailable, or the commit goes
\* through and its answer is lost.
CompleteFails(c) ==
  LET k == KeyOf[c] IN
  /\ call[c].pc = "completing"
  /\ callFaults < MaxCallFaults
  /\ callFaults' = callFaults + 1
  /\ \/ UNCHANGED intent
     \/ /\ MayComplete(k, c)
        /\ intent' = CompletedBy(k, c)
  /\ Answered(c, "error", 0)
  /\ UNCHANGED <<remembered, minted>>

\* The process dies, or the caller goes away, between two steps of the handler.
CallCrashes(c) ==
  /\ call[c].pc \in {"creating", "completing"}
  /\ callFaults < MaxCallFaults
  /\ callFaults' = callFaults + 1
  /\ Answered(c, "none", 0)
  /\ UNCHANGED <<intent, remembered, minted>>

\* The creation lease of 30 seconds runs out.
LeaseExpires(k) ==
  /\ intent[k].live
  /\ intent' = [intent EXCEPT ![k] = [@ EXCEPT !.live = FALSE]]
  /\ UNCHANGED <<call, remembered, minted, callFaults>>

\* The provider prunes its idempotency key.
KeyPruned(k) ==
  /\ remembered[k] # 0
  /\ callFaults < MaxCallFaults
  /\ callFaults' = callFaults + 1
  /\ remembered' = [remembered EXCEPT ![k] = 0]
  /\ UNCHANGED <<intent, call, minted>>

FundingNext ==
  \/ \E c \in Calls : \/ Prepare(c) \/ CreateCheckoutSession(c) \/ CreateFails(c)
                      \/ Complete(c) \/ CompleteFails(c) \/ CallCrashes(c)
  \/ \E k \in Keys : LeaseExpires(k) \/ KeyPruned(k)

FundingSpec == FundingInit /\ [][FundingNext]_fundingVars

-----------------------------------------------------------------------------
\* The table, the calls and the provider hold values of their types, and the
\* table satisfies the CHECK of its migration: a completed intent has a session
\* and no lease, an incomplete one has no session.
FundingTypeOK ==
  /\ intent \in [Keys -> Intent]
  /\ \A k \in Keys : /\ (intent[k].status = "completed") <=> (intent[k].session # 0)
                     /\ intent[k].status # "pending" => intent[k].token = None
  /\ call \in [Calls -> Call]
  /\ remembered \in [Keys -> Nat]
  /\ minted \in Nat
  /\ callFaults \in 0..MaxCallFaults

\* A checkout URL a caller holds is the one the intent records, for the amount
\* the caller asked for, and stays it: every caller of a key is sent to the same
\* session, so the webhook of whichever session is paid matches a completed
\* intent and no key can be paid twice (CompleteManagedFundingIntent, the
\* handler's replies), however leases expire and completions arrive late.
HandedOutIsDurable ==
  \A c \in Calls : call[c].answer = "checkout" =>
    /\ intent[KeyOf[c]].status = "completed"
    /\ intent[KeyOf[c]].session = call[c].session
    /\ intent[KeyOf[c]].amount = AmountOf[c]
    /\ call[c].session # 0

\* What the calls in progress know of their intent.
FundingInv ==
  /\ FundingTypeOK
  /\ HandedOutIsDurable
  /\ \A c \in Calls : call[c].pc \in {"creating", "completing"} =>
       /\ intent[KeyOf[c]].status # "absent"
       /\ intent[KeyOf[c]].amount = AmountOf[c]
       /\ call[c].answer = "none"
  /\ \A c \in Calls : call[c].pc = "completing" => call[c].session # 0
  /\ \A c \in Calls : call[c].pc = "idle" => call[c].answer = "none"

=============================================================================
