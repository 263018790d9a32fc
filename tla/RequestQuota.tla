------------------------------ MODULE RequestQuota ------------------------------
(***************************************************************************)
(* The distributed request-rate quota of one tenant: the per-minute        *)
(* reservation rows of internal/store/quota.go and, on every gateway       *)
(* replica, the in-memory leases of internal/requestquota/pool.go, from    *)
(* which a request is authorized without a database call.                  *)
(*                                                                         *)
(* A UTC minute is a number.  One goroutine per replica runs Refresh and   *)
(* refillAll in turn; its steps are the sections of Pool.mu and the        *)
(* statements between them.  The refill ticker's channel keeps one tick,   *)
(* so the goroutine may act on a tick older than its last Refresh.         *)
(***************************************************************************)
EXTENDS Tally

CONSTANTS
    Replicas,
    QuotaLimits,       \* limits an operator sets
    NoLimit,         \* no policy row, no policy in memory, no tick
    Fraction,     \* a lease is this share of the limit (8 in the code)
    MaxLease,     \* and at most this many requests (32 in the code)
    MaxMinute,    \* bound on the clock
    MaxLag,       \* how many minutes a refill may take
    MaxChanges,   \* bound on quota changes in a behaviour
    MaxQuotaFaults     \* bound on crashes and lost answers

ASSUME QuotaConstants ==
    /\ IsFiniteSet(Replicas)
    /\ QuotaLimits \subseteq Nat
    /\ NoLimit \notin Int
    /\ Fraction \in Nat \ {0} /\ MaxLease \in Nat \ {0}
    /\ MaxMinute \in Nat /\ MaxLag \in Nat /\ MaxChanges \in Nat /\ MaxQuotaFaults \in Nat

Minutes == 0 .. MaxMinute

QuotaPolicy == QuotaLimits \cup {NoLimit}

Replica ==
    [ serving : BOOLEAN,                \* the startup Refresh is done
      limit   : QuotaPolicy,                 \* tenantState.limit; NoLimit: no entry
      tokens  : Nat,
      window  : Minutes,
      tick    : Minutes \cup {NoLimit},    \* the refill ticker's channel
      pc      : {"idle", "loaded", "refilling", "reserving", "granted"},
      read    : QuotaPolicy,                 \* the policy Refresh read, the limit refill saw
      target  : Minutes,                \* the window being refilled
      grant   : Nat ]

VARIABLES
    now,        \* the minute of the clock
    quota,      \* tenant_quotas.max_requests_per_minute
    reserved,   \* tenant_request_quota_windows.reserved_requests
    quotaPool,  \* each replica's tenantState and the progress of its goroutine
    spentQuota,      \* history: requests authorized from leases of each minute
    peak,       \* history: the largest limit in force since each minute began
    changes, quotaFaults

history == <<spentQuota, peak>>
quotaVars == <<now, quota, reserved, quotaPool, history, changes, quotaFaults>>

QuotaTypeOK ==
    /\ now \in Minutes
    /\ quota \in QuotaPolicy
    /\ reserved \in [Minutes -> Nat]
    /\ quotaPool \in [Replicas -> Replica]
    /\ spentQuota \in [Minutes -> Nat]
    /\ peak \in [Minutes -> Nat]
    /\ changes \in 0 .. MaxChanges
    /\ quotaFaults \in 0 .. MaxQuotaFaults

Fresh ==
    [ serving |-> FALSE, limit |-> NoLimit, tokens |-> 0, window |-> 0, tick |-> NoLimit,
      pc |-> "idle", read |-> NoLimit, target |-> 0, grant |-> 0 ]

LimitOf(q) == IF q = NoLimit THEN 0 ELSE q

QuotaInit ==
    /\ now = 0
    /\ quota \in QuotaPolicy
    /\ reserved = [m \in Minutes |-> 0]
    /\ quotaPool = [r \in Replicas |-> Fresh]
    /\ spentQuota = [m \in Minutes |-> 0]
    /\ peak = [m \in Minutes |-> LimitOf(quota)]
    /\ changes = 0
    /\ quotaFaults = 0

QuotaFault == quotaFaults < MaxQuotaFaults /\ quotaFaults' = quotaFaults + 1

Larger(a, b) == IF a > b THEN a ELSE b

Smaller(a, b) == IF a < b THEN a ELSE b

-----------------------------------------------------------------------------
(* The store.                                                              *)

SetTenantQuota ==
    /\ changes < MaxChanges
    /\ changes' = changes + 1
    /\ \E l \in QuotaLimits :
          /\ quota' = l
          /\ peak' = [m \in Minutes |-> IF m <= now THEN Larger(peak[m], l) ELSE l]
    /\ UNCHANGED <<now, reserved, quotaPool, spentQuota, quotaFaults>>

\* Mutant: the remainder ignores what is reserved.
MutRemainingAll(m) == quota

Remaining(m) == Larger(quota - reserved[m], 0)

LeaseSize(limit) == Smaller(Larger(limit \div Fraction, 1), MaxLease)

RefillThreshold(limit) == LeaseSize(limit) \div 2

\* ReserveRequestQuota also deletes the rows of minutes more than two before
\* the one it serves.
ReservedAfter(m, granted) ==
    [x \in Minutes |->
        IF x < m - 2 THEN 0 ELSE IF x = m THEN reserved[m] + granted ELSE reserved[x]]

-----------------------------------------------------------------------------
(* The refresh goroutine.                                                  *)

At(r, where) == quotaPool[r].pc = where

\* Between two turns the goroutine's locals are gone.
Rests(state) == [state EXCEPT !.pc = "idle", !.read = NoLimit, !.target = 0, !.grant = 0]

Is(r, state) == quotaPool' = [quotaPool EXCEPT ![r] = state]

\* Refresh: the policies are read, then published with the minute of that
\* moment; a changed limit or a new minute drops the tokens.
LoadPolicies(r) ==
    /\ At(r, "idle")
    /\ Is(r, [quotaPool[r] EXCEPT !.pc = "loaded", !.read = quota])
    /\ UNCHANGED <<now, quota, reserved, history, changes, quotaFaults>>

Kept(state, m, limit) ==
    IF state.window = m /\ state.limit = limit THEN state.tokens ELSE 0

Publish(r) ==
    LET state == quotaPool[r] IN
    /\ At(r, "loaded")
    /\ Is(r, [state EXCEPT !.pc = "refilling", !.target = now, !.serving = TRUE,
                           !.limit = state.read, !.read = NoLimit,
                           !.tokens = IF state.read = NoLimit THEN 0
                                      ELSE Kept(state, now, state.read),
                           !.window = now])
    /\ UNCHANGED <<now, quota, reserved, history, changes, quotaFaults>>

\* The refill ticker; a tick that finds the channel full is dropped.
TickerFires(r) ==
    /\ quotaPool[r].serving
    /\ quotaPool[r].tick = NoLimit
    /\ Is(r, [quotaPool[r] EXCEPT !.tick = now])
    /\ UNCHANGED <<now, quota, reserved, history, changes, quotaFaults>>

TakeTick(r) ==
    /\ At(r, "idle")
    /\ quotaPool[r].tick # NoLimit
    /\ Is(r, [quotaPool[r] EXCEPT !.pc = "refilling", !.target = quotaPool[r].tick, !.tick = NoLimit])
    /\ UNCHANGED <<now, quota, reserved, history, changes, quotaFaults>>

\* refill, first section.  Stopping early stands for its 100 ms throttle and for
\* a reservation that fails without a commit.
Refill(r) ==
    LET state == quotaPool[r]
        rolled == [state EXCEPT !.window = state.target,
                                !.tokens = Kept(state, state.target, state.limit)]
    IN
    /\ At(r, "refilling")
    /\ \/ /\ state.limit \notin {NoLimit, 0}
          /\ rolled.tokens <= RefillThreshold(state.limit)
          /\ Is(r, [rolled EXCEPT !.pc = "reserving", !.read = state.limit])
       \/ Is(r, Rests(rolled))
    /\ UNCHANGED <<now, quota, reserved, history, changes, quotaFaults>>

\* ReserveRequestQuota.
ReserveQuota(r) ==
    LET state == quotaPool[r]
        granted == Smaller(LeaseSize(state.read), Remaining(state.target))
    IN
    /\ At(r, "reserving")
    /\ quota # NoLimit
    /\ reserved' = ReservedAfter(state.target, granted)
    /\ Is(r, [state EXCEPT !.pc = "granted", !.grant = granted])
    /\ UNCHANGED <<now, quota, history, changes, quotaFaults>>

\* The transaction commits and its answer is lost.
ReserveAnswerLost(r) ==
    LET state == quotaPool[r]
        granted == Smaller(LeaseSize(state.read), Remaining(state.target))
    IN
    /\ At(r, "reserving")
    /\ quota # NoLimit
    /\ QuotaFault
    /\ reserved' = ReservedAfter(state.target, granted)
    /\ Is(r, Rests(state))
    /\ UNCHANGED <<now, quota, history, changes>>

\* refill, second section.
Credit(r) ==
    LET state == quotaPool[r] IN
    /\ At(r, "granted")
    /\ Is(r, [Rests(state) EXCEPT
                 !.tokens = IF state.window = state.target /\ state.limit = state.read
                            THEN @ + state.grant ELSE @])
    /\ UNCHANGED <<now, quota, reserved, history, changes, quotaFaults>>

-----------------------------------------------------------------------------
(* Requests, the clock and crashes.                                        *)

\* AuthorizeRequest, when it spends a token.  A request without a policy, or one that
\* is denied, changes nothing.
AuthorizeRequest(r) ==
    LET state == quotaPool[r] IN
    /\ state.serving
    /\ state.limit \notin {NoLimit, 0}
    /\ state.tokens >= 1
    /\ Is(r, [state EXCEPT !.tokens = @ - 1])
    /\ spentQuota' = [spentQuota EXCEPT ![state.window] = @ + 1]
    /\ UNCHANGED <<now, quota, reserved, peak, changes, quotaFaults>>

\* A refill in progress is at most MaxLag minutes old.
MinutePasses ==
    /\ now < MaxMinute
    /\ \A r \in Replicas :
          /\ quotaPool[r].pc \in {"refilling", "reserving"} => quotaPool[r].target + MaxLag > now
          /\ quotaPool[r].tick # NoLimit => quotaPool[r].tick + MaxLag > now
    /\ now' = now + 1
    /\ UNCHANGED <<quota, reserved, quotaPool, spentQuota, peak, changes, quotaFaults>>

ReplicaCrashes(r) ==
    /\ quotaPool[r] # Fresh
    /\ QuotaFault
    /\ Is(r, Fresh)
    /\ UNCHANGED <<now, quota, reserved, history, changes>>

QuotaNext ==
    \/ SetTenantQuota
    \/ MinutePasses
    \/ \E r \in Replicas :
          \/ LoadPolicies(r) \/ Publish(r) \/ TickerFires(r) \/ TakeTick(r)
          \/ Refill(r) \/ ReserveQuota(r) \/ ReserveAnswerLost(r) \/ Credit(r)
          \/ AuthorizeRequest(r) \/ ReplicaCrashes(r)

QuotaSpec == QuotaInit /\ [][QuotaNext]_quotaVars

-----------------------------------------------------------------------------
(* Properties.                                                             *)

\* The tokens of a minute that a replica has or is about to have.
TokensOf(state, m) ==
    (IF state.window = m THEN state.tokens ELSE 0)
      + (IF state.pc = "granted" /\ state.target = m THEN state.grant ELSE 0)

Outstanding(m) == [r \in Replicas |-> TokensOf(quotaPool[r], m)]

\* Every request authorized from a minute's leases, and every token still out
\* on some replica for it, was reserved in the database for that minute, and
\* the replicas together authorize no more than the largest limit in force
\* since that minute began: no rollover, policy change, stale tick, lost answer
\* or crash makes a token twice or moves it to another minute.
QuotaPerWindow ==
    \A m \in Minutes :
        /\ m >= now - 2 =>
             spentQuota[m] + Total(Outstanding(m), Replicas) <= reserved[m]
        /\ spentQuota[m] <= peak[m]

\* The inductive invariant.  No replica is ahead of the clock, a refill is at
\* most MaxLag minutes behind it, and a minute's tokens are within the largest
\* limit as well as within its row while the row may still be used.
QuotaInv ==
    /\ QuotaTypeOK
    /\ \A r \in Replicas :
          LET state == quotaPool[r] IN
          /\ state.window <= now /\ state.target <= now
          /\ state.tick # NoLimit => state.tick <= now /\ state.tick >= now - MaxLag
          /\ state.pc \in {"refilling", "reserving"} => state.target >= now - MaxLag
          /\ state.pc = "reserving" => state.read \in QuotaLimits
    /\ \A m \in Minutes :
          /\ LimitOf(quota) <= peak[m] /\ reserved[m] <= peak[m]
          /\ m > now => reserved[m] = 0
          /\ m >= now - 2 => spentQuota[m] + Total(Outstanding(m), Replicas) <= reserved[m]
          /\ spentQuota[m] + Total(Outstanding(m), Replicas) <= peak[m]
=============================================================================
