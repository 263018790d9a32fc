------------------------------ MODULE AdmissionPool ------------------------------
(***************************************************************************)
(* The request admission pool of one gateway instance                      *)
(* (internal/admission/pool.go) for one endpoint key.  Every action is one *)
(* section of Pool.mu; between two sections of one Acquire anything may    *)
(* happen: other callers, releases, and the policy refresh that republishes *)
(* the whole snapshot.                                                     *)
(*                                                                         *)
(* A policy change keeps the endpointState object of a key; removing the   *)
(* policy and adding it again makes a new object, while callers that still *)
(* hold the old one release or leave it.  Objects are numbered in the      *)
(* order they are made; 0 is nil.  A caller in its select is asleep until  *)
(* the channel it has read is closed.  A call that was served or cancelled  *)
(* returns, and its caller may call again.                                 *)
(***************************************************************************)
EXTENDS Naturals, FiniteSets

CONSTANTS
    Requests,     \* callers of Acquire, one per HTTP request at a time
    Policies,     \* the policies a refresh may find for the key
    MaxReplaces   \* bound on policy refreshes in a behaviour

Objects == 1 .. MaxReplaces

\* A request's bytes, output tokens and priority are judged by one test, so
\* a policy lists the requests it accepts.
PolicyType == [max : Nat, depth : Nat, enabled : BOOLEAN, accepts : SUBSET Requests]

ASSUME PoolAssumption ==
    /\ IsFiniteSet(Requests)
    /\ Policies \subseteq PolicyType
    /\ MaxReplaces \in Nat

VARIABLES
    current,        \* Pool.states[key]
    made,           \* how many objects exist
    replaced,       \* refreshes so far
    policy, active, waiting, rejected, queueTimeouts,   \* endpointState
    pc,             \* where each call of Acquire is
    on,             \* its local variable state
    asleep          \* the callers whose channel, their local variable notify, is still open

pool  == <<current, made, replaced, policy>>
calls == <<pc, on, asleep>>
vars  == <<pool, active, waiting, rejected, queueTimeouts, calls>>

\* A caller inside the queue, from waiting++ to the section that undoes it.
Queueing == {"queued", "parked", "leaving", "expired"}

Answered == {"admitted", "unlimited", "refused", "timedout", "cancelled", "done"}

States == {"idle", "counting"} \cup Queueing \cup Answered

TypeOK ==
    /\ current \in 0 .. made
    /\ replaced \in 0 .. MaxReplaces
    /\ made \in 0 .. replaced
    /\ policy \in [Objects -> PolicyType]
    /\ active \in [Objects -> Nat]
    /\ waiting \in [Objects -> Nat]
    /\ rejected \in [Objects -> Nat]
    /\ queueTimeouts \in [Objects -> Nat]
    /\ pc \in [Requests -> States]
    /\ on \in [Requests -> 0 .. made]
    /\ asleep \subseteq Requests
    /\ \A o \in 1 .. made : policy[o].max >= 1

NoPolicy == [max |-> 0, depth |-> 0, enabled |-> FALSE, accepts |-> {}]

Init ==
    /\ current = 0
    /\ made = 0
    /\ replaced = 0
    /\ policy = [o \in Objects |-> NoPolicy]
    /\ active = [o \in Objects |-> 0]
    /\ waiting = [o \in Objects |-> 0]
    /\ rejected = [o \in Objects |-> 0]
    /\ queueTimeouts = [o \in Objects |-> 0]
    /\ pc = [r \in Requests |-> "idle"]
    /\ on = [r \in Requests |-> 0]
    /\ asleep = {}

-----------------------------------------------------------------------------
(* Replace: a snapshot without a valid policy for the key drops its object. *)

Valid(p) == p.max >= 1

Replace ==
    /\ replaced < MaxReplaces
    /\ replaced' = replaced + 1
    /\ \E p \in Policies :
          \/ /\ ~ Valid(p)
             /\ current' = 0
             /\ UNCHANGED <<made, policy>>
          \/ /\ Valid(p)
             /\ current # 0
             /\ policy' = [policy EXCEPT ![current] = p]
             /\ UNCHANGED <<current, made>>
          \/ /\ Valid(p)
             /\ current = 0
             /\ made' = made + 1
             /\ current' = made + 1
             /\ policy' = [policy EXCEPT ![made + 1] = p]
    /\ UNCHANGED <<active, waiting, rejected, queueTimeouts, calls>>

-----------------------------------------------------------------------------
(* Acquire.                                                                *)

Metered(o) == o # 0 /\ policy[o].enabled

HasCapacity(o) == active[o] < policy[o].max

QueueFull(o) == waiting[o] >= policy[o].depth

Goes(r, where) == pc' = [pc EXCEPT ![r] = where]

Arrives(r, where) ==
    /\ pc[r] = "idle"
    /\ on' = [on EXCEPT ![r] = current]
    /\ Goes(r, where)
    /\ UNCHANGED <<pool, queueTimeouts, asleep>>

\* No policy, or a disabled one: the call is not counted.
AcquireUnlimited(r) ==
    /\ ~ Metered(current)
    /\ Arrives(r, "unlimited")
    /\ UNCHANGED <<active, waiting, rejected>>

\* A limit of the request itself, or a full queue.
AcquireRefused(r) ==
    /\ Metered(current)
    /\ r \in policy[current].accepts => ~ HasCapacity(current) /\ QueueFull(current)
    /\ Arrives(r, "refused")
    /\ rejected' = [rejected EXCEPT ![current] = @ + 1]
    /\ UNCHANGED <<active, waiting>>

AcquireAdmitted(r) ==
    /\ Metered(current)
    /\ r \in policy[current].accepts
    /\ HasCapacity(current)
    /\ Arrives(r, "admitted")
    /\ active' = [active EXCEPT ![current] = @ + 1]
    /\ UNCHANGED <<waiting, rejected>>

AcquireQueued(r) ==
    /\ Metered(current)
    /\ r \in policy[current].accepts
    /\ ~ HasCapacity(current)
    /\ ~ QueueFull(current)
    /\ Arrives(r, "queued")
    /\ waiting' = [waiting EXCEPT ![current] = @ + 1]
    /\ UNCHANGED <<active, rejected>>

-----------------------------------------------------------------------------
(* The loop of a queued caller.                                            *)

\* The object was dropped or disabled while the caller waited.
Orphaned(r) == current # on[r] \/ ~ policy[on[r]].enabled

Rechecks(r, where) ==
    /\ pc[r] = "queued"
    /\ Goes(r, where)
    /\ UNCHANGED <<pool, rejected, queueTimeouts, on>>

RecheckUnlimited(r) ==
    /\ Rechecks(r, "unlimited")
    /\ Orphaned(r)
    /\ waiting' = [waiting EXCEPT ![on[r]] = @ - 1]
    /\ UNCHANGED <<active, asleep>>

RecheckAdmitted(r) ==
    /\ Rechecks(r, "admitted")
    /\ ~ Orphaned(r)
    /\ HasCapacity(on[r])
    /\ waiting' = [waiting EXCEPT ![on[r]] = @ - 1]
    /\ active' = [active EXCEPT ![on[r]] = @ + 1]
    /\ UNCHANGED asleep

\* The channel is read in the section that found no capacity.
Park(r) ==
    /\ Rechecks(r, "parked")
    /\ ~ Orphaned(r)
    /\ ~ HasCapacity(on[r])
    /\ asleep' = asleep \cup {r}
    /\ UNCHANGED <<active, waiting>>

Selects(r, where) ==
    /\ pc[r] = "parked"
    /\ Goes(r, where)
    /\ asleep' = asleep \ {r}
    /\ UNCHANGED <<pool, active, waiting, rejected, queueTimeouts, on>>

Wake(r) == r \notin asleep /\ Selects(r, "queued")

\* The select may take a ready timer or a done context although the channel
\* is closed too.
ContextDone(r) == Selects(r, "leaving")

TimerFires(r) == Selects(r, "expired")

\* Decrement guarded the way the code guards it.
Less(n) == IF n > 0 THEN n - 1 ELSE n

RemoveWaiter(r) ==
    /\ pc[r] \in {"leaving", "expired"}
    /\ waiting' = [waiting EXCEPT ![on[r]] = Less(@)]
    /\ Goes(r, IF pc[r] = "leaving" THEN "cancelled" ELSE "counting")
    /\ UNCHANGED <<pool, active, rejected, queueTimeouts, on, asleep>>

CountTimeout(r) ==
    /\ pc[r] = "counting"
    /\ rejected' = [rejected EXCEPT ![on[r]] = @ + 1]
    /\ queueTimeouts' = [queueTimeouts EXCEPT ![on[r]] = @ + 1]
    /\ Goes(r, "timedout")
    /\ UNCHANGED <<pool, active, waiting, on, asleep>>

-----------------------------------------------------------------------------
(* The function Acquire returns, called once when the request ends.        *)

\* Mutants: the channel is not closed; it is closed only for the object in
\* the map.
MutWakesNobody(o) == {}

MutWakesCurrent(o) == {r \in Requests : on[r] = o /\ o = current}

\* Closing the channel of an object wakes every caller that has read it.
WokenBy(o) == {r \in Requests : on[r] = o}

\* Mutant: the lease looks its endpoint up again instead of keeping it.
MutReleaseCurrent(r) ==
    /\ pc[r] = "admitted"
    /\ active' = [o \in Objects |-> IF o = current THEN Less(active[o]) ELSE active[o]]
    /\ asleep' = asleep \ WokenBy(on[r])
    /\ Goes(r, "done")
    /\ UNCHANGED <<pool, waiting, rejected, queueTimeouts, on>>

Release(r) ==
    /\ pc[r] = "admitted"
    /\ active' = [active EXCEPT ![on[r]] = Less(@)]
    /\ asleep' = asleep \ WokenBy(on[r])
    /\ Goes(r, "done")
    /\ UNCHANGED <<pool, waiting, rejected, queueTimeouts, on>>

ReleaseUnlimited(r) ==
    /\ pc[r] = "unlimited"
    /\ Goes(r, "done")
    /\ UNCHANGED <<pool, active, waiting, rejected, queueTimeouts, on, asleep>>

\* The caller's next request.  Refused calls and timeouts stay, for their
\* counters to be compared with.
Return(r) ==
    /\ pc[r] \in {"done", "cancelled"}
    /\ on' = [on EXCEPT ![r] = 0]
    /\ Goes(r, "idle")
    /\ UNCHANGED <<pool, active, waiting, rejected, queueTimeouts, asleep>>

-----------------------------------------------------------------------------

Acquire(r) ==
    AcquireUnlimited(r) \/ AcquireRefused(r) \/ AcquireAdmitted(r) \/ AcquireQueued(r)

Recheck(r) == RecheckUnlimited(r) \/ RecheckAdmitted(r) \/ Park(r)

Next ==
    \/ Replace
    \/ \E r \in Requests :
          \/ Acquire(r) \/ Recheck(r) \/ Wake(r)
          \/ ContextDone(r) \/ TimerFires(r) \/ RemoveWaiter(r) \/ CountTimeout(r)
          \/ Release(r) \/ ReleaseUnlimited(r) \/ Return(r)

\* Goroutines run and an admitted request ends (its release is deferred by
\* the gateway).  Nothing is assumed of timers, contexts, refreshes and of
\* who calls again.
Fairness ==
    \A r \in Requests :
        /\ WF_vars(Recheck(r))
        /\ WF_vars(Wake(r))
        /\ WF_vars(RemoveWaiter(r))
        /\ WF_vars(CountTimeout(r))
        /\ WF_vars(Release(r))

Spec == Init /\ [][Next]_vars /\ Fairness

-----------------------------------------------------------------------------
(* Properties.                                                             *)

In(kinds, o) == {r \in Requests : pc[r] \in kinds /\ on[r] = o}

\* The counters of every object, dropped ones included, are the callers they
\* count: no sequence of cancellations, timeouts, policy changes and late
\* releases leaks or doubles a slot, and no release of a dropped object's
\* lease frees a slot of its successor.
SlotsAccounted ==
    \A o \in Objects :
        /\ active[o] = Cardinality(In({"admitted"}, o))
        /\ waiting[o] = Cardinality(In(Queueing, o))
        /\ rejected[o] = Cardinality(In({"refused", "timedout"}, o))
        /\ queueTimeouts[o] = Cardinality(In({"timedout"}, o))

\* Nobody sleeps alone: a caller asleep on an open channel has an admitted
\* caller on the same object whose release will close that channel, whatever
\* refreshes did since it looked.
SleepersHaveAWaker ==
    \A r \in asleep : \E h \in Requests : pc[h] = "admitted" /\ on[h] = on[r]

\* A caller is admitted, at once or out of the queue, only while the
\* requests in flight fit the policy in force at that moment, and enters the
\* queue only while the callers in it fit its depth.
WithinLimits ==
    [][\A r \in Requests, o \in Objects :
         /\ pc[r] # "admitted" /\ pc'[r] = "admitted" /\ on'[r] = o
              => Cardinality(In({"admitted"}, o))' <= policy[o].max
         /\ pc[r] = "idle" /\ pc'[r] = "queued" /\ on'[r] = o
              => Cardinality(In(Queueing, o))' <= policy[o].depth]_vars

\* Admission goes to whoever locks the pool first after a release, a newcomer
\* or another waiter.
Overtaken(r) ==
    \E h \in Requests \ {r} : pc[h] # "admitted" /\ pc'[h] = "admitted" /\ on'[h] = on[r]

\* Even if no timer ever fires, a caller stays in the queue only while others
\* are admitted to its object again and again: the queue is not fair, and it
\* loses nobody.
QueuedAreAnswered ==
    \A r \in Requests : []<>(pc[r] \notin Queueing) \/ []<><<Overtaken(r)>>_vars

-----------------------------------------------------------------------------
(* The inductive invariant.                                                *)

\* A caller that was counted has an object, and who sleeps is in its select.
CallersAnchored ==
    /\ \A r \in Requests :
          pc[r] \in Queueing \cup {"admitted", "counting", "refused", "timedout"} => on[r] # 0
    /\ \A r \in asleep : pc[r] = "parked"

IndInv == TypeOK /\ SlotsAccounted /\ SleepersHaveAWaker /\ CallersAnchored

=============================================================================
