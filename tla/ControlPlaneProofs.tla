------------------------- MODULE ControlPlaneProofs -------------------------
(***************************************************************************)
(* Machine-checked proofs about the control plane's work on deployments:   *)
(* RevisionRollout, for any number of revisions, replicas, operations and  *)
(* faults; CapacityScaling, for any bounds, controllers and decisions;     *)
(* and OptimizationCampaign, for any number of candidates and faults.      *)
(***************************************************************************)
EXTENDS RevisionRollout, CapacityScaling, OptimizationCampaign, FiniteSetTheorems, WellFoundedInduction, TLAPS

-----------------------------------------------------------------------------
(* Sequences and numbers.                                                  *)

\* A set of numbers that is not empty has a least member.
LEMMA Smallest ==
  ASSUME NEW S, S \subseteq Nat, S # {}
  PROVE  \E n \in S : \A m \in S : n <= m
<1> DEFINE R == OpToRel(<, Nat)
<1>1. IsWellFoundedOn(R, Nat)
  BY NatLessThanWellFounded, Zenon
<1>2. \A m, n \in Nat : m < n => <<m, n>> \in R
  BY DEF OpToRel
<1> HIDE DEF R
<1>3. PICK n \in S : \A m \in S : ~(<<m, n>> \in R)
  BY <1>1, WFMin, Zenon
<1>4. \A m \in S : m \in Nat /\ n \in Nat /\ ~(m < n)
  BY <1>2, <1>3, Zenon
<1>5. \A m \in S : n <= m
  BY <1>4
<1> QED BY <1>5

Once(seq) == \A i, j \in DOMAIN seq : seq[i] = seq[j] => i = j
In(seq, x) == \E i \in DOMAIN seq : seq[i] = x

\* What Without takes out of a sequence that names nothing twice.
LEMMA WithoutIs ==
  ASSUME NEW S, NEW seq \in Seq(S), Once(seq), NEW x
  PROVE  /\ Without(seq, x) \in Seq(S)
         /\ Once(Without(seq, x))
         /\ \A y : In(Without(seq, x), y) <=> In(seq, y) /\ y # x
<1>1. CASE ~In(seq, x)
  <2>1. Without(seq, x) = seq
    BY <1>1 DEF Without, In
  <2> QED BY <1>1, <2>1 DEF In
<1>2. CASE In(seq, x)
  <2> DEFINE k == CHOOSE i \in DOMAIN seq : seq[i] = x
  <2> DEFINE n == Len(seq)
  <2> DEFINE w == [i \in 1..(n - 1) |-> IF i < k THEN seq[i] ELSE seq[i + 1]]
  <2>1. Without(seq, x) = w
    BY <1>2 DEF Without, In
  <2>2. /\ n \in Nat /\ DOMAIN seq = 1..n /\ k \in 1..n /\ seq[k] = x
        /\ \A i \in 1..n : seq[i] \in S
    BY <1>2 DEF In
  <2> HIDE DEF k, n
  <2>3. \A i \in 1..(n - 1) : w[i] \in S
    BY <2>2
  <2>4. w \in Seq(S)
    <3>1. n - 1 \in Nat
      BY <2>2
    <3> QED BY <2>3, <3>1
  <2>5. DOMAIN w = 1..(n - 1)
    OBVIOUS
  <2>6. \A i, j \in 1..n : seq[i] = seq[j] => i = j
    BY <2>2 DEF Once
  <2>7. Once(w)
    <3>1. ASSUME NEW i \in 1..(n - 1), NEW j \in 1..(n - 1), w[i] = w[j]
          PROVE  i = j
      <4> DEFINE a == IF i < k THEN i ELSE i + 1
      <4> DEFINE b == IF j < k THEN j ELSE j + 1
      <4>1. a \in 1..n /\ b \in 1..n /\ seq[a] = w[i] /\ seq[b] = w[j]
        BY <2>2
      <4>2. a = b
        BY <2>6, <3>1, <4>1
      <4> QED BY <2>2, <4>2
    <3> QED BY <2>5, <3>1 DEF Once
  <2>8. ASSUME NEW y, In(w, y)
        PROVE  In(seq, y) /\ y # x
    <3>1. PICK i \in 1..(n - 1) : w[i] = y
      BY <2>5, <2>8 DEF In
    <3> DEFINE a == IF i < k THEN i ELSE i + 1
    <3>2. a \in 1..n /\ a # k /\ seq[a] = y
      BY <2>2, <3>1
    <3> QED BY <2>2, <2>6, <3>2 DEF In
  <2>9. ASSUME NEW y, In(seq, y), y # x
        PROVE  In(w, y)
    <3>1. PICK i \in 1..n : seq[i] = y
      BY <2>2, <2>9 DEF In
    <3>2. i # k
      BY <2>2, <2>9, <3>1
    <3> DEFINE a == IF i < k THEN i ELSE i - 1
    <3>3. a \in 1..(n - 1) /\ w[a] = y
      BY <2>2, <3>1, <3>2
    <3> QED BY <2>5, <3>3 DEF In
  <2> HIDE DEF w
  <2> QED BY <2>1, <2>4, <2>7, <2>8, <2>9
<1> QED BY <1>1, <1>2

\* Appending something new.
LEMMA AppendIs ==
  ASSUME NEW S, NEW seq \in Seq(S), Once(seq), NEW x \in S, ~In(seq, x)
  PROVE  /\ Append(seq, x) \in Seq(S)
         /\ Once(Append(seq, x))
         /\ \A y : In(Append(seq, x), y) <=> In(seq, y) \/ y = x
<1> DEFINE a == Append(seq, x)
<1> DEFINE n == Len(seq)
<1>1. /\ a \in Seq(S) /\ n \in Nat /\ DOMAIN seq = 1..n /\ DOMAIN a = 1..(n + 1)
      /\ a[n + 1] = x
      /\ \A i \in 1..n : a[i] = seq[i]
  OBVIOUS
<1> HIDE DEF a, n
<1>2. Once(a)
  BY <1>1 DEF Once, In
<1>3. \A y : In(a, y) <=> In(seq, y) \/ y = x
  <2>1. ASSUME NEW y, In(a, y) PROVE In(seq, y) \/ y = x
    BY <1>1, <2>1 DEF In
  <2>2. ASSUME NEW y, In(seq, y) PROVE In(a, y)
    BY <1>1, <2>2 DEF In
  <2>3. In(a, x)
    BY <1>1 DEF In
  <2> QED BY <2>1, <2>2, <2>3
<1> QED BY <1>1, <1>2, <1>3 DEF a

-----------------------------------------------------------------------------
(* Rollouts.                                                               *)

(***************************************************************************)
(* The inductive invariant.  One active revision and the order of the      *)
(* superseded ones go together: a promotion appends the active one, a      *)
(* rollback takes out the one it restores, and either needs to know that   *)
(* it was not, or was, there.  No instance is lost because a cleanup has   *)
(* listed every instance of its revision.                                  *)
(***************************************************************************)

\* The superseded revisions are ordered without repetition, and revisions are
\* numbered without gaps.
HistoryInv ==
  /\ Once(past)
  /\ \E n \in Revisions : \A r \in Revisions : revision[r] # "absent" <=> r <= n

\* A handler is about a revision that exists, and what it restores was recorded.
HandlerInv ==
  /\ operation.kind \in {"none", "create", "rollback"} => operation.pc = "start"
  /\ operation.kind \notin {"none", "create"} =>
       operation.rev \in Revisions /\ revision[operation.rev] # "absent"
  /\ operation.pc \in {"ensure", "launched", "bury", "refuse"} =>
       operation.kind = "provision" /\ revision[operation.rev] = "candidate"
  /\ operation.pc = "commit" => operation.keep = operation.rev
  /\ operation.pc = "route" /\ operation.keep # operation.rev => Monitored(operation.rev)
  /\ operation.pc \in {"restore", "restored"} =>
       operation.prev \in Revisions /\ Monitored(operation.rev)

MonitorInv == \A r \in Revisions : Monitored(r) => monitor[r].rollback \in Revisions

Running(s) == instance[s] \in {"booting", "up", "failed"}

RowsInv == \A s \in Slots : Running(s) => LiveReplica(s)

\* The replica that is launched is the one whose intent was recorded, and the
\* replica whose row is deleted after a failed bootstrap has no instance that runs.
LaunchInv ==
  /\ operation.pc = "launched" => Pending # {} /\ replica[NextSlot] = "provisioning"
  /\ operation.pc = "bury" => Pending # {} /\ ~Running(NextSlot)

\* A cleanup knows all instances of its revision.
CleanupInv ==
  operation.pc = "clean" => \A s \in SlotsOf(operation.rev) : Running(s) => s \in operation.seen

\* Instances of a rejected revision have an operation that will clean them up.
Abandoned(s) == Running(s) /\ revision[s[1]] = "rejected" /\ ~usage.exhausted
RejectedInv ==
  \A s \in Slots : Abandoned(s) =>
    operation.kind = "provision" /\ operation.rev = s[1] /\ operation.pc \in {"start", "clean"}

CapacityInv == RowsInv /\ LaunchInv /\ CleanupInv /\ RejectedInv

RolloutInv ==
  /\ RolloutTypeOK /\ OneActiveRevision /\ HistoryInv
  /\ HandlerInv /\ MonitorInv /\ CapacityInv

\* What a handler leaves behind when it ends or is to be tried again.
LEMMA Outcomes ==
  ASSUME operation \in HandlerStates
  PROVE  /\ NoOperation \in HandlerStates /\ NoOperation.kind = "none" /\ NoOperation.pc = "start"
         /\ Retried \in HandlerStates /\ Retried.kind = operation.kind /\ Retried.rev = operation.rev
         /\ Retried.pc = "start"
         /\ Returned \in {NoOperation, Retried}
         /\ Wait \in {NoOperation, Retried}
         /\ operation.kind = "provision" /\ operation.cancel /\ ~operation.undo => Returned = Retried
<1>1. NoOperation \in HandlerStates /\ NoOperation.kind = "none" /\ NoOperation.pc = "start"
  BY RolloutConstants DEF NoOperation, HandlerStates, RolloutSteps, RolloutKinds
<1>2. /\ Retried \in HandlerStates /\ Retried.kind = operation.kind /\ Retried.rev = operation.rev
      /\ Retried.pc = "start"
  <2> DEFINE k == operation.kind
  <2> DEFINE r == operation.rev
  <2> DEFINE c == operation.cancel
  <2>1. k \in RolloutKinds \union {"none"} /\ r \in 0..MaxRevision /\ c \in BOOLEAN
    BY DEF HandlerStates
  <2>2. Retried = [NoOperation EXCEPT !.kind = k, !.rev = r, !.cancel = c]
    BY DEF Retried
  <2> HIDE DEF k, r, c
  <2>3. Retried \in HandlerStates /\ Retried.kind = k /\ Retried.rev = r /\ Retried.pc = "start"
    BY <1>1, <2>1, <2>2 DEF HandlerStates
  <2> QED BY <2>3 DEF k, r
<1>3. Returned \in {NoOperation, Retried}
  BY DEF Returned
<1>4. Wait \in {NoOperation, Retried}
  BY <1>3 DEF Wait
<1>5. operation.kind = "provision" /\ operation.cancel /\ ~operation.undo => Returned = Retried
  BY DEF Returned
<1> QED BY <1>1, <1>2, <1>3, <1>4, <1>5

\* Going on at another step.
LEMMA GoesToStep ==
  ASSUME operation \in HandlerStates, NEW step \in RolloutSteps
  PROVE  /\ AtStep(step) \in HandlerStates /\ AtStep(step).pc = step
         /\ AtStep(step).kind = operation.kind /\ AtStep(step).rev = operation.rev
         /\ AtStep(step).keep = operation.keep /\ AtStep(step).prev = operation.prev
  BY DEF AtStep, HandlerStates

\* A cleanup lists the live replicas of the revision.
LEMMA CleanupIs ==
  ASSUME operation \in HandlerStates, NEW r
  PROVE  /\ Cleanup(r) \in HandlerStates /\ Cleanup(r).pc = "clean"
         /\ Cleanup(r).kind = operation.kind /\ Cleanup(r).rev = operation.rev
         /\ \A s \in SlotsOf(r) : LiveReplica(s) => s \in Cleanup(r).seen
         /\ [Cleanup(r) EXCEPT !.undo = TRUE] \in HandlerStates
         /\ [Cleanup(r) EXCEPT !.undo = TRUE].pc = "clean"
         /\ [Cleanup(r) EXCEPT !.undo = TRUE].kind = operation.kind
         /\ [Cleanup(r) EXCEPT !.undo = TRUE].rev = operation.rev
         /\ [Cleanup(r) EXCEPT !.undo = TRUE].seen = Cleanup(r).seen
<1> DEFINE live == {s \in SlotsOf(r) : LiveReplica(s)}
<1>1. live \in SUBSET Slots
  BY DEF SlotsOf
<1>2. Cleanup(r) = [operation EXCEPT !.pc = "clean", !.seen = live]
  BY DEF Cleanup
<1>3. \A s \in SlotsOf(r) : LiveReplica(s) => s \in live
  OBVIOUS
<1> HIDE DEF live
<1> QED BY <1>1, <1>2, <1>3 DEF HandlerStates, RolloutSteps

\* A promotion that starts knows what it keeps.
LEMMA PromotingIs ==
  ASSUME RolloutTypeOK, NEW r \in Revisions, operation.rev = r,
         Monitored(r) => monitor[r].rollback \in Revisions
  PROVE  \/ Promoting(r) = NoOperation
         \/ /\ Promoting(r) \in HandlerStates
            /\ Promoting(r).kind = operation.kind /\ Promoting(r).rev = r
            /\ \/ Promoting(r).pc = "commit" /\ Promoting(r).keep = r
               \/ Promoting(r).pc = "route" /\ Monitored(r)
<1> DEFINE recovering == revision[r] # "candidate" /\ deployment.active # r
<1> DEFINE kept == IF recovering THEN monitor[r].rollback ELSE r
<1> DEFINE names == Ready(kept)
<1> DEFINE live == {s \in Slots : LiveReplica(s)}
<1> DEFINE fit == {s \in Slots : replica[s] \in {"ready", "active", "draining"}}
<1> DEFINE first == IF recovering THEN "route" ELSE "commit"
<1> SUFFICES ASSUME ~((recovering /\ ~Recovering(r)) \/ Cardinality(names) < MinReplicas)
             PROVE  /\ Promoting(r) \in HandlerStates
                    /\ Promoting(r).kind = operation.kind /\ Promoting(r).rev = r
                    /\ \/ Promoting(r).pc = "commit" /\ Promoting(r).keep = r
                       \/ Promoting(r).pc = "route" /\ Monitored(r)
  BY DEF Promoting
<1>1. Promoting(r) = [operation EXCEPT !.pc = first, !.undo = operation.cancel, !.names = names,
                        !.prev = deployment.active, !.keep = kept, !.seen = live, !.healthy = fit]
  BY DEF Promoting
<1>2. live \in SUBSET Slots /\ fit \in SUBSET Slots /\ names \in SUBSET Slots
  BY DEF Ready, SlotsOf
<1>3. /\ kept \in 0..MaxRevision /\ first \in RolloutSteps
      /\ deployment.active \in 0..MaxRevision /\ operation \in HandlerStates
      /\ operation.cancel \in BOOLEAN
  <2>1. operation \in HandlerStates /\ operation.cancel \in BOOLEAN
    BY DEF RolloutTypeOK, HandlerStates
  <2>2. deployment.active \in Revisions
    BY DEF RolloutTypeOK
  <2>3. monitor[r].rollback \in 0..MaxRevision
    BY DEF RolloutTypeOK, Monitors
  <2>4. Revisions \subseteq 0..MaxRevision
    BY RolloutConstants DEF Revisions
  <2>5. first \in RolloutSteps
    BY DEF RolloutSteps
  <2> QED BY <2>1, <2>2, <2>3, <2>4, <2>5
<1>4. (first = "commit" /\ kept = r) \/ (first = "route" /\ Monitored(r))
  BY DEF Recovering
<1> HIDE DEF recovering, kept, names, live, fit, first
<1> QED BY <1>1, <1>2, <1>3, <1>4 DEF HandlerStates
\* An operation and a fault are counted within their bounds.
LEMMA Counted ==
  ASSUME usage \in Usages
  PROVE  /\ usage.operations < MaxOperations => [usage EXCEPT !.operations = @ + 1] \in Usages
         /\ usage.faults < MaxRolloutFaults =>
              /\ [usage EXCEPT !.faults = @ + 1] \in Usages
              /\ [usage EXCEPT !.faults = @ + 1, !.exhausted = TRUE] \in Usages
         /\ [usage EXCEPT !.operations = @ + 1].exhausted = usage.exhausted
         /\ [usage EXCEPT !.faults = @ + 1].exhausted = usage.exhausted
         /\ [usage EXCEPT !.faults = @ + 1, !.exhausted = TRUE].exhausted
<1> DEFINE m == usage.operations + 1
<1> DEFINE n == usage.faults + 1
<1>1. /\ usage.operations < MaxOperations => m \in 0..MaxOperations
      /\ usage.faults < MaxRolloutFaults => n \in 0..MaxRolloutFaults
  BY RolloutConstants DEF Usages
<1>2. /\ [usage EXCEPT !.operations = @ + 1] = [usage EXCEPT !.operations = m]
      /\ [usage EXCEPT !.faults = @ + 1] = [usage EXCEPT !.faults = n]
      /\ [usage EXCEPT !.faults = @ + 1, !.exhausted = TRUE] = [usage EXCEPT !.faults = n, !.exhausted = TRUE]
  BY DEF Usages
<1> HIDE DEF m, n
<1>3. usage.operations < MaxOperations => [usage EXCEPT !.operations = m] \in Usages
  BY <1>1 DEF Usages
<1>4. usage.faults < MaxRolloutFaults => [usage EXCEPT !.faults = n] \in Usages
  BY <1>1 DEF Usages
<1>5. usage.faults < MaxRolloutFaults => [usage EXCEPT !.faults = n, !.exhausted = TRUE] \in Usages
  BY <1>1 DEF Usages
<1>6. /\ [usage EXCEPT !.operations = m].exhausted = usage.exhausted
      /\ [usage EXCEPT !.faults = n].exhausted = usage.exhausted
      /\ [usage EXCEPT !.faults = n, !.exhausted = TRUE].exhausted
  BY DEF Usages
<1> QED BY <1>2, <1>3, <1>4, <1>5, <1>6

\* An attempt that is over, and one that may be repeated.
LEMMA OutcomeHandled ==
  ASSUME RolloutInv, operation' \in {NoOperation, Retried},
         \A r \in Revisions : revision[r] # "absent" => revision'[r] # "absent"
  PROVE  /\ operation' \in HandlerStates /\ HandlerInv' /\ LaunchInv' /\ CleanupInv'
         /\ operation'.pc = "start"
         /\ operation' = Retried => operation'.kind = operation.kind /\ operation'.rev = operation.rev
<1>1. operation \in HandlerStates
  BY DEF RolloutInv, RolloutTypeOK
<1>2. /\ operation' \in HandlerStates /\ operation'.pc = "start"
      /\ operation'.kind = "none" \/ (operation'.kind = operation.kind /\ operation'.rev = operation.rev)
      /\ operation' = Retried => operation'.kind = operation.kind /\ operation'.rev = operation.rev
  BY <1>1, Outcomes
<1>3. HandlerInv'
  BY <1>2 DEF RolloutInv, HandlerInv
<1> QED BY <1>2, <1>3 DEF LaunchInv, CleanupInv

\* Revisions that nobody touches keep their order.
LEMMA RevisionsKept ==
  ASSUME RolloutInv, UNCHANGED <<revision, past, deployment>>
  PROVE  OneActiveRevision' /\ HistoryInv'
  BY DEF RolloutInv, OneActiveRevision, HistoryInv, Once

\* NextSlot is a replica that is pending.
LEMMA NextSlotIs ==
  ASSUME Pending # {}
  PROVE  NextSlot \in Pending /\ NextSlot \in Slots /\ NextSlot[1] = operation.rev
<1> DEFINE S == {s[2] : s \in Pending}
<1>1. S \subseteq Nat /\ S # {} /\ Pending \subseteq Slots /\ \A s \in Pending : s[1] = operation.rev
  BY RolloutConstants DEF Pending, SlotsOf, Slots
<1>2. PICK n \in S : \A m \in S : n <= m
  <2> HIDE DEF S
  <2> QED BY <1>1, Smallest
<1>3. PICK s \in Pending : s[2] = n
  BY <1>2
<1>4. \A t \in Pending : s[2] <= t[2]
  BY <1>2, <1>3
<1>5. NextSlot \in Pending
  BY <1>3, <1>4 DEF NextSlot
<1> QED BY <1>1, <1>5

\* A launch that nobody touches.
LEMMA LaunchKept ==
  ASSUME RolloutInv, operation'.rev = operation.rev, operation'.pc = operation.pc, UNCHANGED replica,
         operation.pc = "bury" => \A s \in Slots : Running(s)' => Running(s)
  PROVE  LaunchInv'
<1>1. Pending' = Pending
  BY DEF Pending
<1>2. NextSlot' = NextSlot
  BY <1>1, Zenon DEF NextSlot
<1>3. ASSUME operation.pc = "bury"
      PROVE  Pending # {} /\ ~Running(NextSlot)'
  <2>1. Pending # {} /\ ~Running(NextSlot)
    BY <1>3 DEF RolloutInv, CapacityInv, LaunchInv
  <2>2. PICK n : n = NextSlot
    OBVIOUS
  <2>3. n \in Slots /\ ~Running(n)
    BY <2>1, <2>2, NextSlotIs
  <2>4. ~Running(n)'
    BY <1>3, <2>3
  <2>5. NextSlot' = n
    BY <1>2, <2>2
  <2> QED BY <2>1, <2>4, <2>5 DEF Running
<1>4. operation.pc = "launched" => Pending # {} /\ replica[NextSlot] = "provisioning"
  BY DEF RolloutInv, CapacityInv, LaunchInv
<1> QED BY <1>1, <1>2, <1>3, <1>4 DEF LaunchInv

\* The queue, the policy, the reconciler and the requests touch no replica.
LEMMA EnqueueStep ==
  ASSUME RolloutInv, NEW kind \in RolloutKinds, NEW r \in 0..MaxRevision, EnqueueRollout(kind, r)
  PROVE  RolloutInv'
<1> DEFINE o == [NoOperation EXCEPT !.kind = kind, !.rev = r]
<1>1. operation' = o /\ operation.kind = "none" /\ operation \in HandlerStates
  BY DEF EnqueueRollout, RolloutInv, RolloutTypeOK
<1>2. o \in HandlerStates /\ o.kind = kind /\ o.rev = r /\ o.pc = "start"
  BY <1>1, Outcomes DEF HandlerStates
<1> HIDE DEF o
<1>3. UNCHANGED <<storeVars, autoRollback, instance, routerGeneration, inFlight>>
  BY DEF EnqueueRollout
<1>4. usage' \in Usages
      /\ usage'.exhausted = usage.exhausted
  BY Counted DEF EnqueueRollout, RolloutInv, RolloutTypeOK
<1>5. RolloutTypeOK'
  BY <1>1, <1>2, <1>3, <1>4 DEF RolloutInv, RolloutTypeOK, storeVars
<1>6. OneActiveRevision' /\ HistoryInv'
  BY <1>3, RevisionsKept DEF storeVars
<1>7. MonitorInv'
  BY <1>3 DEF RolloutInv, MonitorInv, Monitored, storeVars
<1>8. HandlerInv'
  <2>1. (r = 0) = (kind = "create") /\ (r # 0 => revision[r] # "absent")
    BY DEF EnqueueRollout
  <2>2. r # 0 => r \in Revisions
    BY RolloutConstants DEF Revisions
  <2> QED BY <1>1, <1>2, <1>3, <2>1, <2>2 DEF HandlerInv, storeVars
<1>9. CapacityInv'
  BY <1>1, <1>2, <1>3, <1>4 DEF RolloutInv, CapacityInv, RowsInv, LaunchInv, CleanupInv, RejectedInv,
     Abandoned, Running, LiveReplica, storeVars
<1> QED BY <1>5, <1>6, <1>7, <1>8, <1>9 DEF RolloutInv

\* A handler that nobody touches.
LEMMA HandlerKept ==
  ASSUME RolloutInv, UNCHANGED <<revision, operation>>,
         \A r \in Revisions : Monitored(r) => Monitored(r)'
  PROVE  HandlerInv'
<1>1. operation.kind \notin {"none", "create"} => operation.rev \in Revisions
  BY DEF RolloutInv, HandlerInv
<1>2. operation.pc # "start" => operation.kind \notin {"none", "create"}
  BY DEF RolloutInv, HandlerInv
<1> QED BY <1>1, <1>2 DEF RolloutInv, HandlerInv

LEMMA RequestCancelStep ==
  ASSUME RolloutInv, RequestCancel
  PROVE  RolloutInv'
<1>1. operation \in HandlerStates /\ operation' = [operation EXCEPT !.cancel = TRUE]
  BY DEF RolloutInv, RolloutTypeOK, RequestCancel
<1>2. operation' \in HandlerStates
  BY <1>1 DEF HandlerStates
<1>3. /\ operation'.kind = operation.kind /\ operation'.rev = operation.rev
      /\ operation'.pc = operation.pc /\ operation'.seen = operation.seen
      /\ operation'.prev = operation.prev /\ operation'.keep = operation.keep
  BY <1>1 DEF HandlerStates
<1>4. UNCHANGED <<storeVars, worldVars>>
  BY DEF RequestCancel
<1>5. RolloutTypeOK'
  BY <1>2, <1>4 DEF RolloutInv, RolloutTypeOK, storeVars, worldVars
<1>6. OneActiveRevision' /\ HistoryInv'
  BY <1>4, RevisionsKept DEF storeVars
<1>7. MonitorInv'
  BY <1>4 DEF RolloutInv, MonitorInv, Monitored, storeVars
<1>8. HandlerInv'
  BY <1>3, <1>4 DEF RolloutInv, HandlerInv, Monitored, storeVars
<1>9. CapacityInv'
  <2>1. LaunchInv'
    BY <1>3, <1>4, LaunchKept DEF storeVars, worldVars, Running
  <2> QED BY <1>3, <1>4, <2>1 DEF RolloutInv, CapacityInv, RowsInv, CleanupInv, RejectedInv,
             Abandoned, Running, LiveReplica, storeVars, worldVars
<1> QED BY <1>5, <1>6, <1>7, <1>8, <1>9 DEF RolloutInv

\* An attempt ends, or will be repeated, without a change of a row.
LEMMA OutcomeStep ==
  ASSUME RolloutInv, operation' \in {NoOperation, Retried},
         UNCHANGED <<storeVars, autoRollback, instance, routerGeneration, inFlight>>,
         usage' \in Usages,
         usage.exhausted => usage'.exhausted,
         \A s \in Slots : Abandoned(s) => operation' = Retried \/ usage'.exhausted
  PROVE  RolloutInv'
<1>1. /\ operation' \in HandlerStates /\ HandlerInv' /\ LaunchInv' /\ CleanupInv'
      /\ operation'.pc = "start"
      /\ operation' = Retried => operation'.kind = operation.kind /\ operation'.rev = operation.rev
  BY OutcomeHandled DEF storeVars
<1>2. RolloutTypeOK'
  BY <1>1 DEF RolloutInv, RolloutTypeOK, storeVars
<1>3. OneActiveRevision' /\ HistoryInv'
  BY RevisionsKept DEF storeVars
<1>4. MonitorInv'
  BY DEF RolloutInv, MonitorInv, Monitored, storeVars
<1>5. RowsInv'
  BY DEF RolloutInv, CapacityInv, RowsInv, Running, LiveReplica, storeVars
<1>6. RejectedInv'
  <2> SUFFICES ASSUME NEW s \in Slots, Abandoned(s)'
               PROVE  /\ operation'.kind = "provision" /\ operation'.rev = s[1]
                      /\ operation'.pc \in {"start", "clean"}
    BY DEF RejectedInv
  <2>1. Abandoned(s)
    BY DEF Abandoned, Running, storeVars, RolloutInv, RolloutTypeOK
  <2>2. operation' = Retried
    BY <2>1 DEF Abandoned
  <2> QED BY <1>1, <2>1, <2>2 DEF RolloutInv, CapacityInv, RejectedInv
<1> QED BY <1>1, <1>2, <1>3, <1>4, <1>5, <1>6 DEF RolloutInv, CapacityInv

LEMMA WorkerCrashesStep ==
  ASSUME RolloutInv, WorkerCrashes
  PROVE  RolloutInv'
<1>1. /\ operation' = Retried
      /\ UNCHANGED <<storeVars, autoRollback, instance, routerGeneration, inFlight>>
  BY DEF WorkerCrashes
<1>2. /\ usage' \in Usages
      /\ usage'.exhausted = usage.exhausted
  BY Counted DEF WorkerCrashes, RolloutFault, RolloutInv, RolloutTypeOK
<1> QED BY <1>1, <1>2, OutcomeStep

LEMMA LastAttemptStep ==
  ASSUME RolloutInv, LastAttemptFails
  PROVE  RolloutInv'
<1>1. operation' \in {NoOperation, Retried}
  BY Outcomes DEF LastAttemptFails, RolloutInv, RolloutTypeOK
<1>2. UNCHANGED <<storeVars, autoRollback, instance, routerGeneration, inFlight>>
  BY DEF LastAttemptFails
<1>3. /\ usage' \in Usages
      /\ usage'.exhausted
  BY Counted DEF LastAttemptFails, RolloutInv, RolloutTypeOK
<1> QED BY <1>1, <1>2, <1>3, OutcomeStep

\* What is no row of a revision or a replica, and no operation.
LEMMA WorldStep ==
  ASSUME RolloutInv, RolloutTypeOK', UNCHANGED <<revision, past, deployment, replica, operation>>,
         \A r \in Revisions : /\ Monitored(r) => Monitored(r)'
                              /\ Monitored(r)' => Monitored(r) /\ monitor'[r].rollback = monitor[r].rollback,
         \A s \in Slots : Running(s)' => Running(s),
         usage'.exhausted = usage.exhausted
  PROVE  RolloutInv'
<1>1. OneActiveRevision' /\ HistoryInv'
  BY RevisionsKept
<1>2. HandlerInv'
  BY HandlerKept
<1>3. MonitorInv'
  BY DEF RolloutInv, MonitorInv
<1>4. LaunchInv'
  BY LaunchKept
<1>5. RowsInv'
  BY DEF RolloutInv, CapacityInv, RowsInv, LiveReplica
<1>6. CleanupInv' /\ RejectedInv'
  <2>1. \A r : SlotsOf(r) \subseteq Slots
    BY DEF SlotsOf
  <2> QED BY <2>1 DEF RolloutInv, CapacityInv, CleanupInv, RejectedInv, Abandoned
<1> QED BY <1>1, <1>2, <1>3, <1>4, <1>5, <1>6 DEF RolloutInv, CapacityInv

LEMMA VerdictsAre ==
  ASSUME NEW r
  PROVE  Verdicts(r) \subseteq {"ACCEPT", "WAIT", "REJECT"}
  BY DEF Verdicts

LEMMA GuardStep ==
  ASSUME RolloutInv, EvaluateReleaseGuard \/ SetReleaseGuardPolicy \/ PublishGeneration \/ RequestsEnd
  PROVE  RolloutInv'
<1>1. /\ UNCHANGED <<revision, past, deployment, replica, target, monitor, operation, instance, usage>>
  BY DEF EvaluateReleaseGuard, SetReleaseGuardPolicy, PublishGeneration, RequestsEnd, storeVars, worldVars
<1>2. verdict' \in [Revisions -> Evaluations]
  <2>1. CASE EvaluateReleaseGuard
    <3>1. PICK d \in {"ACCEPT", "WAIT", "REJECT"} :
            verdict' = [verdict EXCEPT ![deployment.candidate] =
                          [decision |-> d, active |-> deployment.active]]
      BY <2>1, VerdictsAre DEF EvaluateReleaseGuard
    <3>2. deployment.active \in 0..MaxRevision
      BY RolloutConstants DEF RolloutInv, RolloutTypeOK, Revisions
    <3>3. [decision |-> d, active |-> deployment.active] \in Evaluations
      BY <3>2 DEF Evaluations
    <3> QED BY <3>1, <3>3 DEF RolloutInv, RolloutTypeOK
  <2>2. CASE ~EvaluateReleaseGuard
    BY <2>2 DEF SetReleaseGuardPolicy, PublishGeneration, RequestsEnd, storeVars, RolloutInv, RolloutTypeOK
  <2> QED BY <2>1, <2>2
<1>3. autoRollback' \in BOOLEAN /\ inFlight' \in BOOLEAN
  BY DEF EvaluateReleaseGuard, SetReleaseGuardPolicy, PublishGeneration, RequestsEnd, worldVars,
     RolloutInv, RolloutTypeOK
<1>4. routerGeneration' \subseteq Slots
  BY DEF EvaluateReleaseGuard, SetReleaseGuardPolicy, PublishGeneration, RequestsEnd, worldVars,
     RolloutInv, RolloutTypeOK, Answering
<1>5. RolloutTypeOK'
  BY <1>1, <1>2, <1>3, <1>4 DEF RolloutInv, RolloutTypeOK
<1> QED BY <1>1, <1>5, WorldStep DEF Monitored, Running

LEMMA DeadlineStep ==
  ASSUME RolloutInv, NEW r \in Revisions, DeadlinePasses(r)
  PROVE  RolloutInv'
<1>1. UNCHANGED <<revision, past, deployment, replica, target, verdict, worldVars, operation>>
  BY DEF DeadlinePasses
<1>2. /\ monitor' \in [Revisions -> Monitors]
      /\ \A q \in Revisions : monitor'[q].status = monitor[q].status /\ monitor'[q].rollback = monitor[q].rollback
  <2>1. monitor \in [Revisions -> Monitors] /\ monitor' = [monitor EXCEPT ![r].late = TRUE]
    BY DEF DeadlinePasses, RolloutInv, RolloutTypeOK
  <2> QED BY <2>1 DEF Monitors
<1>3. RolloutTypeOK'
  BY <1>1, <1>2 DEF RolloutInv, RolloutTypeOK, worldVars
<1> QED BY <1>1, <1>2, <1>3, WorldStep DEF Monitored, Running, worldVars

LEMMA InstanceStep ==
  ASSUME RolloutInv, NEW s \in Slots, BootInstance(s) \/ StopInstance(s)
  PROVE  RolloutInv'
<1>1. UNCHANGED <<storeVars, autoRollback, routerGeneration, inFlight, operation>>
  BY DEF BootInstance, StopInstance
<1>2. /\ usage' \in Usages
      /\ usage'.exhausted = usage.exhausted
  BY Counted DEF BootInstance, StopInstance, RolloutFault, RolloutInv, RolloutTypeOK
<1>3. /\ instance' \in [Slots -> {"none", "booting", "up", "failed", "stopping"}]
      /\ \A t \in Slots : Running(t)' => Running(t)
  BY DEF BootInstance, StopInstance, RolloutInv, RolloutTypeOK, Running
<1>4. RolloutTypeOK'
  BY <1>1, <1>2, <1>3 DEF RolloutInv, RolloutTypeOK, storeVars
<1> QED BY <1>1, <1>2, <1>3, <1>4, WorldStep DEF Monitored, storeVars
\* A step of a handler that changes nothing but where the handler is.
LEMMA OperationStep ==
  ASSUME RolloutInv, UNCHANGED <<storeVars, worldVars>>,
         operation' \in HandlerStates, HandlerInv', LaunchInv', CleanupInv',
         \A s \in Slots : Abandoned(s) => /\ operation'.kind = "provision" /\ operation'.rev = s[1]
                                          /\ operation'.pc \in {"start", "clean"}
  PROVE  RolloutInv'
<1>1. RolloutTypeOK'
  BY DEF RolloutInv, RolloutTypeOK, storeVars, worldVars
<1>2. OneActiveRevision' /\ HistoryInv'
  BY RevisionsKept DEF storeVars
<1>3. MonitorInv'
  BY DEF RolloutInv, MonitorInv, Monitored, storeVars
<1>4. RowsInv'
  BY DEF RolloutInv, CapacityInv, RowsInv, Running, LiveReplica, storeVars, worldVars
<1>5. RejectedInv'
  <2>1. \A s \in Slots : Abandoned(s)' => Abandoned(s)
    BY DEF Abandoned, Running, storeVars, worldVars
  <2> QED BY <2>1 DEF RejectedInv
<1> QED BY <1>1, <1>2, <1>3, <1>4, <1>5 DEF RolloutInv, CapacityInv

\* A step after which the handler is over, or starts over, with nothing else changed.
LEMMA OverStep ==
  ASSUME RolloutInv, UNCHANGED <<storeVars, worldVars>>,
         \/ operation' = Retried
         \/ operation' = NoOperation /\ \A s \in Slots : ~Abandoned(s)
  PROVE  RolloutInv'
<1>1. usage' \in Usages
  BY DEF RolloutInv, RolloutTypeOK, worldVars
<1> QED BY <1>1, OutcomeStep DEF worldVars

\* Only the provisioning of a candidate has something of a rejected revision to clean up.
LEMMA NothingAbandoned ==
  ASSUME RolloutInv, operation.kind # "provision" \/ operation.pc \notin {"start", "clean"}
  PROVE  \A s \in Slots : ~Abandoned(s)
  BY DEF RolloutInv, CapacityInv, RejectedInv

LEMMA ReturnStep ==
  ASSUME RolloutInv, UNCHANGED <<storeVars, worldVars>>, operation' \in {Returned, Wait, NoOperation, Retried},
         \A s \in Slots : ~Abandoned(s)
  PROVE  RolloutInv'
<1>1. operation' \in {NoOperation, Retried}
  BY Outcomes DEF RolloutInv, RolloutTypeOK
<1> QED BY <1>1, OverStep

\* The revisions after another one has become active and the active one is history.
LEMMA ActivationIs ==
  ASSUME RolloutInv, NEW r \in Revisions, r # deployment.active, revision[r] # "absent",
         revision' = [revision EXCEPT ![deployment.active] = "superseded", ![r] = "active"],
         past' = Without(Append(past, deployment.active), r),
         deployment'.active = r, deployment'.candidate = 0
  PROVE  /\ revision' \in [Revisions -> RevisionStatuses] /\ past' \in Seq(Revisions)
         /\ OneActiveRevision' /\ HistoryInv'
         /\ \A q \in Revisions : /\ revision[q] # "absent" => revision'[q] # "absent"
                                 /\ revision'[q] = "rejected" => revision[q] = "rejected"
<1> DEFINE old == deployment.active
<1>1. /\ old \in Revisions /\ revision \in [Revisions -> RevisionStatuses] /\ past \in Seq(Revisions)
      /\ Once(past) /\ revision[old] = "active"
      /\ \A q \in Revisions : revision[q] = "superseded" <=> In(past, q)
      /\ \A q \in Revisions : revision[q] = "active" <=> q = old
  BY DEF RolloutInv, RolloutTypeOK, OneActiveRevision, HistoryInv, In
<1>2. revision' = [revision EXCEPT ![old] = "superseded", ![r] = "active"] /\ r # old
      /\ past' = Without(Append(past, old), r)
  OBVIOUS
<1> HIDE DEF old
<1>3. ~In(past, old)
  BY <1>1
<1> DEFINE longer == Append(past, old)
<1>4. /\ longer \in Seq(Revisions) /\ Once(longer)
      /\ \A y : In(longer, y) <=> In(past, y) \/ y = old
  BY <1>1, <1>3, AppendIs
<1>0. past' = Without(longer, r)
  BY <1>2
<1> HIDE DEF longer
<1>5. /\ past' \in Seq(Revisions) /\ Once(past')
      /\ \A y : In(past', y) <=> (In(past, y) \/ y = old) /\ y # r
  BY <1>0, <1>4, WithoutIs
<1>6. /\ revision' \in [Revisions -> RevisionStatuses]
      /\ revision'[old] = "superseded" /\ revision'[r] = "active"
      /\ \A q \in Revisions : q \notin {old, r} => revision'[q] = revision[q]
  BY <1>1, <1>2 DEF RevisionStatuses
<1>7. OneActiveRevision'
  <2>1. \A q \in Revisions : revision'[q] = "active" <=> q = r
    BY <1>1, <1>6
  <2>2. \A q \in Revisions : revision'[q] = "superseded" <=> In(past', q)
    BY <1>1, <1>5, <1>6
  <2> QED BY <2>1, <2>2 DEF OneActiveRevision, In
<1>8. \A q \in Revisions : /\ revision[q] # "absent" <=> revision'[q] # "absent"
                           /\ revision'[q] = "rejected" => revision[q] = "rejected"
  BY <1>1, <1>6
<1>9. HistoryInv'
  BY <1>5, <1>8 DEF RolloutInv, HistoryInv
<1> QED BY <1>5, <1>6, <1>7, <1>8, <1>9

\* The revision of a cleanup, and what begins one.
LEMMA CleanupStarts ==
  ASSUME RolloutInv, UNCHANGED <<storeVars, worldVars>>,
         operation.kind \in {"provision", "reject", "promote"},
         operation' \in {Cleanup(operation.rev), [Cleanup(operation.rev) EXCEPT !.undo = TRUE]}
  PROVE  RolloutInv'
<1>1. operation \in HandlerStates
  BY DEF RolloutInv, RolloutTypeOK
<1>2. /\ operation' \in HandlerStates /\ operation'.pc = "clean"
      /\ operation'.kind = operation.kind /\ operation'.rev = operation.rev
      /\ \A s \in SlotsOf(operation.rev) : LiveReplica(s) => s \in operation'.seen
  BY <1>1, CleanupIs
<1>3. HandlerInv'
  BY <1>2 DEF RolloutInv, HandlerInv, storeVars
<1>4. LaunchInv'
  BY <1>2 DEF LaunchInv
<1>5. CleanupInv'
  <2>1. \A s \in SlotsOf(operation.rev) : s \in Slots
    BY DEF SlotsOf
  <2> QED BY <1>2, <2>1 DEF RolloutInv, CapacityInv, RowsInv, CleanupInv, Running, storeVars, worldVars
<1>6. \A s \in Slots : Abandoned(s) => operation'.kind = "provision" /\ operation'.rev = s[1]
  BY <1>2 DEF RolloutInv, CapacityInv, RejectedInv
<1> QED BY <1>2, <1>3, <1>4, <1>5, <1>6, OperationStep

LEMMA CancelWithoutHandlerStep ==
  ASSUME RolloutInv, CancelWithoutHandler
  PROVE  RolloutInv'
<1>1. operation.kind # "provision" /\ operation' = NoOperation /\ UNCHANGED <<storeVars, worldVars>>
  BY DEF CancelWithoutHandler
<1> QED BY <1>1, NothingAbandoned, ReturnStep

LEMMA StartProvisionStep ==
  ASSUME RolloutInv, StartProvision
  PROVE  RolloutInv'
<1>1. /\ operation.kind = "provision" /\ operation.pc = "start" /\ UNCHANGED <<storeVars, worldVars>>
      /\ operation \in HandlerStates /\ operation.rev \in Revisions
  BY DEF StartProvision, RolloutInv, RolloutTypeOK, HandlerInv
<1>2. CASE revision[operation.rev] = "candidate"
  <2>1. operation' = AtStep("ensure")
    BY <1>2 DEF StartProvision
  <2>2. /\ operation' \in HandlerStates /\ operation'.pc = "ensure"
        /\ operation'.kind = "provision" /\ operation'.rev = operation.rev
    BY <1>1, <2>1, GoesToStep DEF RolloutSteps
  <2>3. HandlerInv' /\ LaunchInv' /\ CleanupInv'
    BY <1>1, <1>2, <2>2 DEF RolloutInv, HandlerInv, LaunchInv, CleanupInv, storeVars
  <2>4. \A s \in Slots : ~Abandoned(s)
    BY <1>2 DEF RolloutInv, CapacityInv, RejectedInv, Abandoned
  <2> QED BY <1>1, <2>2, <2>3, <2>4, OperationStep
<1>3. CASE revision[operation.rev] = "rejected"
  <2>1. operation' = Cleanup(operation.rev)
    BY <1>3 DEF StartProvision
  <2> QED BY <1>1, <2>1, CleanupStarts
<1>4. CASE revision[operation.rev] \notin {"candidate", "rejected"}
  <2>1. operation' = Returned
    BY <1>4 DEF StartProvision
  <2>2. \A s \in Slots : ~Abandoned(s)
    BY <1>4 DEF RolloutInv, CapacityInv, RejectedInv, Abandoned
  <2> QED BY <1>1, <2>1, <2>2, ReturnStep
<1> QED BY <1>2, <1>3, <1>4

\* The handler goes on at a step that is neither a launch, its burial nor a cleanup.
LEMMA GoOn ==
  ASSUME RolloutInv, NEW step \in RolloutSteps \ {"launched", "bury", "clean"}, operation' = AtStep(step),
         step \in {"ensure", "refuse"} => operation.pc \in {"ensure", "launched", "bury", "refuse"},
         step \notin {"commit", "route", "restore", "restored"} \/ operation.pc = step,
         operation.pc # "start", UNCHANGED <<revision, monitor>>
  PROVE  operation' \in HandlerStates /\ HandlerInv' /\ LaunchInv' /\ CleanupInv'
<1>1. operation \in HandlerStates
  BY DEF RolloutInv, RolloutTypeOK
<1>2. /\ operation' \in HandlerStates /\ operation'.pc = step
      /\ operation'.kind = operation.kind /\ operation'.rev = operation.rev
      /\ operation'.keep = operation.keep /\ operation'.prev = operation.prev
  BY <1>1, GoesToStep
<1>3. HandlerInv'
  BY <1>2 DEF RolloutInv, HandlerInv, Monitored
<1> QED BY <1>2, <1>3 DEF LaunchInv, CleanupInv

LEMMA EnsureIntentStep ==
  ASSUME RolloutInv, EnsureReplicaIntent
  PROVE  RolloutInv'
<1> DEFINE n == NextSlot
<1>1. /\ operation.pc = "ensure" /\ Pending # {} /\ operation \in HandlerStates
      /\ operation.kind = "provision" /\ revision[operation.rev] = "candidate"
      /\ operation.rev \in Revisions
      /\ UNCHANGED <<revision, past, deployment, target, verdict, monitor, worldVars>>
  BY DEF EnsureReplicaIntent, RolloutInv, RolloutTypeOK, HandlerInv
<1>2. \A s \in Slots : ~Abandoned(s)
  BY <1>1, NothingAbandoned
<1>3. n \in Pending /\ n \in Slots /\ n[1] = operation.rev
  BY <1>1, NextSlotIs
<1>4. CASE replica[n] = "deleted"
  <2>1. operation' = AtStep("refuse") /\ UNCHANGED <<storeVars, worldVars>>
    BY <1>1, <1>4 DEF EnsureReplicaIntent, storeVars
  <2>2. operation' \in HandlerStates /\ HandlerInv' /\ LaunchInv' /\ CleanupInv'
    BY <1>1, <2>1, GoOn DEF RolloutSteps, storeVars
  <2> QED BY <1>2, <2>1, <2>2, OperationStep
<1>5. CASE replica[n] # "deleted"
  <2>1. operation' = AtStep("launched") /\ replica' = [replica EXCEPT ![n] = "provisioning"]
    BY <1>5 DEF EnsureReplicaIntent
  <2>2. /\ operation' \in HandlerStates /\ operation'.pc = "launched"
        /\ operation'.kind = operation.kind /\ operation'.rev = operation.rev
    BY <1>1, <2>1, GoesToStep DEF RolloutSteps
  <2>3. /\ replica' \in [Slots -> Lifecycles] /\ replica'[n] = "provisioning"
        /\ \A s \in Slots : s # n => replica'[s] = replica[s]
    BY <1>3, <2>1 DEF RolloutInv, RolloutTypeOK, Lifecycles
  <2>4. RolloutTypeOK'
    BY <1>1, <2>2, <2>3 DEF RolloutInv, RolloutTypeOK, worldVars
  <2>5. HandlerInv' /\ MonitorInv' /\ CleanupInv'
    BY <1>1, <2>2 DEF RolloutInv, HandlerInv, MonitorInv, Monitored, CleanupInv
  <2>6. LaunchInv'
    <3>1. Pending' = Pending
      <4>1. replica[n] # "ready"
        BY <1>3 DEF Pending
      <4> QED BY <2>2, <2>3, <4>1 DEF Pending, SlotsOf
    <3>2. NextSlot' = NextSlot
      BY <3>1, Zenon DEF NextSlot
    <3> QED BY <1>1, <2>2, <2>3, <3>1, <3>2 DEF LaunchInv
  <2>7. RowsInv' /\ RejectedInv'
    <3>1. \A s \in Slots : Running(s)' <=> Running(s)
      BY <1>1 DEF Running, worldVars
    <3>2. \A s \in Slots : LiveReplica(s) => LiveReplica(s)'
      BY <2>3 DEF LiveReplica
    <3>3. \A s \in Slots : ~Abandoned(s)'
      BY <1>1, <1>2 DEF Abandoned, Running, worldVars
    <3> QED BY <3>1, <3>2, <3>3 DEF RolloutInv, CapacityInv, RowsInv, RejectedInv
  <2> QED BY <1>1, <2>4, <2>5, <2>6, <2>7, RevisionsKept DEF RolloutInv, CapacityInv
<1> QED BY <1>4, <1>5

LEMMA EnsureReplicaStep ==
  ASSUME RolloutInv, EnsureReplica
  PROVE  RolloutInv'
<1> DEFINE n == NextSlot
<1>1. /\ operation.pc = "launched" /\ Pending # {} /\ replica[n] = "provisioning"
      /\ revision[operation.rev] = "candidate"
      /\ UNCHANGED <<storeVars, autoRollback, routerGeneration, inFlight, operation, usage>>
      /\ instance' = [instance EXCEPT ![n] = "booting"]
  BY DEF EnsureReplica, RolloutInv, HandlerInv, CapacityInv, LaunchInv
<1>2. n \in Slots /\ n[1] = operation.rev
  BY <1>1, NextSlotIs
<1> HIDE DEF n
<1>3. /\ instance' \in [Slots -> {"none", "booting", "up", "failed", "stopping"}]
      /\ \A s \in Slots : s # n => instance'[s] = instance[s]
  BY <1>1, <1>2 DEF RolloutInv, RolloutTypeOK
<1>4. RolloutTypeOK'
  BY <1>1, <1>3 DEF RolloutInv, RolloutTypeOK, storeVars
<1>5. OneActiveRevision' /\ HistoryInv'
  BY <1>1, RevisionsKept DEF storeVars
<1>6. HandlerInv' /\ MonitorInv'
  BY <1>1, HandlerKept DEF RolloutInv, MonitorInv, Monitored, storeVars
<1>7. LaunchInv' /\ CleanupInv'
  BY <1>1, LaunchKept DEF CleanupInv, storeVars
<1>8. RowsInv'
  BY <1>1, <1>3 DEF RolloutInv, CapacityInv, RowsInv, Running, LiveReplica, storeVars
<1>9. RejectedInv'
  <2>1. \A s \in Slots : ~Abandoned(s)
    BY <1>1, NothingAbandoned
  <2>2. \A s \in Slots : ~Abandoned(s)'
    BY <1>1, <1>2, <1>3, <2>1 DEF Abandoned, Running, storeVars
  <2> QED BY <2>2 DEF RejectedInv
<1> QED BY <1>4, <1>5, <1>6, <1>7, <1>8, <1>9 DEF RolloutInv, CapacityInv

\* The row of a replica becomes ready, or deleted when its instance does not run.
LEMMA RowStep ==
  ASSUME RolloutInv, NEW n \in Slots, NEW state \in {"ready", "deleted"},
         replica' = [replica EXCEPT ![n] = state], target' \subseteq Slots,
         UNCHANGED <<revision, past, deployment, verdict, monitor, autoRollback, instance, routerGeneration,
                     inFlight, usage>>,
         operation' \in HandlerStates, HandlerInv', LaunchInv', CleanupInv',
         \A s \in Slots : ~Abandoned(s),
         \A s \in Slots : Running(s)' => Running(s),
         state = "deleted" => ~Running(n)'
  PROVE  RolloutInv'
<1>1. /\ replica' \in [Slots -> Lifecycles] /\ replica'[n] = state
      /\ \A s \in Slots : s # n => replica'[s] = replica[s]
  BY DEF RolloutInv, RolloutTypeOK, Lifecycles
<1>2. RolloutTypeOK'
  BY <1>1 DEF RolloutInv, RolloutTypeOK
<1>3. MonitorInv'
  BY DEF RolloutInv, MonitorInv, Monitored
<1>4. RowsInv'
  BY <1>1 DEF RolloutInv, CapacityInv, RowsInv, LiveReplica
<1>5. RejectedInv'
  BY DEF RejectedInv, Abandoned
<1> QED BY <1>2, <1>3, <1>4, <1>5, RevisionsKept DEF RolloutInv, CapacityInv

LEMMA ObserveInstanceStep ==
  ASSUME RolloutInv, ObserveInstance
  PROVE  RolloutInv'
<1>0. PICK n : n = NextSlot
  OBVIOUS
<1>1. /\ operation.pc = "launched" /\ Pending # {} /\ operation \in HandlerStates
      /\ operation.kind = "provision"
      /\ UNCHANGED <<revision, past, deployment, verdict, monitor, autoRollback, routerGeneration,
                     inFlight, usage>>
  BY DEF ObserveInstance, RolloutInv, RolloutTypeOK, HandlerInv, CapacityInv, LaunchInv
<1>2. n \in Slots
  BY <1>0, <1>1, NextSlotIs
<1>3. \A s \in Slots : ~Abandoned(s)
  BY <1>1, NothingAbandoned
<1>4. CASE operation' = (IF operation.cancel THEN Returned ELSE Retried) /\ UNCHANGED <<replica, target, instance>>
  <2>1. UNCHANGED <<storeVars, worldVars>> /\ operation' \in {Returned, Retried}
    BY <1>1, <1>4 DEF storeVars, worldVars
  <2> QED BY <1>3, <2>1, ReturnStep
<1>5. CASE /\ replica' = [replica EXCEPT ![n] = "ready"] /\ target' = target \union {n}
           /\ operation' = AtStep("ensure") /\ UNCHANGED instance
  <2>1. operation' \in HandlerStates /\ HandlerInv' /\ LaunchInv' /\ CleanupInv'
    BY <1>1, <1>5, GoOn DEF RolloutSteps
  <2>2. target' \subseteq Slots /\ \A s \in Slots : Running(s)' => Running(s)
    BY <1>2, <1>5 DEF RolloutInv, RolloutTypeOK, Running
  <2> QED BY <1>1, <1>2, <1>3, <1>5, <2>1, <2>2, RowStep
<1>6. CASE instance' = [instance EXCEPT ![n] = "stopping"] /\ operation' = AtStep("bury") /\ UNCHANGED <<replica, target>>
  <2>1. /\ instance' \in [Slots -> {"none", "booting", "up", "failed", "stopping"}] /\ instance'[n] = "stopping"
        /\ \A s \in Slots : s # n => instance'[s] = instance[s]
    BY <1>2, <1>6 DEF RolloutInv, RolloutTypeOK
  <2>2. ~Running(n)' /\ \A s \in Slots : Running(s)' => Running(s)
    BY <2>1 DEF Running
  <2>3. /\ operation' \in HandlerStates /\ operation'.pc = "bury"
        /\ operation'.kind = operation.kind /\ operation'.rev = operation.rev
    BY <1>1, <1>6, GoesToStep DEF RolloutSteps
  <2>4. RolloutTypeOK'
    BY <1>1, <1>6, <2>1, <2>3 DEF RolloutInv, RolloutTypeOK
  <2>5. HandlerInv' /\ MonitorInv' /\ CleanupInv'
    BY <1>1, <2>3 DEF RolloutInv, HandlerInv, MonitorInv, Monitored, CleanupInv
  <2>6. LaunchInv'
    <3>1. Pending' = Pending
      BY <1>6, <2>3 DEF Pending
    <3>2. NextSlot' = n
      BY <1>0, <3>1, Zenon DEF NextSlot
    <3>3. ~Running(NextSlot)'
      BY <2>2, <3>2 DEF Running
    <3> QED BY <1>1, <2>3, <3>1, <3>3 DEF LaunchInv
  <2>7. RowsInv'
    BY <1>6, <2>2 DEF RolloutInv, CapacityInv, RowsInv, LiveReplica
  <2>8. RejectedInv'
    BY <1>1, <1>3, <2>2 DEF RejectedInv, Abandoned
  <2> QED BY <1>1, <2>3, <2>4, <2>5, <2>6, <2>7, <2>8, RevisionsKept DEF RolloutInv, CapacityInv
<1> QED BY <1>0, <1>4, <1>5, <1>6 DEF ObserveInstance

LEMMA MarkFailedStep ==
  ASSUME RolloutInv, MarkFailedReplicaDeleted
  PROVE  RolloutInv'
<1>0. PICK n : n = NextSlot
  OBVIOUS
<1>1. /\ operation.pc = "bury" /\ Pending # {} /\ ~Running(n)
      /\ UNCHANGED <<revision, past, deployment, target, verdict, monitor, worldVars>>
      /\ replica' = [replica EXCEPT ![n] = "deleted"] /\ operation' = AtStep("refuse")
  BY <1>0 DEF MarkFailedReplicaDeleted, RolloutInv, CapacityInv, LaunchInv, Running
<1>2. n \in Slots
  BY <1>0, <1>1, NextSlotIs
<1>3. operation' \in HandlerStates /\ HandlerInv' /\ LaunchInv' /\ CleanupInv'
  BY <1>1, GoOn DEF RolloutSteps
<1>4. /\ target' \subseteq Slots /\ ~Running(n)' /\ UNCHANGED instance
      /\ \A s \in Slots : Running(s)' => Running(s)
  BY <1>1 DEF RolloutInv, RolloutTypeOK, Running, worldVars
<1>5. \A s \in Slots : ~Abandoned(s)
  BY <1>1, NothingAbandoned
<1> QED BY <1>1, <1>2, <1>3, <1>4, <1>5, RowStep DEF worldVars

LEMMA ProvisionFailsStep ==
  ASSUME RolloutInv, ProvisionFailsForGood
  PROVE  RolloutInv'
<1>1. /\ operation.pc = "launched" /\ operation' = AtStep("refuse")
      /\ UNCHANGED <<storeVars, worldVars>>
  BY DEF ProvisionFailsForGood
<1>2. operation' \in HandlerStates /\ HandlerInv' /\ LaunchInv' /\ CleanupInv'
  BY <1>1, GoOn DEF RolloutSteps, storeVars
<1> QED BY <1>1, <1>2, NothingAbandoned, OperationStep

LEMMA FinishProvisionStep ==
  ASSUME RolloutInv, FinishProvision
  PROVE  RolloutInv'
<1>1. operation.pc = "ensure" /\ operation' = Returned /\ UNCHANGED <<storeVars, worldVars>>
  BY DEF FinishProvision
<1> QED BY <1>1, NothingAbandoned, ReturnStep

\* Revisions are numbered without gaps, so that the next number is free.
LEMMA NextRevisionIs ==
  ASSUME RolloutInv, Cardinality(Existing) < MaxRevision
  PROVE  /\ NextRevision \in Revisions /\ revision[NextRevision] = "absent"
         /\ \A q \in Revisions : (revision[q] # "absent" \/ q = NextRevision) <=> q <= NextRevision
<1>1. PICK n \in Revisions : \A q \in Revisions : revision[q] # "absent" <=> q <= n
  BY DEF RolloutInv, HistoryInv
<1>2. n \in Nat /\ n <= MaxRevision /\ 1 <= n
  BY <1>1, RolloutConstants DEF Revisions
<1>3. Existing = 1..n
  BY <1>1, <1>2, RolloutConstants DEF Existing, Revisions
<1>4. Cardinality(Existing) = n
  BY <1>2, <1>3, FS_Interval
<1>5. NextRevision = n + 1 /\ n < MaxRevision
  BY <1>4 DEF NextRevision
<1> QED BY <1>1, <1>2, <1>5, RolloutConstants DEF Revisions

LEMMA CreateCandidateStep ==
  ASSUME RolloutInv, CreateCandidate
  PROVE  RolloutInv'
<1>1. /\ operation.kind = "create" /\ operation \in HandlerStates
      /\ UNCHANGED <<past, replica, target, verdict, monitor, worldVars>>
  BY DEF CreateCandidate, RolloutInv, RolloutTypeOK
<1>2. \A s \in Slots : ~Abandoned(s)
  BY <1>1, NothingAbandoned
<1>3. CASE operation' = Returned /\ UNCHANGED <<revision, deployment>>
  <2>1. UNCHANGED <<storeVars, worldVars>>
    BY <1>1, <1>3 DEF storeVars
  <2> QED BY <1>2, <1>3, <2>1, ReturnStep
<1>4. CASE /\ Cardinality(Existing) < MaxRevision
           /\ revision' = [revision EXCEPT ![NextRevision] = "candidate"]
           /\ deployment' = [deployment EXCEPT !.candidate = NextRevision]
           /\ operation' \in {Returned, [Retried EXCEPT !.rev = NextRevision]}
  <2>0. PICK r : r = NextRevision
    OBVIOUS
  <2>1. /\ r \in Revisions /\ revision[r] = "absent"
        /\ \A q \in Revisions : (revision[q] # "absent" \/ q = r) <=> q <= r
        /\ revision' = [revision EXCEPT ![r] = "candidate"]
        /\ deployment' = [deployment EXCEPT !.candidate = r]
    BY <1>4, <2>0, NextRevisionIs
  <2>2. /\ operation' \in HandlerStates /\ operation'.pc = "start"
        /\ operation'.kind \in {"none", "create"}
    <3>1. r \in 0..MaxRevision
      BY <2>1, RolloutConstants DEF Revisions
    <3>2. /\ Retried \in HandlerStates /\ Retried.pc = "start" /\ Retried.kind = "create"
          /\ Returned \in {NoOperation, Retried} /\ NoOperation \in HandlerStates
          /\ NoOperation.pc = "start" /\ NoOperation.kind = "none"
      BY <1>1, Outcomes
    <3>3. /\ [Retried EXCEPT !.rev = r] \in HandlerStates /\ [Retried EXCEPT !.rev = r].pc = "start"
          /\ [Retried EXCEPT !.rev = r].kind = "create"
      BY <3>1, <3>2 DEF HandlerStates
    <3>4. operation' \in {Returned, [Retried EXCEPT !.rev = r]}
      BY <1>4, <2>0
    <3> QED BY <3>2, <3>3, <3>4
  <2>3. /\ revision' \in [Revisions -> RevisionStatuses] /\ revision'[r] = "candidate"
        /\ \A q \in Revisions : q # r => revision'[q] = revision[q]
    BY <2>1 DEF RolloutInv, RolloutTypeOK, RevisionStatuses
  <2>4. /\ deployment' \in [active: Revisions, candidate: 0..MaxRevision, targets: SUBSET Slots]
        /\ deployment'.active = deployment.active /\ deployment'.candidate = r
    <3>1. r \in 0..MaxRevision
      BY <2>1, RolloutConstants DEF Revisions
    <3> QED BY <2>1, <3>1 DEF RolloutInv, RolloutTypeOK
  <2>5. RolloutTypeOK'
    BY <1>1, <2>2, <2>3, <2>4 DEF RolloutInv, RolloutTypeOK, worldVars
  <2>6. OneActiveRevision'
    BY <1>1, <2>1, <2>3, <2>4 DEF RolloutInv, OneActiveRevision
  <2>7. HistoryInv'
    BY <1>1, <2>1, <2>3 DEF RolloutInv, HistoryInv, Once
  <2>8. HandlerInv' /\ MonitorInv' /\ LaunchInv' /\ CleanupInv'
    BY <1>1, <2>2 DEF RolloutInv, HandlerInv, MonitorInv, Monitored, LaunchInv, CleanupInv
  <2>9. RowsInv'
    BY <1>1 DEF RolloutInv, CapacityInv, RowsInv, Running, LiveReplica, worldVars
  <2>10. RejectedInv'
    <3>1. \A s \in Slots : s[1] \in Revisions
      BY DEF Slots
    <3>2. \A s \in Slots : ~Abandoned(s)'
      BY <1>1, <1>2, <2>3, <3>1 DEF Abandoned, Running, worldVars
    <3> QED BY <3>2 DEF RejectedInv
  <2> QED BY <2>5, <2>6, <2>7, <2>8, <2>9, <2>10 DEF RolloutInv, CapacityInv
<1> QED BY <1>3, <1>4 DEF CreateCandidate

\* Only the candidate is rejected.
LEMMA RejectionIs ==
  ASSUME RolloutInv, NEW r \in Revisions, RejectCandidateRevision(r), UNCHANGED past
  PROVE  /\ revision' \in [Revisions -> RevisionStatuses]
         /\ deployment' \in [active: Revisions, candidate: 0..MaxRevision, targets: SUBSET Slots]
         /\ OneActiveRevision' /\ HistoryInv'
         /\ \A q \in Revisions : /\ revision[q] # "absent" => revision'[q] # "absent"
                                 /\ q # r => revision'[q] = revision[q]
<1>1. /\ deployment.candidate = r /\ revision' = [revision EXCEPT ![r] = "rejected"]
      /\ deployment' = [deployment EXCEPT !.candidate = 0]
  BY DEF RejectCandidateRevision, Rejectable
<1>2. r # 0
  BY RolloutConstants DEF Revisions
<1>3. revision[r] = "candidate"
  BY <1>1, <1>2 DEF RolloutInv, OneActiveRevision
<1>4. /\ revision' \in [Revisions -> RevisionStatuses] /\ revision'[r] = "rejected"
      /\ \A q \in Revisions : q # r => revision'[q] = revision[q]
  BY <1>1 DEF RolloutInv, RolloutTypeOK, RevisionStatuses
<1>5. /\ deployment' \in [active: Revisions, candidate: 0..MaxRevision, targets: SUBSET Slots]
      /\ deployment'.active = deployment.active /\ deployment'.candidate = 0
  <2>1. 0 \in 0..MaxRevision
    BY RolloutConstants
  <2> QED BY <1>1, <2>1 DEF RolloutInv, RolloutTypeOK
<1>6. OneActiveRevision'
  BY <1>3, <1>4, <1>5 DEF RolloutInv, OneActiveRevision
<1>7. \A q \in Revisions : revision[q] # "absent" <=> revision'[q] # "absent"
  BY <1>3, <1>4
<1>8. HistoryInv'
  BY <1>7 DEF RolloutInv, HistoryInv, Once
<1> QED BY <1>4, <1>5, <1>6, <1>7, <1>8

\* The part of a step that rejects a revision, or finds that it is not the candidate.
LEMMA RejectsOrNot ==
  ASSUME RolloutInv, NEW r \in Revisions, UNCHANGED past,
         RejectCandidateRevision(r) \/ UNCHANGED <<revision, deployment>>
  PROVE  /\ revision' \in [Revisions -> RevisionStatuses]
         /\ deployment' \in [active: Revisions, candidate: 0..MaxRevision, targets: SUBSET Slots]
         /\ OneActiveRevision' /\ HistoryInv'
         /\ \A q \in Revisions : /\ revision[q] # "absent" => revision'[q] # "absent"
                                 /\ q # r => revision'[q] = revision[q]
<1>1. CASE RejectCandidateRevision(r)
  BY <1>1, RejectionIs
<1>2. CASE UNCHANGED <<revision, deployment>>
  <2>1. OneActiveRevision' /\ HistoryInv'
    BY <1>2, RevisionsKept
  <2> QED BY <1>2, <2>1 DEF RolloutInv, RolloutTypeOK
<1> QED BY <1>1, <1>2

LEMMA RefuseStep ==
  ASSUME RolloutInv, RefuseCandidate
  PROVE  RolloutInv'
<1>0. PICK r : r = operation.rev
  OBVIOUS
<1>1. /\ operation.pc = "refuse" /\ operation.kind = "provision" /\ r \in Revisions
      /\ operation \in HandlerStates /\ revision[r] # "absent"
      /\ UNCHANGED <<past, replica, target, verdict, monitor, worldVars>>
      /\ operation' = Cleanup(r)
      /\ RejectCandidateRevision(r) \/ UNCHANGED <<revision, deployment>>
  BY <1>0 DEF RefuseCandidate, RolloutInv, RolloutTypeOK, HandlerInv
<1>2. \A s \in Slots : ~Abandoned(s)
  BY <1>1, NothingAbandoned
<1>3. /\ revision' \in [Revisions -> RevisionStatuses]
      /\ deployment' \in [active: Revisions, candidate: 0..MaxRevision, targets: SUBSET Slots]
      /\ OneActiveRevision' /\ HistoryInv'
      /\ \A q \in Revisions : /\ revision[q] # "absent" => revision'[q] # "absent"
                              /\ q # r => revision'[q] = revision[q]
  BY <1>1, RejectsOrNot
<1>4. /\ operation' \in HandlerStates /\ operation'.pc = "clean"
      /\ operation'.kind = "provision" /\ operation'.rev = r
      /\ \A s \in SlotsOf(r) : LiveReplica(s) => s \in operation'.seen
  BY <1>0, <1>1, CleanupIs
<1>5. RolloutTypeOK'
  BY <1>1, <1>3, <1>4 DEF RolloutInv, RolloutTypeOK, worldVars
<1>6. HandlerInv' /\ MonitorInv' /\ LaunchInv'
  BY <1>1, <1>3, <1>4 DEF RolloutInv, HandlerInv, MonitorInv, Monitored, LaunchInv
<1>7. RowsInv' /\ CleanupInv'
  <2>1. \A s \in SlotsOf(r) : s \in Slots
    BY DEF SlotsOf
  <2> QED BY <1>1, <1>4, <2>1 DEF RolloutInv, CapacityInv, RowsInv, CleanupInv, Running, LiveReplica, worldVars
<1>8. RejectedInv'
  <2> SUFFICES ASSUME NEW s \in Slots, Abandoned(s)' PROVE s[1] = r
    BY <1>4 DEF RejectedInv
  <2>1. s[1] \in Revisions
    BY DEF Slots
  <2> QED BY <1>1, <1>2, <1>3, <2>1 DEF Abandoned, Running, worldVars
<1> QED BY <1>3, <1>5, <1>6, <1>7, <1>8 DEF RolloutInv, CapacityInv

LEMMA StartCleanupStep ==
  ASSUME RolloutInv, StartReject \/ CancelProvision
  PROVE  RolloutInv'
<1>1. /\ operation.kind \in {"provision", "reject", "promote"} /\ UNCHANGED <<storeVars, worldVars>>
      /\ operation' \in {Cleanup(operation.rev), [Cleanup(operation.rev) EXCEPT !.undo = TRUE]}
  BY DEF StartReject, CancelProvision
<1> QED BY <1>1, CleanupStarts

\* The deletion of one replica that the attempt has listed.
LEMMA DeleteStep ==
  ASSUME RolloutInv, operation.pc \in {"clean", "retire"},
         \E s \in operation.seen : DeleteReplica(s),
         UNCHANGED <<revision, past, deployment, verdict, monitor, autoRollback, routerGeneration,
                     inFlight, usage>>
  PROVE  RolloutInv'
<1>1. operation \in HandlerStates /\ operation.seen \subseteq Slots
  BY DEF RolloutInv, RolloutTypeOK, HandlerStates
<1>2. PICK s \in Slots, state \in {"none", "stopping"} :
        /\ instance' = [instance EXCEPT ![s] = state]
        /\ IF state = "none"
           THEN /\ replica' = [replica EXCEPT ![s] = "deleted"]
                /\ target' = target \ ({s} \ deployment.targets)
                /\ operation' = [operation EXCEPT !.seen = @ \ {s}]
           ELSE /\ operation' = IF operation.cancel /\ ~operation.undo THEN Returned ELSE Retried
                /\ UNCHANGED <<replica, target>>
  BY <1>1 DEF DeleteReplica, Stopping
<1>3. /\ instance' \in [Slots -> {"none", "booting", "up", "failed", "stopping"}] /\ ~Running(s)'
      /\ \A t \in Slots : t # s => instance'[t] = instance[t]
  BY <1>2 DEF RolloutInv, RolloutTypeOK, Running
<1>4. /\ \A t \in Slots : Running(t)' => Running(t) /\ t # s
      /\ \A t \in Slots : Abandoned(t)' => Abandoned(t)
  BY <1>3 DEF Running, Abandoned
<1>5. OneActiveRevision' /\ HistoryInv' /\ MonitorInv'
  BY RevisionsKept DEF RolloutInv, MonitorInv, Monitored
<1>6. CASE state = "none"
  <2> DEFINE rest == operation.seen \ {s}
  <2>1. operation' = [operation EXCEPT !.seen = rest] /\ rest \in SUBSET Slots
    BY <1>1, <1>2, <1>6
  <2>2. \A t \in Slots : t \in operation.seen /\ t # s => t \in rest
    OBVIOUS
  <2> HIDE DEF rest
  <2>3. /\ operation' \in HandlerStates /\ operation'.pc = operation.pc /\ operation'.kind = operation.kind
        /\ operation'.rev = operation.rev /\ operation'.seen = rest
    BY <1>1, <2>1 DEF HandlerStates
  <2>4. /\ replica' \in [Slots -> Lifecycles]
        /\ \A t \in Slots : t # s => replica'[t] = replica[t]
    BY <1>2, <1>6 DEF RolloutInv, RolloutTypeOK, Lifecycles
  <2>5. target' \subseteq Slots
    BY <1>2, <1>6 DEF RolloutInv, RolloutTypeOK
  <2>6. RolloutTypeOK'
    BY <1>3, <2>3, <2>4, <2>5 DEF RolloutInv, RolloutTypeOK
  <2>7. HandlerInv' /\ LaunchInv'
    BY <2>3 DEF RolloutInv, HandlerInv, LaunchInv
  <2>8. RowsInv'
    BY <1>4, <2>4 DEF RolloutInv, CapacityInv, RowsInv, LiveReplica
  <2>9. CleanupInv' /\ RejectedInv'
    <3>1. \A r : SlotsOf(r) \subseteq Slots
      BY DEF SlotsOf
    <3> QED BY <1>4, <2>2, <2>3, <3>1 DEF RolloutInv, CapacityInv, CleanupInv, RejectedInv
  <2> QED BY <1>5, <2>6, <2>7, <2>8, <2>9 DEF RolloutInv, CapacityInv
<1>7. CASE state = "stopping"
  <2>1. operation' \in {NoOperation, Retried} /\ UNCHANGED <<replica, target>>
    BY <1>1, <1>2, <1>7, Outcomes
  <2>2. /\ operation' \in HandlerStates /\ HandlerInv' /\ LaunchInv' /\ CleanupInv'
        /\ operation'.pc = "start"
        /\ operation' = Retried => operation'.kind = operation.kind /\ operation'.rev = operation.rev
    BY <2>1, OutcomeHandled
  <2>3. RolloutTypeOK'
    BY <1>3, <2>1, <2>2 DEF RolloutInv, RolloutTypeOK
  <2>4. RowsInv'
    BY <1>4, <2>1 DEF RolloutInv, CapacityInv, RowsInv, LiveReplica
  <2>5. RejectedInv'
    <3> SUFFICES ASSUME NEW t \in Slots, Abandoned(t)'
                 PROVE  /\ operation'.kind = "provision" /\ operation'.rev = t[1]
                        /\ operation'.pc \in {"start", "clean"}
      BY DEF RejectedInv
    <3>1. operation.kind = "provision" /\ operation.rev = t[1]
      BY <1>4 DEF RolloutInv, CapacityInv, RejectedInv
    <3>2. operation' = Retried
      BY <1>1, <1>2, <1>7, <3>1, Outcomes
    <3> QED BY <2>2, <3>1, <3>2
  <2> QED BY <1>5, <2>2, <2>3, <2>4, <2>5 DEF RolloutInv, CapacityInv
<1> QED BY <1>6, <1>7

LEMMA CleanOrRetireStep ==
  ASSUME RolloutInv, CleanReplica \/ RetireReplica
  PROVE  RolloutInv'
  BY DeleteStep DEF CleanReplica, RetireReplica

LEMMA FinishCleanupStep ==
  ASSUME RolloutInv, FinishCleanup
  PROVE  RolloutInv'
<1>0. PICK r : r = operation.rev
  OBVIOUS
<1>1. /\ operation.pc = "clean" /\ operation.seen = {} /\ operation \in HandlerStates
      /\ operation' = Returned /\ UNCHANGED <<past, replica, target, verdict, monitor, worldVars>>
      /\ RejectCandidateRevision(r) \/ UNCHANGED <<revision, deployment>>
      /\ operation.kind \notin {"none", "create", "rollback"} /\ r \in Revisions
  BY <1>0 DEF FinishCleanup, RolloutInv, RolloutTypeOK, HandlerInv
<1>2. \A s \in Slots : s[1] = r => ~Running(s)
  BY <1>0, <1>1 DEF RolloutInv, CapacityInv, CleanupInv, SlotsOf
<1>3. \A s \in Slots : ~Abandoned(s)
  BY <1>0, <1>2 DEF RolloutInv, CapacityInv, RejectedInv, Abandoned
<1>4. /\ revision' \in [Revisions -> RevisionStatuses]
      /\ deployment' \in [active: Revisions, candidate: 0..MaxRevision, targets: SUBSET Slots]
      /\ OneActiveRevision' /\ HistoryInv'
      /\ \A q \in Revisions : /\ revision[q] # "absent" => revision'[q] # "absent"
                              /\ q # r => revision'[q] = revision[q]
  BY <1>1, RejectsOrNot
<1>5. operation' \in HandlerStates /\ HandlerInv' /\ LaunchInv' /\ CleanupInv'
  <2>1. operation' \in {NoOperation, Retried}
    BY <1>1, Outcomes
  <2> QED BY <1>4, <2>1, OutcomeHandled
<1>6. RolloutTypeOK'
  BY <1>1, <1>4, <1>5 DEF RolloutInv, RolloutTypeOK, worldVars
<1>7. MonitorInv' /\ RowsInv'
  BY <1>1 DEF RolloutInv, CapacityInv, MonitorInv, Monitored, RowsInv, Running, LiveReplica, worldVars
<1>8. RejectedInv'
  <2>1. \A s \in Slots : s[1] \in Revisions
    BY DEF Slots
  <2>2. \A s \in Slots : ~Abandoned(s)'
    BY <1>1, <1>2, <1>3, <1>4, <2>1 DEF Abandoned, Running, worldVars
  <2> QED BY <2>2 DEF RejectedInv
<1> QED BY <1>4, <1>5, <1>6, <1>7, <1>8 DEF RolloutInv, CapacityInv

\* A promotion that starts, on its own or after a rollback by cancellation.
LEMMA PromotingHandled ==
  ASSUME RolloutInv, operation.kind \notin {"none", "create", "rollback"},
         operation' = Promoting(operation.rev), UNCHANGED revision,
         \A q \in Revisions : Monitored(q) => Monitored(q)'
  PROVE  operation' \in HandlerStates /\ HandlerInv' /\ LaunchInv' /\ CleanupInv'
<1>0. PICK r : r = operation.rev
  OBVIOUS
<1>1. /\ r \in Revisions /\ revision[r] # "absent" /\ RolloutTypeOK /\ operation \in HandlerStates
      /\ Monitored(r) => monitor[r].rollback \in Revisions
      /\ Monitored(r) => Monitored(r)'
  BY <1>0 DEF RolloutInv, RolloutTypeOK, HandlerInv, MonitorInv
<1>2. \/ operation' = NoOperation
      \/ /\ operation' \in HandlerStates
         /\ operation'.kind = operation.kind /\ operation'.rev = r
         /\ \/ operation'.pc = "commit" /\ operation'.keep = r
            \/ operation'.pc = "route" /\ Monitored(r)
  BY <1>0, <1>1, PromotingIs
<1>3. CASE operation' = NoOperation
  BY <1>3, OutcomeHandled
<1>4. CASE operation' # NoOperation
  BY <1>1, <1>2, <1>4 DEF HandlerInv, LaunchInv, CleanupInv, Monitored
<1> QED BY <1>3, <1>4

LEMMA PromotingStep ==
  ASSUME RolloutInv, operation.kind = "promote", operation' = Promoting(operation.rev),
         UNCHANGED <<storeVars, worldVars>>
  PROVE  RolloutInv'
<1>1. operation' \in HandlerStates /\ HandlerInv' /\ LaunchInv' /\ CleanupInv'
  BY PromotingHandled DEF Monitored, storeVars
<1> QED BY <1>1, NothingAbandoned, OperationStep

LEMMA StartPromoteStep ==
  ASSUME RolloutInv, StartPromote
  PROVE  RolloutInv'
  BY PromotingStep DEF StartPromote

LEMMA CancelPromoteStep ==
  ASSUME RolloutInv, CancelPromote
  PROVE  RolloutInv'
<1>0. PICK r : r = operation.rev
  OBVIOUS
<1>1. /\ operation.kind = "promote" /\ UNCHANGED <<storeVars, worldVars>> /\ operation \in HandlerStates
      /\ r \in Revisions /\ revision[r] # "absent"
  BY <1>0 DEF CancelPromote, RolloutInv, RolloutTypeOK, HandlerInv
<1> DEFINE fit == {s \in Slots : replica[s] \in {"ready", "active", "draining"}}
<1> DEFINE observing == deployment.active = r /\ monitor[r].status = "observing"
<1>2. CASE observing
  <2>0. PICK p : p = monitor[r].rollback
    OBVIOUS
  <2>1. operation' = [operation EXCEPT !.pc = "restore", !.undo = TRUE, !.prev = p, !.healthy = fit]
    BY <1>0, <1>2, <2>0 DEF CancelPromote
  <2>2. fit \in SUBSET Slots
    OBVIOUS
  <2>3. p \in Revisions /\ Monitored(r) /\ p \in 0..MaxRevision
    BY <1>1, <1>2, <2>0, RolloutConstants DEF RolloutInv, MonitorInv, Monitored, Revisions
  <2> HIDE DEF fit
  <2>4. /\ operation' \in HandlerStates /\ operation'.pc = "restore" /\ operation'.kind = "promote"
        /\ operation'.rev = r /\ operation'.prev = p
    BY <1>0, <1>1, <2>1, <2>2, <2>3 DEF HandlerStates, RolloutSteps
  <2>5. HandlerInv' /\ LaunchInv' /\ CleanupInv'
    BY <1>1, <2>3, <2>4 DEF HandlerInv, LaunchInv, CleanupInv, Monitored, storeVars
  <2>6. \A s \in Slots : ~Abandoned(s)
    BY <1>1, NothingAbandoned
  <2> QED BY <1>1, <2>4, <2>5, <2>6, OperationStep
<1>3. CASE ~observing /\ (deployment.active = r \/ Recovering(r))
  <2>1. operation' = Promoting(operation.rev)
    BY <1>0, <1>3 DEF CancelPromote
  <2> QED BY <1>1, <2>1, PromotingStep
<1>4. CASE ~observing /\ ~(deployment.active = r \/ Recovering(r))
  <2>1. operation' = [Cleanup(operation.rev) EXCEPT !.undo = TRUE]
    BY <1>0, <1>4 DEF CancelPromote
  <2> QED BY <1>1, <2>1, CleanupStarts
<1> QED BY <1>2, <1>3, <1>4

\* Another revision becomes active while a handler runs that has nothing to clean up.
LEMMA ActivationStep ==
  ASSUME RolloutInv, NEW r \in Revisions, r # deployment.active, revision[r] # "absent",
         revision' = [revision EXCEPT ![deployment.active] = "superseded", ![r] = "active"],
         past' = Without(Append(past, deployment.active), r),
         deployment' \in [active: Revisions, candidate: 0..MaxRevision, targets: SUBSET Slots],
         deployment'.active = r, deployment'.candidate = 0,
         replica' \in [Slots -> Lifecycles],
         \A s \in Slots : LiveReplica(s) => LiveReplica(s)',
         UNCHANGED <<target, verdict, monitor, worldVars>>,
         \A s \in Slots : ~Abandoned(s),
         operation' \in HandlerStates, HandlerInv', LaunchInv', CleanupInv'
  PROVE  RolloutInv'
<1>1. /\ revision' \in [Revisions -> RevisionStatuses] /\ past' \in Seq(Revisions)
      /\ OneActiveRevision' /\ HistoryInv'
      /\ \A q \in Revisions : revision'[q] = "rejected" => revision[q] = "rejected"
  BY ActivationIs
<1>2. RolloutTypeOK'
  BY <1>1 DEF RolloutInv, RolloutTypeOK, worldVars
<1>3. MonitorInv'
  BY DEF RolloutInv, MonitorInv, Monitored
<1>4. RowsInv'
  BY DEF RolloutInv, CapacityInv, RowsInv, Running, worldVars
<1>5. RejectedInv'
  <2>1. \A s \in Slots : s[1] \in Revisions
    BY DEF Slots
  <2>2. \A s \in Slots : ~Abandoned(s)'
    BY <1>1, <2>1 DEF Abandoned, Running, worldVars
  <2> QED BY <2>2 DEF RejectedInv
<1> QED BY <1>1, <1>2, <1>3, <1>4, <1>5 DEF RolloutInv, CapacityInv

LEMMA PromoteStep ==
  ASSUME RolloutInv, PromoteGuardedCandidate
  PROVE  RolloutInv'
<1>0. PICK r : r = operation.rev
  OBVIOUS
<1>1. /\ operation.pc = "commit" /\ operation \in HandlerStates /\ operation.names \subseteq Slots
      /\ operation.kind \notin {"none", "create", "rollback"} /\ r \in Revisions /\ revision[r] # "absent"
      /\ operation.keep = r
      /\ UNCHANGED <<target, verdict, monitor, worldVars>>
  BY <1>0 DEF PromoteGuardedCandidate, RolloutInv, RolloutTypeOK, HandlerInv, HandlerStates
<1>2. \A s \in Slots : ~Abandoned(s)
  BY <1>1, NothingAbandoned
<1>3. /\ AtStep("route") \in HandlerStates /\ AtStep("route").pc = "route"
      /\ AtStep("route").kind = operation.kind /\ AtStep("route").rev = r /\ AtStep("route").keep = r
  BY <1>0, <1>1, GoesToStep DEF RolloutSteps
<1>4. ASSUME UNCHANGED <<revision, past, deployment, replica>>, operation' = AtStep("route")
      PROVE  RolloutInv'
  <2>1. UNCHANGED <<storeVars, worldVars>>
    BY <1>1, <1>4 DEF storeVars
  <2>2. HandlerInv' /\ LaunchInv' /\ CleanupInv'
    BY <1>1, <1>3, <1>4 DEF HandlerInv, LaunchInv, CleanupInv
  <2> QED BY <1>2, <1>3, <1>4, <2>1, <2>2, OperationStep
<1>5. ASSUME UNCHANGED <<revision, past, deployment, replica>>, operation' = Returned
      PROVE  RolloutInv'
  <2>1. UNCHANGED <<storeVars, worldVars>>
    BY <1>1, <1>5 DEF storeVars
  <2> QED BY <1>2, <1>5, <2>1, ReturnStep
<1>6. ASSUME CandidateStands(r, operation.names),
             revision' = [revision EXCEPT ![deployment.active] = "superseded", ![r] = "active"],
             past' = Superseded(deployment.active),
             deployment' = [active |-> r, candidate |-> 0, targets |-> operation.names],
             replica' = [s \in Slots |-> CASE replica[s] \in {"none", "deleted"} -> replica[s]
                                           [] s[1] = r /\ LiveReplica(s) -> "active"
                                           [] s[1] # r /\ replica[s] = "active" -> "draining"
                                           [] OTHER -> replica[s]],
             operation' = AtStep("route")
      PROVE  RolloutInv'
  <2>1. revision[r] = "candidate" /\ r # deployment.active
    BY <1>1, <1>6 DEF CandidateStands, RolloutInv, OneActiveRevision
  <2>2. past' = Without(Append(past, deployment.active), r)
    <3> DEFINE longer == Append(past, deployment.active)
    <3>1. /\ deployment.active \in Revisions /\ past \in Seq(Revisions) /\ Once(past)
          /\ ~In(past, deployment.active) /\ ~In(past, r)
      BY <1>1, <2>1 DEF RolloutInv, RolloutTypeOK, OneActiveRevision, HistoryInv, In
    <3>2. ~In(longer, r)
      BY <2>1, <3>1, AppendIs
    <3>3. past' = longer
      BY <1>6 DEF Superseded
    <3> HIDE DEF longer
    <3>4. Without(longer, r) = longer
      BY <3>2 DEF Without, In
    <3> QED BY <3>3, <3>4 DEF longer
  <2>3. deployment' \in [active: Revisions, candidate: 0..MaxRevision, targets: SUBSET Slots]
    BY <1>1, <1>6, RolloutConstants
  <2>4. /\ replica' \in [Slots -> Lifecycles]
        /\ \A s \in Slots : LiveReplica(s) => LiveReplica(s)'
    <3>1. replica \in [Slots -> Lifecycles] /\ DOMAIN replica' = Slots
      BY <1>6 DEF RolloutInv, RolloutTypeOK
    <3>2. ASSUME NEW s \in Slots
          PROVE  replica'[s] \in {replica[s], "active", "draining"}
      BY <1>6, <3>2 DEF LiveReplica
    <3>3. ASSUME NEW s \in Slots
          PROVE  replica'[s] \in Lifecycles /\ (LiveReplica(s) => LiveReplica(s)')
      BY <3>1, <3>2, <3>3 DEF Lifecycles, LiveReplica
    <3>4. replica' = [s \in Slots |-> replica'[s]]
      BY <1>6
    <3> QED BY <3>3, <3>4
  <2>5. HandlerInv' /\ LaunchInv' /\ CleanupInv'
    <3>1. revision'[r] = "active"
      BY <1>1, <1>6 DEF RolloutInv, RolloutTypeOK
    <3> QED BY <1>1, <1>3, <1>6, <3>1 DEF HandlerInv, LaunchInv, CleanupInv
  <2>6. deployment'.active = r /\ deployment'.candidate = 0
    BY <1>6
  <2> QED BY <1>1, <1>2, <1>3, <1>6, <2>1, <2>2, <2>3, <2>4, <2>5, <2>6, ActivationStep
<1> QED BY <1>0, <1>4, <1>5, <1>6 DEF PromoteGuardedCandidate

\* A step of the Release Guard's monitor, taken by a handler that has nothing to clean up.
LEMMA MonitorStep ==
  ASSUME RolloutInv, UNCHANGED <<revision, past, deployment, replica, target, worldVars>>,
         verdict' \in [Revisions -> Evaluations], monitor' \in [Revisions -> Monitors], MonitorInv',
         \A s \in Slots : ~Abandoned(s),
         operation' \in HandlerStates, HandlerInv', LaunchInv', CleanupInv'
  PROVE  RolloutInv'
<1>1. RolloutTypeOK'
  BY DEF RolloutInv, RolloutTypeOK, worldVars
<1>2. OneActiveRevision' /\ HistoryInv'
  BY RevisionsKept
<1>3. RowsInv'
  BY DEF RolloutInv, CapacityInv, RowsInv, Running, LiveReplica, worldVars
<1>4. RejectedInv'
  BY DEF RejectedInv, Abandoned, Running, worldVars
<1> QED BY <1>1, <1>2, <1>3, <1>4 DEF RolloutInv, CapacityInv

\* The status of a monitor that exists changes.
LEMMA StatusIs ==
  ASSUME RolloutInv, NEW r \in Revisions, Monitored(r),
         monitor' = [monitor EXCEPT ![r].status = "rolled_back"]
  PROVE  /\ monitor' \in [Revisions -> Monitors] /\ MonitorInv'
         /\ \A q \in Revisions : Monitored(q) => Monitored(q)'
<1>1. monitor \in [Revisions -> Monitors]
  BY DEF RolloutInv, RolloutTypeOK
<1>2. monitor' \in [Revisions -> Monitors]
  BY <1>1 DEF Monitors
<1>3. /\ monitor'[r].rollback = monitor[r].rollback /\ monitor'[r].status = "rolled_back"
      /\ \A q \in Revisions : q # r => monitor'[q] = monitor[q]
  BY <1>1 DEF Monitors
<1>4. MonitorInv'
  BY <1>3 DEF RolloutInv, MonitorInv, Monitored
<1>5. \A q \in Revisions : Monitored(q) => Monitored(q)'
  BY <1>3 DEF Monitored
<1> QED BY <1>2, <1>4, <1>5

LEMMA CheckRouteStep ==
  ASSUME RolloutInv, CheckRoute
  PROVE  RolloutInv'
<1>0. PICK r : r = operation.rev
  OBVIOUS
<1>1. /\ operation.pc = "route" /\ operation \in HandlerStates /\ r \in Revisions
      /\ operation.kind \notin {"none", "create", "rollback"} /\ revision[r] # "absent"
      /\ operation.keep # r => Monitored(r)
      /\ UNCHANGED <<revision, past, deployment, replica, target, verdict, worldVars>>
  BY <1>0 DEF CheckRoute, RolloutInv, RolloutTypeOK, HandlerInv
<1>2. \A s \in Slots : ~Abandoned(s)
  BY <1>1, NothingAbandoned
<1>3. ASSUME operation' = Wait, UNCHANGED monitor
      PROVE  RolloutInv'
  <2>1. UNCHANGED <<storeVars, worldVars>>
    BY <1>1, <1>3 DEF storeVars
  <2> QED BY <1>2, <1>3, <2>1, ReturnStep
<1>4. ASSUME operation.keep # r, monitor' = [monitor EXCEPT ![r].status = "rolled_back"],
             operation' = AtStep("drain")
      PROVE  RolloutInv'
  <2>1. monitor' \in [Revisions -> Monitors] /\ MonitorInv'
    BY <1>1, <1>4, StatusIs
  <2>2. /\ operation' \in HandlerStates /\ operation'.pc = "drain"
        /\ operation'.kind = operation.kind /\ operation'.rev = r
    BY <1>0, <1>1, <1>4, GoesToStep DEF RolloutSteps
  <2>3. HandlerInv' /\ LaunchInv' /\ CleanupInv'
    BY <1>1, <2>2 DEF HandlerInv, LaunchInv, CleanupInv
  <2>4. verdict' \in [Revisions -> Evaluations]
    BY <1>1 DEF RolloutInv, RolloutTypeOK
  <2> QED BY <1>1, <1>2, <2>1, <2>2, <2>3, <2>4, MonitorStep
<1>5. ASSUME NEW step \in {"observe", "drain"}, operation' = AtStep(step), UNCHANGED monitor
      PROVE  RolloutInv'
  <2>1. UNCHANGED <<storeVars, worldVars>>
    BY <1>1, <1>5 DEF storeVars
  <2>2. operation' \in HandlerStates /\ HandlerInv' /\ LaunchInv' /\ CleanupInv'
    BY <1>1, <1>5, GoOn DEF RolloutSteps
  <2> QED BY <1>2, <2>1, <2>2, OperationStep
<1> QED BY <1>0, <1>3, <1>4, <1>5 DEF CheckRoute

\* What a rollback would restore is a revision, unless there is none.
LEMMA PreviousIs ==
  ASSUME RolloutInv, NEW r \in Revisions
  PROVE  Previous(r) = 0 \/ Previous(r) \in Revisions
<1>1. CASE Monitored(r)
  BY <1>1 DEF Previous, RolloutInv, MonitorInv
<1>2. CASE ~Monitored(r) /\ operation.prev # r
  <2>1. Previous(r) = operation.prev
    BY <1>2 DEF Previous
  <2>2. operation.prev \in 0..MaxRevision
    BY DEF RolloutInv, RolloutTypeOK, HandlerStates
  <2> QED BY <2>1, <2>2, RolloutConstants DEF Revisions
<1>3. CASE ~Monitored(r) /\ operation.prev = r
  <2> DEFINE others == Without(past, r)
  <2>1. Previous(r) = IF others = <<>> THEN 0 ELSE others[Len(others)]
    BY <1>3 DEF Previous
  <2>2. others \in Seq(Revisions)
    BY WithoutIs DEF RolloutInv, RolloutTypeOK, HistoryInv
  <2> HIDE DEF others
  <2>3. others # <<>> => others[Len(others)] \in Revisions
    BY <2>2
  <2> QED BY <2>1, <2>3
<1> QED BY <1>1, <1>2, <1>3

LEMMA ObservePromotionStep ==
  ASSUME RolloutInv, ObservePromotion
  PROVE  RolloutInv'
<1>0. PICK r, p : r = operation.rev /\ p = Previous(r)
  OBVIOUS
<1>1. /\ operation.pc = "observe" /\ operation \in HandlerStates /\ r \in Revisions
      /\ operation.kind \notin {"none", "create", "rollback"} /\ revision[r] # "absent"
      /\ monitor \in [Revisions -> Monitors] /\ verdict \in [Revisions -> Evaluations]
      /\ UNCHANGED <<revision, past, deployment, replica, target, worldVars>>
  BY <1>0 DEF ObservePromotion, RolloutInv, RolloutTypeOK, HandlerInv
<1>2. \A s \in Slots : ~Abandoned(s)
  BY <1>1, NothingAbandoned
<1>3. ASSUME operation' \in {Wait, Returned}, UNCHANGED <<monitor, verdict>>
      PROVE  RolloutInv'
  <2>1. UNCHANGED <<storeVars, worldVars>>
    BY <1>1, <1>3 DEF storeVars
  <2> QED BY <1>2, <1>3, <2>1, ReturnStep
<1>4. ASSUME p # 0, NEW d \in {"ACCEPT", "WAIT", "REJECT"}, NEW status \in {"accepted", "failed", "observing"},
             verdict' = [verdict EXCEPT ![r] = [decision |-> d, active |-> p]],
             monitor' = [monitor EXCEPT ![r] = [@ EXCEPT !.rollback = p, !.status = status]],
             operation' \in {[AtStep("drain") EXCEPT !.prev = p], [AtStep("restore") EXCEPT !.prev = p], Wait}
      PROVE  RolloutInv'
  <2>1. p \in Revisions /\ p \in 0..MaxRevision
    BY <1>0, <1>1, <1>4, PreviousIs, RolloutConstants DEF Revisions
  <2>2. verdict' \in [Revisions -> Evaluations]
    <3>1. [decision |-> d, active |-> p] \in Evaluations
      BY <2>1 DEF Evaluations
    <3> QED BY <1>1, <1>4, <3>1
  <2>3. /\ monitor' \in [Revisions -> Monitors] /\ monitor'[r].rollback = p /\ monitor'[r].status = status
        /\ \A q \in Revisions : q # r => monitor'[q] = monitor[q]
    BY <1>1, <1>4, <2>1 DEF Monitors
  <2>4. MonitorInv' /\ Monitored(r)'
    BY <2>1, <2>3 DEF RolloutInv, MonitorInv, Monitored
  <2>5. operation' \in HandlerStates /\ HandlerInv' /\ LaunchInv' /\ CleanupInv'
    <3>1. CASE operation' = Wait
      <4>1. operation' \in {NoOperation, Retried}
        BY <1>1, <3>1, Outcomes
      <4> QED BY <1>1, <4>1, OutcomeHandled
    <3>2. ASSUME NEW step \in {"drain", "restore"}, operation' = [AtStep(step) EXCEPT !.prev = p]
          PROVE  operation' \in HandlerStates /\ HandlerInv' /\ LaunchInv' /\ CleanupInv'
      <4>1. /\ AtStep(step) \in HandlerStates /\ AtStep(step).pc = step
            /\ AtStep(step).kind = operation.kind /\ AtStep(step).rev = r
        BY <1>0, <1>1, GoesToStep DEF RolloutSteps
      <4>2. /\ operation' \in HandlerStates /\ operation'.pc = step /\ operation'.prev = p
            /\ operation'.kind = operation.kind /\ operation'.rev = r
        BY <2>1, <3>2, <4>1 DEF HandlerStates
      <4> QED BY <1>1, <2>1, <2>4, <4>2 DEF HandlerInv, LaunchInv, CleanupInv, Monitored
    <3> QED BY <1>4, <3>1, <3>2
  <2> QED BY <1>1, <1>2, <2>2, <2>3, <2>4, <2>5, MonitorStep
<1>5. CASE p = 0 \/ deployment.active # r
  BY <1>0, <1>3, <1>5 DEF ObservePromotion
<1>6. CASE p # 0 /\ deployment.active = r
  <2>1. PICK v \in Verdicts(r) :
             LET d == Decided(r, v) IN
             /\ verdict' = [verdict EXCEPT ![r] = [decision |-> d, active |-> p]]
             /\ monitor' = [monitor EXCEPT ![r] = [@ EXCEPT !.rollback = p,
                   !.status = CASE d = "ACCEPT" -> "accepted" [] d = "REJECT" -> "failed" [] OTHER -> "observing"]]
             /\ operation' = CASE d = "ACCEPT" -> [AtStep("drain") EXCEPT !.prev = p]
                               [] d = "REJECT" -> [AtStep("restore") EXCEPT !.prev = p]
                               [] OTHER -> Wait
    BY <1>0, <1>6 DEF ObservePromotion
  <2>2. PICK d : d = Decided(r, v)
    OBVIOUS
  <2>3. d \in {"ACCEPT", "WAIT", "REJECT"}
    BY <2>1, <2>2, VerdictsAre DEF Decided
  <2>4. CASE d = "ACCEPT"
    <3>1. /\ verdict' = [verdict EXCEPT ![r] = [decision |-> d, active |-> p]]
          /\ monitor' = [monitor EXCEPT ![r] = [@ EXCEPT !.rollback = p, !.status = "accepted"]]
          /\ operation' = [AtStep("drain") EXCEPT !.prev = p]
      BY <2>1, <2>2, <2>4
    <3> QED BY <1>4, <1>6, <2>3, <3>1
  <2>5. CASE d = "REJECT"
    <3>1. /\ verdict' = [verdict EXCEPT ![r] = [decision |-> d, active |-> p]]
          /\ monitor' = [monitor EXCEPT ![r] = [@ EXCEPT !.rollback = p, !.status = "failed"]]
          /\ operation' = [AtStep("restore") EXCEPT !.prev = p]
      BY <2>1, <2>2, <2>5
    <3> QED BY <1>4, <1>6, <2>3, <3>1
  <2>6. CASE d = "WAIT"
    <3>1. /\ verdict' = [verdict EXCEPT ![r] = [decision |-> d, active |-> p]]
          /\ monitor' = [monitor EXCEPT ![r] = [@ EXCEPT !.rollback = p, !.status = "observing"]]
          /\ operation' = Wait
      BY <2>1, <2>2, <2>6
    <3> QED BY <1>4, <1>6, <2>3, <3>1
  <2> QED BY <2>3, <2>4, <2>5, <2>6
<1> QED BY <1>5, <1>6

LEMMA RollbackPromotionStep ==
  ASSUME RolloutInv, RollbackGuardedPromotion
  PROVE  RolloutInv'
<1>0. PICK r, p : r = operation.rev /\ p = operation.prev
  OBVIOUS
<1>1. /\ operation.pc = "restore" /\ operation \in HandlerStates /\ r \in Revisions /\ p \in Revisions
      /\ operation.kind \notin {"none", "create", "rollback"} /\ revision[r] # "absent"
      /\ Monitored(r) /\ operation.healthy \subseteq Slots
      /\ UNCHANGED <<target, verdict, monitor, worldVars>>
  BY <1>0 DEF RollbackGuardedPromotion, RolloutInv, RolloutTypeOK, HandlerInv, HandlerStates
<1>2. \A s \in Slots : ~Abandoned(s)
  BY <1>1, NothingAbandoned
<1>3. /\ AtStep("restored") \in HandlerStates /\ AtStep("restored").pc = "restored"
      /\ AtStep("restored").kind = operation.kind /\ AtStep("restored").rev = r
      /\ AtStep("restored").prev = p
  BY <1>0, <1>1, GoesToStep DEF RolloutSteps
<1>4. ASSUME operation' = AtStep("restored"), revision'[r] # "absent"
      PROVE  operation' \in HandlerStates /\ HandlerInv' /\ LaunchInv' /\ CleanupInv'
  BY <1>1, <1>3, <1>4 DEF HandlerInv, LaunchInv, CleanupInv, Monitored
<1>5. ASSUME UNCHANGED <<revision, past, deployment, replica>>, operation' = AtStep("restored")
      PROVE  RolloutInv'
  <2>1. UNCHANGED <<storeVars, worldVars>>
    BY <1>1, <1>5 DEF storeVars
  <2> QED BY <1>1, <1>2, <1>4, <1>5, <2>1, OperationStep
<1>6. ASSUME UNCHANGED <<revision, past, deployment, replica>>, operation' = Returned
      PROVE  RolloutInv'
  <2>1. UNCHANGED <<storeVars, worldVars>>
    BY <1>1, <1>6 DEF storeVars
  <2> QED BY <1>2, <1>6, <2>1, ReturnStep
<1>7. ASSUME Restorable(r, Retained),
             revision' = [revision EXCEPT ![r] = "superseded", ![p] = "active"],
             past' = Without(Superseded(r), p),
             deployment' = [active |-> p, candidate |-> 0, targets |-> Retained],
             replica' = [s \in Slots |-> CASE s[1] = p /\ replica[s] # "none" -> "active"
                                           [] s[1] = r /\ LiveReplica(s) -> "draining"
                                           [] OTHER -> replica[s]],
             operation' = AtStep("restored")
      PROVE  RolloutInv'
  <2>1. r = deployment.active /\ revision[p] = "superseded" /\ p # r
    BY <1>0, <1>1, <1>7 DEF Restorable, RolloutInv, OneActiveRevision
  <2>2. past' = Without(Append(past, deployment.active), p)
    BY <1>7, <2>1 DEF Superseded
  <2>3. deployment' \in [active: Revisions, candidate: 0..MaxRevision, targets: SUBSET Slots]
    BY <1>1, <1>7, RolloutConstants DEF Retained
  <2>4. /\ replica' \in [Slots -> Lifecycles]
        /\ \A s \in Slots : LiveReplica(s) => LiveReplica(s)'
    <3>1. replica \in [Slots -> Lifecycles]
      BY DEF RolloutInv, RolloutTypeOK
    <3>2. ASSUME NEW s \in Slots
          PROVE  replica'[s] \in {replica[s], "active", "draining"}
      <4>1. CASE s[1] = p
        BY <1>7, <2>1, <4>1
      <4>2. CASE s[1] # p
        BY <1>7, <4>2
      <4> QED BY <4>1, <4>2
    <3>3. ASSUME NEW s \in Slots
          PROVE  replica'[s] \in Lifecycles /\ (LiveReplica(s) => LiveReplica(s)')
      BY <3>1, <3>2, <3>3 DEF Lifecycles, LiveReplica
    <3>4. replica' = [s \in Slots |-> replica'[s]]
      BY <1>7
    <3> QED BY <3>3, <3>4
  <2>5. revision'[r] # "absent"
    BY <1>1, <1>7, <2>1 DEF RolloutInv, RolloutTypeOK
  <2>6. /\ deployment'.active = p /\ deployment'.candidate = 0 /\ revision[p] # "absent"
        /\ revision' = [revision EXCEPT ![deployment.active] = "superseded", ![p] = "active"]
    BY <1>7, <2>1
  <2> QED BY <1>1, <1>2, <1>4, <1>7, <2>1, <2>2, <2>3, <2>4, <2>5, <2>6, ActivationStep
<1> QED BY <1>0, <1>5, <1>6, <1>7 DEF RollbackGuardedPromotion

LEMMA CheckRestoredStep ==
  ASSUME RolloutInv, CheckRestoredRoute
  PROVE  RolloutInv'
<1>0. PICK r : r = operation.rev
  OBVIOUS
<1>1. /\ operation.pc = "restored" /\ operation \in HandlerStates /\ r \in Revisions
      /\ operation.kind \notin {"none", "create", "rollback"} /\ revision[r] # "absent" /\ Monitored(r)
      /\ operation.prev \in Revisions /\ verdict \in [Revisions -> Evaluations]
      /\ UNCHANGED <<revision, past, deployment, replica, target, verdict, worldVars>>
  BY <1>0 DEF CheckRestoredRoute, RolloutInv, RolloutTypeOK, HandlerInv
<1>2. \A s \in Slots : ~Abandoned(s)
  BY <1>1, NothingAbandoned
<1>3. CASE operation' = Wait /\ UNCHANGED monitor
  <2>1. UNCHANGED <<storeVars, worldVars>>
    BY <1>1, <1>3 DEF storeVars
  <2> QED BY <1>2, <1>3, <2>1, ReturnStep
<1>4. CASE /\ monitor' = [monitor EXCEPT ![r].status = "rolled_back"]
           /\ operation' = IF operation.undo THEN Promoting(operation.rev)
                           ELSE [AtStep("drain") EXCEPT !.keep = operation.prev]
  <2>1. /\ monitor' \in [Revisions -> Monitors] /\ MonitorInv'
        /\ \A q \in Revisions : Monitored(q) => Monitored(q)'
    BY <1>1, <1>4, StatusIs
  <2>2. operation' \in HandlerStates /\ HandlerInv' /\ LaunchInv' /\ CleanupInv'
    <3>1. CASE operation.undo
      BY <1>1, <1>4, <2>1, <3>1, PromotingHandled
    <3>2. CASE ~operation.undo
      <4>1. /\ AtStep("drain") \in HandlerStates /\ AtStep("drain").pc = "drain"
            /\ AtStep("drain").kind = operation.kind /\ AtStep("drain").rev = r
        BY <1>0, <1>1, GoesToStep DEF RolloutSteps
      <4>2. PICK k : k = operation.prev
        OBVIOUS
      <4>3. k \in 0..MaxRevision
        BY <1>1, <4>2, RolloutConstants DEF Revisions
      <4>4. operation' = [AtStep("drain") EXCEPT !.keep = k]
        BY <1>4, <3>2, <4>2
      <4>5. /\ operation' \in HandlerStates /\ operation'.pc = "drain"
            /\ operation'.kind = operation.kind /\ operation'.rev = r
        BY <4>1, <4>3, <4>4 DEF HandlerStates
      <4> QED BY <1>1, <4>5 DEF HandlerInv, LaunchInv, CleanupInv
    <3> QED BY <3>1, <3>2
  <2> QED BY <1>1, <1>2, <2>1, <2>2, MonitorStep
<1> QED BY <1>0, <1>3, <1>4 DEF CheckRestoredRoute

LEMMA DrainStep ==
  ASSUME RolloutInv, CheckDrain \/ FinishPromote
  PROVE  RolloutInv'
<1>1. /\ operation.pc \in {"drain", "retire"} /\ operation \in HandlerStates
      /\ operation.kind \notin {"none", "create", "rollback"}
      /\ UNCHANGED <<storeVars, worldVars>>
  BY DEF CheckDrain, FinishPromote, RolloutInv, RolloutTypeOK, HandlerInv
<1>2. \A s \in Slots : ~Abandoned(s)
  BY <1>1, NothingAbandoned
<1>3. CASE operation' \in {Wait, Returned}
  BY <1>1, <1>2, <1>3, ReturnStep
<1>4. CASE operation' = [AtStep("retire") EXCEPT !.seen = {s \in @ : s[1] # operation.keep}]
  <2>1. /\ AtStep("retire") \in HandlerStates /\ AtStep("retire").pc = "retire"
        /\ AtStep("retire").kind = operation.kind /\ AtStep("retire").rev = operation.rev
    BY <1>1, GoesToStep DEF RolloutSteps
  <2>2. PICK rest : /\ rest = {s \in AtStep("retire").seen : s[1] # operation.keep}
    OBVIOUS
  <2>3. rest \in SUBSET Slots /\ operation' = [AtStep("retire") EXCEPT !.seen = rest]
    BY <1>4, <2>1, <2>2 DEF HandlerStates
  <2>4. /\ operation' \in HandlerStates /\ operation'.pc = "retire"
        /\ operation'.kind = operation.kind /\ operation'.rev = operation.rev
    BY <2>1, <2>3 DEF HandlerStates
  <2>5. HandlerInv' /\ LaunchInv' /\ CleanupInv'
    BY <1>1, <2>4 DEF RolloutInv, HandlerInv, LaunchInv, CleanupInv, storeVars
  <2> QED BY <1>1, <1>2, <2>4, <2>5, OperationStep
<1> QED BY <1>3, <1>4 DEF CheckDrain, FinishPromote

LEMMA RollbackRevisionStep ==
  ASSUME RolloutInv, RollbackRevision
  PROVE  RolloutInv'
<1>0. PICK r : r = operation.rev
  OBVIOUS
<1>1. /\ operation.kind = "rollback" /\ operation \in HandlerStates /\ r \in Revisions
      /\ revision[r] # "absent" /\ operation' = Returned
      /\ UNCHANGED <<replica, target, verdict, monitor, worldVars>>
  BY <1>0 DEF RollbackRevision, RolloutInv, RolloutTypeOK, HandlerInv
<1>2. \A s \in Slots : ~Abandoned(s)
  BY <1>1, NothingAbandoned
<1>3. CASE UNCHANGED <<revision, past, deployment>>
  <2>1. UNCHANGED <<storeVars, worldVars>>
    BY <1>1, <1>3 DEF storeVars
  <2> QED BY <1>1, <1>2, <2>1, ReturnStep
<1>4. CASE /\ r # deployment.active
           /\ revision' = [revision EXCEPT ![deployment.active] = "superseded", ![r] = "active"]
           /\ past' = Without(Superseded(deployment.active), r)
           /\ deployment' = [deployment EXCEPT !.active = r, !.candidate = 0]
  <2>1. past' = Without(Append(past, deployment.active), r)
    BY <1>4 DEF Superseded
  <2>2. /\ deployment' \in [active: Revisions, candidate: 0..MaxRevision, targets: SUBSET Slots]
        /\ deployment'.active = r /\ deployment'.candidate = 0
    <3>1. /\ deployment \in [active: Revisions, candidate: 0..MaxRevision, targets: SUBSET Slots]
          /\ 0 \in 0..MaxRevision
      BY RolloutConstants DEF RolloutInv, RolloutTypeOK
    <3> QED BY <1>1, <1>4, <3>1
  <2>3. \A q \in Revisions : revision[q] # "absent" => revision'[q] # "absent"
    BY <1>1, <1>4, <2>1, <2>2, ActivationIs
  <2>4. operation' \in {NoOperation, Retried}
    BY <1>1, Outcomes
  <2>5. operation' \in HandlerStates /\ HandlerInv' /\ LaunchInv' /\ CleanupInv'
    BY <2>3, <2>4, OutcomeHandled
  <2>6. replica' \in [Slots -> Lifecycles] /\ \A s \in Slots : LiveReplica(s) => LiveReplica(s)'
    BY <1>1 DEF RolloutInv, RolloutTypeOK, LiveReplica
  <2> QED BY <1>1, <1>2, <1>4, <2>1, <2>2, <2>5, <2>6, ActivationStep
<1> QED BY <1>0, <1>3, <1>4 DEF RollbackRevision

LEMMA RolloutBase == RolloutInit => RolloutInv
<1> SUFFICES ASSUME RolloutInit PROVE RolloutInv
  OBVIOUS
<1>1. PICK f \in FirstActives :
        /\ revision = [r \in Revisions |-> CASE r < f -> "superseded" [] r = f -> "active" [] OTHER -> "absent"]
        /\ past = [i \in 1..(f - 1) |-> i]
        /\ deployment = [active |-> f, candidate |-> 0, targets |-> SlotsOf(f)]
        /\ replica = [s \in Slots |-> CASE s[1] < f -> "deleted" [] s[1] = f -> "active" [] OTHER -> "none"]
        /\ target = SlotsOf(f)
        /\ verdict = [r \in Revisions |-> IF r \in 2..f THEN [decision |-> "ACCEPT", active |-> r - 1]
                                          ELSE [decision |-> "none", active |-> 0]]
        /\ monitor = [r \in Revisions |-> [status |-> "none", rollback |-> 0, late |-> FALSE]]
        /\ autoRollback \in BOOLEAN
        /\ instance = [s \in Slots |-> IF s[1] = f THEN "up" ELSE "none"]
        /\ routerGeneration = SlotsOf(f) /\ inFlight = FALSE /\ operation = NoOperation
        /\ usage = [operations |-> 0, faults |-> 0, exhausted |-> FALSE]
  BY DEF RolloutInit
<1>2. /\ f \in Revisions /\ MaxRevision \in Nat /\ Revisions \subseteq 0..MaxRevision /\ 0 \in 0..MaxRevision
      /\ 0 \in 0..MaxOperations /\ 0 \in 0..MaxRolloutFaults /\ \A r \in Revisions : r \in Nat
  BY RolloutConstants DEF Revisions
<1>3. NoOperation \in HandlerStates /\ NoOperation.kind = "none" /\ NoOperation.pc = "start"
  BY RolloutConstants DEF NoOperation, HandlerStates, RolloutSteps, RolloutKinds
<1>4. /\ [decision |-> "none", active |-> 0] \in Evaluations
      /\ [status |-> "none", rollback |-> 0, late |-> FALSE] \in Monitors
      /\ [operations |-> 0, faults |-> 0, exhausted |-> FALSE] \in Usages
  BY <1>2 DEF Evaluations, Monitors, Usages
<1>5. SlotsOf(f) \subseteq Slots /\ \A s \in Slots : s[1] \in Revisions
  BY DEF SlotsOf, Slots
<1>6. /\ revision \in [Revisions -> RevisionStatuses] /\ replica \in [Slots -> Lifecycles]
      /\ instance \in [Slots -> {"none", "booting", "up", "failed", "stopping"}]
  BY <1>1 DEF RevisionStatuses, Lifecycles
<1>7. /\ deployment \in [active: Revisions, candidate: 0..MaxRevision, targets: SUBSET Slots]
      /\ deployment.active = f /\ deployment.candidate = 0
  BY <1>1, <1>2, <1>5
<1>8. past \in Seq(Revisions) /\ DOMAIN past = 1..(f - 1) /\ \A i \in 1..(f - 1) : past[i] = i
  <2>1. PICK n : n = f - 1
    OBVIOUS
  <2>2. n \in Nat /\ \A i \in 1..n : i \in Revisions
    BY <1>2, <2>1 DEF Revisions
  <2>3. past = [i \in 1..n |-> i]
    BY <1>1, <2>1
  <2>4. past \in Seq(Revisions)
    <3>1. [i \in 1..n |-> i] \in Seq(Revisions)
      BY <2>2
    <3> QED BY <2>3, <3>1
  <2>5. DOMAIN past = 1..n /\ \A i \in 1..n : past[i] = i
    BY <2>3
  <2> QED BY <2>1, <2>4, <2>5
<1>9. verdict \in [Revisions -> Evaluations]
  <2>1. \A r \in Revisions : r \in 2..f => [decision |-> "ACCEPT", active |-> r - 1] \in Evaluations
    BY <1>2 DEF Evaluations, Revisions
  <2> QED BY <1>1, <1>4, <2>1
<1>10. RolloutTypeOK
  BY <1>1, <1>3, <1>4, <1>5, <1>6, <1>7, <1>8, <1>9 DEF RolloutTypeOK
<1>11. \A r \in Revisions : /\ revision[r] = "active" <=> r = f
                            /\ revision[r] = "superseded" <=> r \in 1..(f - 1)
                            /\ revision[r] # "absent" <=> r <= f
  BY <1>1, <1>2 DEF Revisions
<1>12. OneActiveRevision
  BY <1>7, <1>8, <1>11 DEF OneActiveRevision
<1>13. HistoryInv
  BY <1>2, <1>8, <1>11 DEF HistoryInv, Once
<1>14. HandlerInv /\ MonitorInv
  BY <1>1, <1>3 DEF HandlerInv, MonitorInv, Monitored
<1>15. CapacityInv
  <2>1. \A s \in Slots : Running(s) => s[1] = f
    BY <1>1 DEF Running
  <2>2. RowsInv
    BY <1>1, <1>2, <2>1 DEF RowsInv, LiveReplica
  <2>3. RejectedInv
    BY <1>5, <1>11, <2>1 DEF RejectedInv, Abandoned
  <2> QED BY <1>1, <1>3, <2>2, <2>3 DEF CapacityInv, LaunchInv, CleanupInv
<1> QED BY <1>10, <1>12, <1>13, <1>14, <1>15 DEF RolloutInv

LEMMA RolloutStep == RolloutInv /\ [RolloutNext]_rolloutVars => RolloutInv'
<1> SUFFICES ASSUME RolloutInv, [RolloutNext]_rolloutVars PROVE RolloutInv'
  OBVIOUS
<1>1. CASE HandlerStep
  BY <1>1, CreateCandidateStep, CancelWithoutHandlerStep, StartProvisionStep, EnsureIntentStep,
     EnsureReplicaStep, ObserveInstanceStep, MarkFailedStep, ProvisionFailsStep,
     FinishProvisionStep, RefuseStep, StartCleanupStep,
     CleanOrRetireStep, FinishCleanupStep, StartPromoteStep, CancelPromoteStep, PromoteStep,
     CheckRouteStep, ObservePromotionStep, RollbackPromotionStep, CheckRestoredStep, DrainStep,
     RollbackRevisionStep DEF HandlerStep
<1>2. CASE EnqueueRollout("create", 0)
  BY <1>2, EnqueueStep, RolloutConstants DEF RolloutKinds
<1>3. CASE \E kind \in RolloutKinds \ {"create"}, r \in Revisions : EnqueueRollout(kind, r)
  <2>1. Revisions \subseteq 0..MaxRevision
    BY RolloutConstants DEF Revisions
  <2> QED BY <1>3, <2>1, EnqueueStep
<1>4. CASE RequestCancel \/ WorkerCrashes \/ LastAttemptFails
  BY <1>4, RequestCancelStep, WorkerCrashesStep, LastAttemptStep
<1>5. CASE EvaluateReleaseGuard \/ SetReleaseGuardPolicy \/ PublishGeneration \/ RequestsEnd
  BY <1>5, GuardStep
<1>6. CASE \E r \in Revisions : DeadlinePasses(r)
  BY <1>6, DeadlineStep
<1>7. CASE \E s \in Slots : BootInstance(s) \/ StopInstance(s)
  BY <1>7, InstanceStep
<1>8. CASE UNCHANGED rolloutVars
  <2>1. /\ UNCHANGED <<revision, past, deployment, replica, operation, instance, monitor, usage>>
        /\ RolloutTypeOK'
    BY <1>8 DEF rolloutVars, RolloutInv, RolloutTypeOK
  <2> QED BY <2>1, WorldStep DEF Monitored, Running
<1> QED BY <1>1, <1>2, <1>3, <1>4, <1>5, <1>6, <1>7, <1>8 DEF RolloutNext

\* The invariant holds whatever crashes, cancellations, edits of the policy and
\* steps of the provider come between the calls of the handlers.
THEOREM RolloutInvariance == RolloutSpec => []RolloutInv
<1>1. RolloutSpec => RolloutInit /\ [][RolloutNext]_rolloutVars
  BY DEF RolloutSpec
<1> QED BY <1>1, RolloutBase, RolloutStep, PTL

\* Every row, operation and record of the handlers keeps its type
\* (store/revisions.go, store/release_monitor.go, workflows/cloud.go).
THEOREM RolloutTypes == RolloutSpec => []RolloutTypeOK
<1>1. RolloutInv => RolloutTypeOK
  BY DEF RolloutInv
<1> QED BY <1>1, RolloutInvariance, PTL

\* Exactly one revision is active, it is the deployment's, and the candidate and
\* the superseded revisions are what the deployment and the history say
\* (PromoteGuardedCandidate, RollbackGuardedPromotion, RollbackRevision).
THEOREM OneRevisionIsActive == RolloutSpec => []OneActiveRevision
<1>1. RolloutInv => OneActiveRevision
  BY DEF RolloutInv
<1> QED BY <1>1, RolloutInvariance, PTL

\* No instance is lost to the rows, and a rejected candidate has none left when
\* its operation is over (ensureCloudReplica, candidateCleanup).
THEOREM CapacityStaysTracked == RolloutSpec => []CapacityIsTracked
<1>1. RolloutInv => CapacityIsTracked
  <2> SUFFICES ASSUME RolloutInv, NEW s \in Slots, instance[s] \in {"booting", "up", "failed"}
               PROVE  /\ LiveReplica(s)
                      /\ ~(revision[s[1]] = "rejected" /\ operation.kind = "none" /\ ~usage.exhausted)
    BY DEF CapacityIsTracked
  <2> QED BY DEF RolloutInv, CapacityInv, RowsInv, RejectedInv, Abandoned, Running
<1> QED BY <1>1, RolloutInvariance, PTL

-----------------------------------------------------------------------------
(* Scaling.                                                                *)

(***************************************************************************)
(* The inductive invariant follows one attempt of the handler: what is     *)
(* before its position runs and has a live row, and what is beyond its     *)
(* goal and has a live row is among what it will delete.                   *)
(***************************************************************************)

\* An attempt pursues the goal of its operation.
AttemptInv ==
  /\ Unresolved => scaling.reached = 0
  /\ executor.at # "idle" =>
       /\ scaling.status = "running"
       /\ executor.goal = (IF executor.undo THEN scaling.previous ELSE scaling.desired)
       /\ executor.goal >= FewestReplicas
       /\ executor.undo => scaling.cancel
       /\ executor.next <= executor.goal

\* Where the attempt has come.
ProgressInv ==
  executor.at # "idle" =>
    /\ \A o \in Ordinals : o < executor.next => Exists(o) /\ HasLiveRow(o)
    /\ executor.at \in {"create", "observe", "bury"} =>
         executor.next < executor.goal /\ HasLiveRow(executor.next)
    /\ executor.at = "observe" => Exists(executor.next)
    /\ executor.at = "bury" => ~Exists(executor.next)
    /\ executor.at \in {"fence", "delete", "confirm"} =>
         /\ executor.next = executor.goal /\ targets = First(executor.goal)
         /\ \A o \in Ordinals : HasLiveRow(o) /\ o >= executor.goal => o \in executor.draining
         /\ \A o \in executor.draining : o >= executor.goal

\* FleetIsExact, ordinal by ordinal.
FleetInv ==
  /\ \A o \in Ordinals : Exists(o) => HasLiveRow(o)
  /\ scaling.reached > 0 =>
       /\ \A o \in Ordinals : (Exists(o) <=> o < scaling.reached) /\ (HasLiveRow(o) <=> o < scaling.reached)
       /\ targets = First(scaling.reached)

\* Without a fault nothing fails to start and the fewest replicas stay.
CalmInv ==
  scaleFaults = 0 =>
    /\ executor.at # "bury"
    /\ \A o \in Ordinals : machine[o] # "failed" /\ (o < FewestReplicas => HasLiveRow(o))
    /\ scaling.previous >= FewestReplicas

ScalingInv == ScalingTypeOK /\ AttemptInv /\ ProgressInv /\ FleetInv /\ CalmInv /\ FailsOnlyOnReuse

\* The ordinals below a number.
LEMMA FirstIs ==
  ASSUME NEW n \in 0 .. MostReplicas
  PROVE  /\ First(n) \subseteq Ordinals
         /\ \A o \in Ordinals : o \in First(n) <=> o < n
         /\ \A o \in Ordinals : o \in Int /\ 0 <= o /\ o < MostReplicas
  BY ScalingAssumption DEF First, Ordinals

\* At most as many ordinals as there are, and at least as many as are known.
LEMMA Counting ==
  ASSUME NEW S \in SUBSET Ordinals
  PROVE  /\ Cardinality(S) \in 0 .. MostReplicas
         /\ \A n \in 0 .. MostReplicas : First(n) \subseteq S => n <= Cardinality(S)
<1>1. IsFiniteSet(Ordinals) /\ Cardinality(Ordinals) = MostReplicas
  BY FS_Interval, ScalingAssumption DEF Ordinals
<1>2. IsFiniteSet(S) /\ Cardinality(S) <= MostReplicas /\ Cardinality(S) \in Nat
  BY <1>1, FS_Subset, FS_CardinalityType
<1>3. ASSUME NEW n \in 0 .. MostReplicas, First(n) \subseteq S
      PROVE  n <= Cardinality(S)
  <2>1. Cardinality(First(n)) = n
    BY FS_Interval, ScalingAssumption DEF First
  <2> QED BY <1>2, <1>3, <2>1, FS_Subset
<1> QED BY <1>2, <1>3, ScalingAssumption

\* The types of the fields.
LEMMA Fields ==
  ASSUME ScalingTypeOK
  PROVE  /\ executor.next \in 0 .. MostReplicas /\ executor.goal \in 0 .. MostReplicas
         /\ executor.draining \subseteq Ordinals /\ executor.undo \in BOOLEAN
         /\ scaling.desired \in FewestReplicas .. MostReplicas /\ scaling.desired \in 0 .. MostReplicas
         /\ scaling.previous \in 0 .. MostReplicas /\ scaling.reached \in 0 .. MostReplicas
         /\ scaling.cancel \in BOOLEAN
         /\ \A n \in 0 .. MostReplicas : n < MostReplicas => n \in Ordinals
<1>1. /\ executor.next \in 0 .. MostReplicas /\ executor.goal \in 0 .. MostReplicas
      /\ executor.draining \subseteq Ordinals /\ executor.undo \in BOOLEAN
  BY DEF ScalingTypeOK, Executors
<1>2. /\ scaling.desired \in FewestReplicas .. MostReplicas
      /\ scaling.previous \in 0 .. MostReplicas /\ scaling.reached \in 0 .. MostReplicas
      /\ scaling.cancel \in BOOLEAN
  BY DEF ScalingTypeOK, ScaleOperations
<1>3. \A n \in FewestReplicas .. MostReplicas : n \in 0 .. MostReplicas
  BY ScalingAssumption
<1>4. \A n \in 0 .. MostReplicas : n < MostReplicas => n \in Ordinals
  BY ScalingAssumption DEF Ordinals
<1> QED BY <1>1, <1>2, <1>3, <1>4

\* What an attempt leaves that rests.
LEMMA RestingIs == Resting \in Executors /\ Resting.at = "idle"
  BY ScalingAssumption DEF Resting, Executors

\* Deleted rows stay deleted, so a failed operation keeps its reason.
LEMMA ReuseKept ==
  ASSUME ScalingInv, UNCHANGED scaling, scaleFaults' = 0 => scaleFaults = 0,
         \A o \in Ordinals : replicaRow[o] = "deleted" => replicaRow'[o] = "deleted"
  PROVE  FailsOnlyOnReuse'
<1>1. Goal \in 0 .. MostReplicas /\ Goal' = Goal
  BY Fields DEF ScalingInv, Goal
<1>2. First(Goal) \subseteq Ordinals
  BY <1>1, FirstIs
<1> QED BY <1>1, <1>2 DEF ScalingInv, FailsOnlyOnReuse

\* Nothing that the invariant speaks of changes.
LEMMA ScalingQuiet ==
  ASSUME ScalingInv, ScalingTypeOK', UNCHANGED <<scaling, executor, replicaRow, machine, targets, scaleFaults>>
  PROVE  ScalingInv'
<1>1. AttemptInv' /\ ProgressInv'
  BY DEF ScalingInv, AttemptInv, ProgressInv, Unresolved, Exists, HasLiveRow
<1>2. FleetInv' /\ CalmInv'
  BY DEF ScalingInv, FleetInv, CalmInv, Exists, HasLiveRow
<1>3. FailsOnlyOnReuse'
  BY ReuseKept
<1> QED BY <1>1, <1>2, <1>3 DEF ScalingInv

LEMMA ReadStep ==
  ASSUME ScalingInv, NEW c \in Controllers, AutoscalingDeployments(c)
  PROVE  ScalingInv'
<1>1. Cardinality(targets) \in 0 .. MostReplicas
  BY Counting DEF ScalingInv, ScalingTypeOK
<1>2. UNCHANGED <<decisions, scaling, executor, fleetVars, routerVars, scaleFaults>>
  BY DEF AutoscalingDeployments
<1>3. seen' \in [Controllers -> 0 .. MostReplicas]
  BY <1>1 DEF AutoscalingDeployments, ScalingInv, ScalingTypeOK
<1>4. ScalingTypeOK'
  BY <1>2, <1>3 DEF ScalingInv, ScalingTypeOK, fleetVars, routerVars
<1> QED BY <1>2, <1>4, ScalingQuiet DEF fleetVars

LEMMA RouterStep ==
  ASSUME ScalingInv, InspectTargets \/ PublishWorkers
  PROVE  ScalingInv'
<1>1. UNCHANGED <<controlVars, scaling, executor, replicaRow, machine, targets, scaleFaults>>
  BY DEF InspectTargets, PublishWorkers, fleetVars
<1>2. /\ observed' \in {"pending", "healthy", "degraded"}
      /\ recorded' \subseteq Ordinals /\ inspected' \subseteq Ordinals
  BY DEF InspectTargets, PublishWorkers, fleetVars, ScalingInv, ScalingTypeOK
<1>3. ScalingTypeOK'
  BY <1>1, <1>2 DEF ScalingInv, ScalingTypeOK, controlVars
<1> QED BY <1>1, <1>3, ScalingQuiet

LEMMA ScaleToStep ==
  ASSUME ScalingInv, NEW c \in Controllers, ScaleTo(c)
  PROVE  ScalingInv'
<1> DEFINE live == {o \in Ordinals : HasLiveRow(o)}
<1>0. PICK k : k = Cardinality(live)
  OBVIOUS
<1>1. PICK n \in EvaluateWithSLO(seen[c]) :
        /\ ~Unresolved /\ decisions < MaxDecisions
        /\ scaling' = [status |-> "pending", desired |-> n, cancel |-> FALSE, reached |-> 0, previous |-> k]
  BY <1>0 DEF ScaleTo
<1>2. /\ decisions' = decisions + 1 /\ seen' = [seen EXCEPT ![c] = 0]
      /\ UNCHANGED <<executor, fleetVars, routerVars, scaleFaults>>
  BY DEF ScaleTo
<1>3. n \in FewestReplicas .. MostReplicas /\ 0 \in 0 .. MostReplicas
  BY <1>1, ScalingAssumption DEF EvaluateWithSLO
<1>4. /\ k \in 0 .. MostReplicas
      /\ scaleFaults = 0 => FewestReplicas <= k
  <2>1. live \in SUBSET Ordinals
    OBVIOUS
  <2>2. FewestReplicas \in 0 .. MostReplicas
    BY ScalingAssumption
  <2>3. scaleFaults = 0 => First(FewestReplicas) \subseteq live
    BY <2>2, FirstIs DEF ScalingInv, CalmInv
  <2> HIDE DEF live
  <2> QED BY <1>0, <2>1, <2>2, <2>3, Counting
<1>5. /\ scaling' \in ScaleOperations /\ scaling'.status = "pending" /\ scaling'.reached = 0
      /\ scaling'.previous = k
  BY <1>1, <1>3, <1>4 DEF ScaleOperations
<1>6. decisions' \in 0 .. MaxDecisions /\ seen' \in [Controllers -> 0 .. MostReplicas]
  BY <1>1, <1>2, <1>3, ScalingAssumption DEF ScalingInv, ScalingTypeOK
<1>7. ScalingTypeOK'
  BY <1>2, <1>5, <1>6 DEF ScalingInv, ScalingTypeOK, fleetVars, routerVars
<1>8. executor.at = "idle" /\ executor' = executor
  BY <1>1, <1>2 DEF ScalingInv, AttemptInv, Unresolved
<1>9. AttemptInv' /\ ProgressInv' /\ FailsOnlyOnReuse'
  BY <1>5, <1>8 DEF AttemptInv, ProgressInv, FailsOnlyOnReuse
<1>10. FleetInv' /\ CalmInv'
  BY <1>2, <1>4, <1>5, <1>8 DEF ScalingInv, FleetInv, CalmInv, Exists, HasLiveRow, fleetVars
<1> QED BY <1>7, <1>9, <1>10 DEF ScalingInv

LEMMA CancelScaleStep ==
  ASSUME ScalingInv, CancelScale
  PROVE  ScalingInv'
<1>1. /\ Unresolved /\ ~scaling.cancel /\ scaling \in ScaleOperations
      /\ UNCHANGED <<controlVars, executor, fleetVars, routerVars, scaleFaults>>
      /\ scaling.reached = 0
  BY DEF CancelScale, ScalingInv, ScalingTypeOK, AttemptInv
<1>2. /\ scaling' \in ScaleOperations /\ scaling'.desired = scaling.desired
      /\ scaling'.previous = scaling.previous /\ scaling'.reached = 0
      /\ \/ scaling.status = "pending" /\ scaling'.status = "cancelled"
         \/ scaling.status = "running" /\ scaling'.status = "running" /\ scaling'.cancel
  <2>1. CASE scaling.status = "pending"
    <3>1. scaling' = [scaling EXCEPT !.status = "cancelled"]
      BY <2>1 DEF CancelScale
    <3> QED BY <1>1, <2>1, <3>1 DEF ScaleOperations
  <2>2. CASE scaling.status = "running"
    <3>1. scaling' = [scaling EXCEPT !.cancel = TRUE]
      BY <2>2 DEF CancelScale
    <3> QED BY <1>1, <2>2, <3>1 DEF ScaleOperations
  <2> QED BY <1>1, <2>1, <2>2 DEF Unresolved
<1>3. ScalingTypeOK'
  BY <1>1, <1>2 DEF ScalingInv, ScalingTypeOK, controlVars, fleetVars, routerVars
<1>4. AttemptInv' /\ FailsOnlyOnReuse'
  BY <1>1, <1>2 DEF ScalingInv, AttemptInv, FailsOnlyOnReuse
<1>5. ProgressInv' /\ FleetInv' /\ CalmInv'
  BY <1>1, <1>2 DEF ScalingInv, ProgressInv, FleetInv, CalmInv, Exists, HasLiveRow, fleetVars
<1> QED BY <1>3, <1>4, <1>5 DEF ScalingInv

LEMMA BeginStep ==
  ASSUME ScalingInv, Begin
  PROVE  ScalingInv'
<1>0. PICK g : g = Goal
  OBVIOUS
<1>1. /\ Unresolved /\ scaling \in ScaleOperations /\ scaling.reached = 0
      /\ UNCHANGED <<controlVars, fleetVars, routerVars, scaleFaults>>
      /\ g \in 0 .. MostReplicas
      /\ g = (IF scaling.cancel THEN scaling.previous ELSE scaling.desired)
      /\ scaling.cancel \in BOOLEAN
  BY <1>0, Fields DEF Begin, ScalingInv, ScalingTypeOK, AttemptInv, Goal
<1>2. CASE ValidTarget(g)
  <2>1. /\ scaling' = [scaling EXCEPT !.status = "running"]
        /\ executor' = [at |-> "intent", next |-> 0, goal |-> g, draining |-> {}, undo |-> scaling.cancel]
    BY <1>0, <1>2 DEF Begin
  <2>2. /\ scaling' \in ScaleOperations /\ scaling'.status = "running" /\ scaling'.reached = 0
        /\ scaling'.desired = scaling.desired /\ scaling'.previous = scaling.previous
        /\ scaling'.cancel = scaling.cancel
    BY <1>1, <2>1 DEF ScaleOperations
  <2>3. executor' \in Executors
    BY <1>1, <2>1, ScalingAssumption DEF Executors
  <2>4. /\ executor'.at = "intent" /\ executor'.next = 0 /\ executor'.goal = g
        /\ executor'.undo = scaling.cancel
    BY <2>1
  <2>5. ScalingTypeOK'
    BY <1>1, <2>2, <2>3 DEF ScalingInv, ScalingTypeOK, controlVars, fleetVars, routerVars
  <2>6. g >= FewestReplicas /\ g >= 0
    BY <1>1, <1>2 DEF ValidTarget
  <2>7. AttemptInv' /\ FailsOnlyOnReuse'
    BY <1>1, <2>2, <2>4, <2>6 DEF AttemptInv, FailsOnlyOnReuse
  <2>8. ProgressInv'
    <3>1. \A o \in Ordinals : ~(o < 0)
      BY ScalingAssumption DEF Ordinals
    <3> QED BY <2>4, <3>1 DEF ProgressInv
  <2>9. FleetInv' /\ CalmInv'
    BY <1>1, <2>2, <2>4 DEF ScalingInv, FleetInv, CalmInv, Exists, HasLiveRow, fleetVars
  <2> QED BY <2>5, <2>7, <2>8, <2>9 DEF ScalingInv
<1>3. CASE ~ValidTarget(g)
  <2>1. scaling' = [scaling EXCEPT !.status = "failed"] /\ executor' = Resting
    BY <1>0, <1>3 DEF Begin
  <2>2. /\ scaling' \in ScaleOperations /\ scaling'.status = "failed" /\ scaling'.reached = 0
        /\ scaling'.previous = scaling.previous
    BY <1>1, <2>1 DEF ScaleOperations
  <2>3. executor' \in Executors /\ executor'.at = "idle"
    BY <2>1, RestingIs
  <2>4. scaleFaults # 0
    <3>1. scaling.desired \in FewestReplicas .. MostReplicas /\ scaling.previous \in 0 .. MostReplicas
      BY Fields DEF ScalingInv
    <3>2. g \in FewestReplicas .. MostReplicas \/ scaleFaults # 0
      BY <1>1, <3>1, ScalingAssumption DEF ScalingInv, CalmInv
    <3> QED BY <1>3, <3>2, ScalingAssumption DEF ValidTarget
  <2>5. ScalingTypeOK'
    BY <1>1, <2>2, <2>3 DEF ScalingInv, ScalingTypeOK, controlVars, fleetVars, routerVars
  <2>6. AttemptInv' /\ ProgressInv' /\ FailsOnlyOnReuse'
    BY <1>1, <2>2, <2>3, <2>4 DEF AttemptInv, ProgressInv, FailsOnlyOnReuse, Unresolved
  <2>7. FleetInv' /\ CalmInv'
    BY <1>1, <2>2, <2>3, <2>4 DEF ScalingInv, FleetInv, CalmInv, Exists, HasLiveRow, fleetVars
  <2> QED BY <2>5, <2>6, <2>7 DEF ScalingInv
<1> QED BY <1>2, <1>3

LEMMA RetryStep ==
  ASSUME ScalingInv, Retry
  PROVE  ScalingInv'
<1>1. executor' = Resting /\ UNCHANGED <<controlVars, scaling, fleetVars, routerVars, scaleFaults>>
  BY DEF Retry
<1>2. executor' \in Executors /\ executor'.at = "idle"
  BY <1>1, RestingIs
<1>3. ScalingTypeOK'
  BY <1>1, <1>2 DEF ScalingInv, ScalingTypeOK, controlVars, fleetVars, routerVars
<1>4. AttemptInv' /\ ProgressInv'
  BY <1>1, <1>2 DEF ScalingInv, AttemptInv, ProgressInv, Unresolved
<1>5. FleetInv' /\ CalmInv'
  BY <1>1, <1>2 DEF ScalingInv, FleetInv, CalmInv, Exists, HasLiveRow, fleetVars
<1>6. FailsOnlyOnReuse'
  BY <1>1, ReuseKept DEF fleetVars
<1> QED BY <1>3, <1>4, <1>5, <1>6 DEF ScalingInv

\* An attempt that fails for good ends the operation unless it is to be undone.
LEMMA FailIs ==
  ASSUME ScalingInv, executor.at # "idle", FailForGood
  PROVE  /\ executor' \in Executors /\ scaling' \in ScaleOperations
         /\ executor'.at = "idle" /\ AttemptInv' /\ ProgressInv'
         /\ scaling'.reached = 0 /\ scaling'.previous = scaling.previous
         /\ scaling'.status = "failed" => Goal' = executor.goal
<1>1. /\ scaling \in ScaleOperations /\ scaling.status = "running" /\ scaling.reached = 0
      /\ executor.goal = (IF executor.undo THEN scaling.previous ELSE scaling.desired)
      /\ executor.undo => scaling.cancel
  BY DEF ScalingInv, ScalingTypeOK, AttemptInv, Unresolved
<1>2. executor' \in Executors /\ executor'.at = "idle"
  BY RestingIs DEF FailForGood
<1>3. /\ scaling' \in ScaleOperations /\ scaling'.reached = 0 /\ scaling'.previous = scaling.previous
      /\ scaling'.status = "failed" => Goal' = executor.goal
  <2>1. CASE scaling.cancel /\ ~executor.undo
    BY <1>1, <2>1 DEF FailForGood
  <2>2. CASE ~(scaling.cancel /\ ~executor.undo)
    <3>1. scaling' = [scaling EXCEPT !.status = "failed"]
      BY <2>2 DEF FailForGood
    <3>2. /\ scaling' \in ScaleOperations /\ scaling'.reached = 0 /\ scaling'.previous = scaling.previous
          /\ scaling'.cancel = scaling.cancel /\ scaling'.desired = scaling.desired
      BY <1>1, <3>1 DEF ScaleOperations
    <3> QED BY <1>1, <2>2, <3>2 DEF Goal
  <2> QED BY <2>1, <2>2
<1>4. AttemptInv' /\ ProgressInv'
  BY <1>2, <1>3 DEF AttemptInv, ProgressInv
<1> QED BY <1>2, <1>3, <1>4

\* A fault is counted.
LEMMA ScaleFaultIs ==
  ASSUME ScalingInv, ScaleFault
  PROVE  scaleFaults' \in 0 .. MaxScaleFaults /\ scaleFaults' # 0
  BY ScalingAssumption DEF ScaleFault, ScalingInv, ScalingTypeOK

\* A fault ends the attempt, or the operation.
LEMMA RefusedStep ==
  ASSUME ScalingInv, EnsureRefused
  PROVE  ScalingInv'
<1>1. executor.at = "create" /\ FailForGood /\ ScaleFault /\ UNCHANGED <<controlVars, fleetVars, routerVars>>
  BY DEF EnsureRefused
<1>2. /\ executor' \in Executors /\ scaling' \in ScaleOperations
      /\ executor'.at = "idle" /\ AttemptInv' /\ ProgressInv' /\ scaling'.reached = 0
  BY <1>1, FailIs
<1>3. scaleFaults' \in 0 .. MaxScaleFaults /\ scaleFaults' # 0
  BY <1>1, ScaleFaultIs
<1>4. ScalingTypeOK'
  BY <1>1, <1>2, <1>3 DEF ScalingInv, ScalingTypeOK, controlVars, fleetVars, routerVars
<1>5. FleetInv'
  BY <1>1, <1>2 DEF ScalingInv, FleetInv, Exists, HasLiveRow, fleetVars
<1>6. CalmInv' /\ FailsOnlyOnReuse'
  BY <1>3 DEF CalmInv, FailsOnlyOnReuse
<1> QED BY <1>2, <1>4, <1>5, <1>6 DEF ScalingInv

LEMMA ExhaustedStep ==
  ASSUME ScalingInv, AttemptsExhausted
  PROVE  ScalingInv'
<1>1. /\ executor.at = "idle" /\ scaling.reached = 0 /\ scaling \in ScaleOperations
      /\ scaling' = [scaling EXCEPT !.status = "failed"] /\ ScaleFault
      /\ UNCHANGED <<controlVars, executor, fleetVars, routerVars>>
  BY DEF AttemptsExhausted, ScalingInv, ScalingTypeOK, AttemptInv, Unresolved
<1>2. scaling' \in ScaleOperations /\ scaling'.status = "failed" /\ scaling'.reached = 0
  BY <1>1 DEF ScaleOperations
<1>3. scaleFaults' \in 0 .. MaxScaleFaults /\ scaleFaults' # 0
  BY <1>1, ScaleFaultIs
<1>4. ScalingTypeOK'
  BY <1>1, <1>2, <1>3 DEF ScalingInv, ScalingTypeOK, controlVars, fleetVars, routerVars
<1>5. AttemptInv' /\ ProgressInv'
  BY <1>1, <1>2 DEF AttemptInv, ProgressInv
<1>6. FleetInv'
  BY <1>1, <1>2 DEF ScalingInv, FleetInv, Exists, HasLiveRow, fleetVars
<1>7. CalmInv' /\ FailsOnlyOnReuse'
  BY <1>3 DEF CalmInv, FailsOnlyOnReuse
<1> QED BY <1>4, <1>5, <1>6, <1>7 DEF ScalingInv

\* The attempt is at one of its ordinals.
LEMMA AtOrdinal ==
  ASSUME ScalingInv, executor.at # "idle", executor.next < executor.goal
  PROVE  /\ executor.next \in Ordinals /\ executor.next \in 0 .. MostReplicas
         /\ executor.goal \in 0 .. MostReplicas
         /\ scaling.reached = 0 /\ executor \in Executors
         /\ executor.next \in First(executor.goal) /\ executor.goal >= FewestReplicas
<1>1. /\ executor.next \in 0 .. MostReplicas /\ executor.goal \in 0 .. MostReplicas
      /\ \A n \in 0 .. MostReplicas : n < MostReplicas => n \in Ordinals
  BY Fields DEF ScalingInv
<1>2. executor.next \in Ordinals
  BY <1>1, ScalingAssumption
<1>3. scaling.reached = 0 /\ executor \in Executors /\ executor.goal >= FewestReplicas
  BY DEF ScalingInv, ScalingTypeOK, AttemptInv, Unresolved
<1>4. executor.next \in First(executor.goal)
  BY <1>1, <1>2, FirstIs
<1> QED BY <1>1, <1>2, <1>3, <1>4

\* One row changes to another live state.
LEMMA RowIs ==
  ASSUME ScalingInv, NEW n \in Ordinals, NEW state \in RowStates,
         replicaRow' = [replicaRow EXCEPT ![n] = state]
  PROVE  /\ replicaRow' \in [Ordinals -> RowStates] /\ replicaRow'[n] = state
         /\ \A o \in Ordinals : o # n => replicaRow'[o] = replicaRow[o]
         /\ \A o \in Ordinals : o # n => (HasLiveRow(o)' <=> HasLiveRow(o))
         /\ HasLiveRow(n)' <=> state \notin {"none", "deleted"}
  BY DEF ScalingInv, ScalingTypeOK, HasLiveRow

LEMMA MachineIs ==
  ASSUME ScalingInv, NEW n \in Ordinals, NEW state \in MachineStates,
         machine' = [machine EXCEPT ![n] = state]
  PROVE  /\ machine' \in [Ordinals -> MachineStates] /\ machine'[n] = state
         /\ \A o \in Ordinals : o # n => machine'[o] = machine[o]
         /\ \A o \in Ordinals : o # n => (Exists(o)' <=> Exists(o))
         /\ Exists(n)' <=> state \in {"booting", "running", "failed"}
  BY DEF ScalingInv, ScalingTypeOK, Exists

\* The handler goes on at the same ordinal.
LEMMA ExecutorAt ==
  ASSUME executor \in Executors,
         NEW place \in {"intent", "create", "observe", "bury", "fence", "delete", "confirm"}
  PROVE  /\ [executor EXCEPT !.at = place] \in Executors
         /\ [executor EXCEPT !.at = place].at = place
         /\ [executor EXCEPT !.at = place].next = executor.next
         /\ [executor EXCEPT !.at = place].goal = executor.goal
         /\ [executor EXCEPT !.at = place].undo = executor.undo
         /\ [executor EXCEPT !.at = place].draining = executor.draining
  BY DEF Executors

LEMMA EnsureIntentOfReplica ==
  ASSUME ScalingInv, EnsureIntent
  PROVE  ScalingInv'
<1>0. PICK n : n = executor.next
  OBVIOUS
<1>1. /\ executor.at = "intent" /\ executor.next < executor.goal
      /\ UNCHANGED <<controlVars, machine, targets, observed, routerVars, scaleFaults>>
  BY DEF EnsureIntent
<1>2. /\ n \in Ordinals /\ n \in First(executor.goal) /\ scaling.reached = 0 /\ executor \in Executors
  BY <1>0, <1>1, AtOrdinal
<1>3. CASE replicaRow[n] = "deleted"
  <2>1. FailForGood /\ UNCHANGED replicaRow
    BY <1>0, <1>3 DEF EnsureIntent
  <2>2. /\ executor' \in Executors /\ scaling' \in ScaleOperations
        /\ executor'.at = "idle" /\ AttemptInv' /\ ProgressInv'
        /\ scaling'.reached = 0 /\ scaling'.previous = scaling.previous
        /\ scaling'.status = "failed" => Goal' = executor.goal
    BY <1>1, <2>1, FailIs
  <2>3. ScalingTypeOK'
    BY <1>1, <2>1, <2>2 DEF ScalingInv, ScalingTypeOK, controlVars, routerVars
  <2>4. FleetInv' /\ CalmInv'
    BY <1>1, <2>1, <2>2 DEF ScalingInv, FleetInv, CalmInv, Exists, HasLiveRow
  <2>5. FailsOnlyOnReuse'
    BY <1>2, <1>3, <2>1, <2>2 DEF FailsOnlyOnReuse
  <2> QED BY <2>2, <2>3, <2>4, <2>5 DEF ScalingInv
<1>4. CASE replicaRow[n] # "deleted"
  <2>0. PICK state : state = IF replicaRow[n] = "none" THEN "provisioning" ELSE replicaRow[n]
    OBVIOUS
  <2>1. /\ replicaRow' = [replicaRow EXCEPT ![n] = state] /\ UNCHANGED scaling
        /\ executor' = [executor EXCEPT !.at = "create"]
    BY <1>0, <1>2, <1>4, <2>0 DEF EnsureIntent, ScalingInv, ScalingTypeOK
  <2>2. state \in RowStates /\ state \notin {"none", "deleted"}
    BY <1>2, <1>4, <2>0 DEF ScalingInv, ScalingTypeOK, RowStates
  <2>3. /\ replicaRow' \in [Ordinals -> RowStates] /\ HasLiveRow(n)'
        /\ \A o \in Ordinals : o # n => replicaRow'[o] = replicaRow[o]
        /\ \A o \in Ordinals : HasLiveRow(o) => HasLiveRow(o)'
    BY <1>2, <2>1, <2>2, RowIs
  <2>4. /\ executor' \in Executors /\ executor'.at = "create" /\ executor'.next = n
        /\ executor'.goal = executor.goal /\ executor'.undo = executor.undo
    BY <1>0, <1>2, <2>1, ExecutorAt
  <2>5. ScalingTypeOK'
    BY <1>1, <2>1, <2>3, <2>4 DEF ScalingInv, ScalingTypeOK, controlVars, routerVars
  <2>6. AttemptInv'
    BY <1>0, <1>1, <2>1, <2>4 DEF ScalingInv, AttemptInv, Unresolved
  <2>7. ProgressInv'
    BY <1>0, <1>1, <2>3, <2>4 DEF ScalingInv, ProgressInv, Exists, HasLiveRow
  <2>8. FleetInv'
    BY <1>1, <1>2, <2>1, <2>3 DEF ScalingInv, FleetInv, Exists
  <2>9. CalmInv'
    BY <1>1, <2>1, <2>3, <2>4 DEF ScalingInv, CalmInv
  <2>10. FailsOnlyOnReuse'
    BY <1>1, <1>4, <2>1, <2>3, ReuseKept
  <2> QED BY <2>5, <2>6, <2>7, <2>8, <2>9, <2>10 DEF ScalingInv
<1> QED BY <1>3, <1>4

\* A step of the handler with its operation and no fault: what is left to show.
LEMMA WorkStep ==
  ASSUME ScalingInv, ScalingTypeOK', UNCHANGED <<scaling, scaleFaults>>, AttemptInv', ProgressInv',
         scaling.reached = 0, executor'.at # "bury" \/ scaleFaults # 0,
         \A o \in Ordinals : Exists(o)' => HasLiveRow(o)',
         \A o \in Ordinals : replicaRow[o] = "deleted" => replicaRow'[o] = "deleted",
         scaleFaults = 0 => \A o \in Ordinals : /\ machine'[o] # "failed"
                                                /\ o < FewestReplicas => HasLiveRow(o)'
  PROVE  ScalingInv'
<1>1. FleetInv' /\ CalmInv'
  BY DEF ScalingInv, FleetInv, CalmInv
<1>2. FailsOnlyOnReuse'
  BY ReuseKept
<1> QED BY <1>1, <1>2 DEF ScalingInv

LEMMA EnsureMachineStep ==
  ASSUME ScalingInv, EnsureMachine
  PROVE  ScalingInv'
<1>0. PICK n, state : n = executor.next /\ state = IF machine[n] = "none" THEN "booting" ELSE machine[n]
  OBVIOUS
<1>1. /\ executor.at = "create" /\ machine[n] # "deleting" /\ executor.next < executor.goal
      /\ HasLiveRow(n) /\ executor' = [executor EXCEPT !.at = "observe"]
      /\ UNCHANGED <<controlVars, scaling, replicaRow, targets, observed, routerVars, scaleFaults>>
  BY <1>0 DEF EnsureMachine, ScalingInv, ProgressInv
<1>2. n \in Ordinals /\ scaling.reached = 0 /\ executor \in Executors
  BY <1>0, <1>1, AtOrdinal
<1>3. machine' = [machine EXCEPT ![n] = state]
  BY <1>0, <1>2 DEF EnsureMachine, ScalingInv, ScalingTypeOK
<1>4. state \in MachineStates /\ state \in {"booting", "running", "failed"}
      /\ (state = "failed" => machine[n] = "failed")
  BY <1>0, <1>1, <1>2 DEF ScalingInv, ScalingTypeOK, MachineStates
<1>5. /\ machine' \in [Ordinals -> MachineStates] /\ Exists(n)' /\ machine'[n] = state
      /\ \A o \in Ordinals : o # n => machine'[o] = machine[o]
      /\ \A o \in Ordinals : o # n => (Exists(o)' <=> Exists(o))
  BY <1>2, <1>3, <1>4, MachineIs
<1>6. /\ executor' \in Executors /\ executor'.at = "observe" /\ executor'.next = n
      /\ executor'.goal = executor.goal /\ executor'.undo = executor.undo
  BY <1>0, <1>1, <1>2, ExecutorAt
<1>7. ScalingTypeOK'
  BY <1>1, <1>5, <1>6 DEF ScalingInv, ScalingTypeOK, controlVars, routerVars
<1>8. AttemptInv'
  BY <1>0, <1>1, <1>6 DEF ScalingInv, AttemptInv, Unresolved
<1>9. \A o \in Ordinals : HasLiveRow(o)' <=> HasLiveRow(o)
  BY <1>1 DEF HasLiveRow
<1>10. ProgressInv'
  BY <1>0, <1>1, <1>2, <1>5, <1>6, <1>9 DEF ScalingInv, ProgressInv
<1>11. \A o \in Ordinals : Exists(o)' => HasLiveRow(o)'
  BY <1>1, <1>5, <1>9 DEF ScalingInv, FleetInv
<1>12. scaleFaults = 0 => \A o \in Ordinals : /\ machine'[o] # "failed"
                                              /\ o < FewestReplicas => HasLiveRow(o)'
  BY <1>2, <1>4, <1>5, <1>9 DEF ScalingInv, CalmInv
<1> QED BY <1>1, <1>2, <1>6, <1>7, <1>8, <1>10, <1>11, <1>12, WorkStep

\* The observation of the replica: ready, or starting.
LEMMA ReadyStep ==
  ASSUME ScalingInv, ReplicaReady
  PROVE  ScalingInv'
<1>0. PICK n : n = executor.next
  OBVIOUS
<1>1. /\ executor.at = "observe" /\ executor.next < executor.goal /\ HasLiveRow(n) /\ Exists(n)
      /\ replicaRow' = [replicaRow EXCEPT ![n] = "active"]
      /\ executor' = [executor EXCEPT !.at = "intent", !.next = @ + 1]
      /\ UNCHANGED <<controlVars, scaling, machine, targets, observed, routerVars, scaleFaults>>
  BY <1>0 DEF ReplicaReady, ScalingInv, ProgressInv
<1>2. /\ n \in Ordinals /\ scaling.reached = 0 /\ executor \in Executors
      /\ n \in 0 .. MostReplicas /\ executor.goal \in 0 .. MostReplicas
  BY <1>0, <1>1, AtOrdinal
<1>3. /\ replicaRow' \in [Ordinals -> RowStates] /\ HasLiveRow(n)'
      /\ \A o \in Ordinals : o # n => replicaRow'[o] = replicaRow[o]
      /\ \A o \in Ordinals : HasLiveRow(o)' <=> HasLiveRow(o)
  BY <1>1, <1>2, RowIs DEF RowStates
<1>4. PICK m : m = n + 1
  OBVIOUS
<1>5. m \in 0 .. MostReplicas /\ m <= executor.goal /\ \A o \in Ordinals : o < m => o < n \/ o = n
  BY <1>0, <1>1, <1>2, <1>4, ScalingAssumption DEF Ordinals
<1>6. /\ executor' \in Executors /\ executor'.at = "intent" /\ executor'.next = m
      /\ executor'.goal = executor.goal /\ executor'.undo = executor.undo
  <2>1. executor' = [executor EXCEPT !.at = "intent", !.next = m]
    BY <1>0, <1>1, <1>2, <1>4 DEF Executors
  <2> QED BY <1>2, <1>5, <2>1 DEF Executors
<1>7. ScalingTypeOK'
  BY <1>1, <1>3, <1>6 DEF ScalingInv, ScalingTypeOK, controlVars, routerVars
<1>8. AttemptInv'
  BY <1>1, <1>5, <1>6 DEF ScalingInv, AttemptInv, Unresolved
<1>9. \A o \in Ordinals : Exists(o)' <=> Exists(o)
  BY <1>1 DEF Exists
<1>10. ProgressInv'
  BY <1>0, <1>1, <1>3, <1>5, <1>6, <1>9 DEF ScalingInv, ProgressInv
<1>11. \A o \in Ordinals : Exists(o)' => HasLiveRow(o)'
  BY <1>3, <1>9 DEF ScalingInv, FleetInv
<1>12. \A o \in Ordinals : replicaRow[o] = "deleted" => replicaRow'[o] = "deleted"
  BY <1>1, <1>3 DEF HasLiveRow
<1>13. scaleFaults = 0 => \A o \in Ordinals : /\ machine'[o] # "failed"
                                              /\ o < FewestReplicas => HasLiveRow(o)'
  BY <1>1, <1>3 DEF ScalingInv, CalmInv
<1> QED BY <1>1, <1>2, <1>6, <1>7, <1>8, <1>10, <1>11, <1>12, <1>13, WorkStep

LEMMA StartingStep ==
  ASSUME ScalingInv, ReplicaStarting
  PROVE  ScalingInv'
<1>0. PICK n : n = executor.next
  OBVIOUS
<1>1. /\ executor.at = "observe" /\ executor.next < executor.goal /\ HasLiveRow(n)
      /\ replicaRow' = [replicaRow EXCEPT ![n] = "starting"] /\ executor' = Resting
      /\ UNCHANGED <<controlVars, scaling, machine, targets, observed, routerVars, scaleFaults>>
  BY <1>0 DEF ReplicaStarting, ScalingInv, ProgressInv
<1>2. n \in Ordinals /\ scaling.reached = 0
  BY <1>0, <1>1, AtOrdinal
<1>3. /\ replicaRow' \in [Ordinals -> RowStates]
      /\ \A o \in Ordinals : o # n => replicaRow'[o] = replicaRow[o]
      /\ \A o \in Ordinals : HasLiveRow(o)' <=> HasLiveRow(o)
  BY <1>1, <1>2, RowIs DEF RowStates
<1>4. executor' \in Executors /\ executor'.at = "idle"
  BY <1>1, RestingIs
<1>5. ScalingTypeOK'
  BY <1>1, <1>3, <1>4 DEF ScalingInv, ScalingTypeOK, controlVars, routerVars
<1>6. AttemptInv' /\ ProgressInv'
  BY <1>1, <1>4 DEF ScalingInv, AttemptInv, ProgressInv, Unresolved
<1>7. \A o \in Ordinals : Exists(o)' => HasLiveRow(o)'
  BY <1>1, <1>3 DEF ScalingInv, FleetInv, Exists
<1>8. \A o \in Ordinals : replicaRow[o] = "deleted" => replicaRow'[o] = "deleted"
  BY <1>1, <1>3 DEF HasLiveRow
<1>9. scaleFaults = 0 => \A o \in Ordinals : /\ machine'[o] # "failed"
                                             /\ o < FewestReplicas => HasLiveRow(o)'
  BY <1>1, <1>3 DEF ScalingInv, CalmInv
<1> QED BY <1>1, <1>2, <1>4, <1>5, <1>6, <1>7, <1>8, <1>9, WorkStep

\* A bootstrap that failed is deleted before its row is.
LEMMA BootstrapFailedStep ==
  ASSUME ScalingInv, BootstrapFailed
  PROVE  ScalingInv'
<1>0. PICK n : n = executor.next
  OBVIOUS
<1>1. /\ executor.at = "observe" /\ executor.next < executor.goal /\ HasLiveRow(n)
      /\ machine[n] = "failed"
      /\ machine' = [machine EXCEPT ![n] = "deleting"]
      /\ replicaRow' = [replicaRow EXCEPT ![n] = "failed"]
      /\ executor' = [executor EXCEPT !.at = "bury"]
      /\ UNCHANGED <<controlVars, scaling, targets, observed, routerVars, scaleFaults>>
  BY <1>0 DEF BootstrapFailed, ScalingInv, ProgressInv
<1>2. n \in Ordinals /\ scaling.reached = 0 /\ executor \in Executors
  BY <1>0, <1>1, AtOrdinal
<1>3. /\ replicaRow' \in [Ordinals -> RowStates] /\ HasLiveRow(n)'
      /\ \A o \in Ordinals : o # n => replicaRow'[o] = replicaRow[o]
      /\ \A o \in Ordinals : HasLiveRow(o)' <=> HasLiveRow(o)
  BY <1>1, <1>2, RowIs DEF RowStates
<1>4. /\ machine' \in [Ordinals -> MachineStates] /\ ~Exists(n)'
      /\ \A o \in Ordinals : o # n => (Exists(o)' <=> Exists(o))
  BY <1>1, <1>2, MachineIs DEF MachineStates
<1>5. /\ executor' \in Executors /\ executor'.at = "bury" /\ executor'.next = n
      /\ executor'.goal = executor.goal /\ executor'.undo = executor.undo
  BY <1>0, <1>1, <1>2, ExecutorAt
<1>6. ScalingTypeOK'
  BY <1>1, <1>3, <1>4, <1>5 DEF ScalingInv, ScalingTypeOK, controlVars, routerVars
<1>7. AttemptInv'
  BY <1>0, <1>1, <1>5 DEF ScalingInv, AttemptInv, Unresolved
<1>8. ProgressInv'
  <2>1. \A o \in Ordinals : o < n => o # n
    BY <1>2, ScalingAssumption DEF Ordinals
  <2> QED BY <1>0, <1>1, <1>3, <1>4, <1>5, <2>1 DEF ScalingInv, ProgressInv
<1>9. \A o \in Ordinals : Exists(o)' => HasLiveRow(o)'
  BY <1>3, <1>4 DEF ScalingInv, FleetInv
<1>10. \A o \in Ordinals : replicaRow[o] = "deleted" => replicaRow'[o] = "deleted"
  BY <1>1, <1>3 DEF HasLiveRow
<1>11. scaleFaults # 0
  BY <1>1, <1>2 DEF ScalingInv, CalmInv
<1> QED BY <1>1, <1>2, <1>6, <1>7, <1>8, <1>9, <1>10, <1>11, WorkStep

LEMMA BuryStep ==
  ASSUME ScalingInv, BuryFailed
  PROVE  ScalingInv'
<1>0. PICK n : n = executor.next
  OBVIOUS
<1>1. /\ executor.at = "bury" /\ executor.next < executor.goal /\ ~Exists(n) /\ scaleFaults # 0
      /\ replicaRow' = [replicaRow EXCEPT ![n] = "deleted"] /\ FailForGood
      /\ UNCHANGED <<controlVars, machine, targets, observed, routerVars, scaleFaults>>
  BY <1>0 DEF BuryFailed, ScalingInv, ProgressInv, CalmInv
<1>2. n \in Ordinals
  BY <1>0, <1>1, AtOrdinal
<1>3. /\ executor' \in Executors /\ scaling' \in ScaleOperations
      /\ executor'.at = "idle" /\ AttemptInv' /\ ProgressInv' /\ scaling'.reached = 0
  BY <1>1, FailIs
<1>4. /\ replicaRow' \in [Ordinals -> RowStates]
      /\ \A o \in Ordinals : o # n => (HasLiveRow(o)' <=> HasLiveRow(o))
  BY <1>1, <1>2, RowIs DEF RowStates
<1>5. ScalingTypeOK'
  BY <1>1, <1>3, <1>4 DEF ScalingInv, ScalingTypeOK, controlVars, routerVars
<1>6. \A o \in Ordinals : Exists(o)' <=> Exists(o)
  BY <1>1 DEF Exists
<1>7. FleetInv'
  BY <1>1, <1>3, <1>4, <1>6 DEF ScalingInv, FleetInv
<1>8. CalmInv' /\ FailsOnlyOnReuse'
  BY <1>1 DEF CalmInv, FailsOnlyOnReuse
<1> QED BY <1>3, <1>5, <1>7, <1>8 DEF ScalingInv

LEMMA WrongModelStep ==
  ASSUME ScalingInv, WrongModel
  PROVE  ScalingInv'
<1>0. PICK n : n = executor.next
  OBVIOUS
<1>1. /\ executor.at = "observe" /\ executor.next < executor.goal /\ HasLiveRow(n)
      /\ replicaRow' = [replicaRow EXCEPT ![n] = "failed"] /\ FailForGood /\ ScaleFault
      /\ UNCHANGED <<controlVars, machine, targets, observed, routerVars>>
  BY <1>0 DEF WrongModel, ScalingInv, ProgressInv
<1>2. n \in Ordinals
  BY <1>0, <1>1, AtOrdinal
<1>3. /\ executor' \in Executors /\ scaling' \in ScaleOperations
      /\ executor'.at = "idle" /\ AttemptInv' /\ ProgressInv' /\ scaling'.reached = 0
  BY <1>1, FailIs
<1>4. /\ replicaRow' \in [Ordinals -> RowStates]
      /\ \A o \in Ordinals : HasLiveRow(o)' <=> HasLiveRow(o)
  BY <1>1, <1>2, RowIs DEF RowStates
<1>5. scaleFaults' \in 0 .. MaxScaleFaults /\ scaleFaults' # 0
  BY <1>1, ScaleFaultIs
<1>6. ScalingTypeOK'
  BY <1>1, <1>3, <1>4, <1>5 DEF ScalingInv, ScalingTypeOK, controlVars, routerVars
<1>7. \A o \in Ordinals : Exists(o)' <=> Exists(o)
  BY <1>1 DEF Exists
<1>8. FleetInv'
  BY <1>3, <1>4, <1>7 DEF ScalingInv, FleetInv
<1>9. CalmInv' /\ FailsOnlyOnReuse'
  BY <1>5 DEF CalmInv, FailsOnlyOnReuse
<1> QED BY <1>3, <1>6, <1>8, <1>9 DEF ScalingInv

\* All ordinals below the goal run: the targets become exactly these, and every
\* live row beyond them is among what the attempt will delete.
LEMMA ApplyStep ==
  ASSUME ScalingInv, ApplyDeployment
  PROVE  ScalingInv'
<1>0. PICK g, surplus : g = executor.goal /\ surplus = Surplus(executor.goal)
  OBVIOUS
<1>1. /\ executor.at = "intent" /\ executor.next = g /\ executor.goal = g
      /\ targets' = First(g) /\ observed' = "pending"
      /\ replicaRow' = [o \in Ordinals |-> IF o \in surplus THEN "draining" ELSE replicaRow[o]]
      /\ executor' = [executor EXCEPT !.at = "fence", !.draining = surplus]
      /\ UNCHANGED <<controlVars, scaling, machine, routerVars, scaleFaults>>
  BY <1>0 DEF ApplyDeployment
<1>2. /\ executor \in Executors /\ g \in 0 .. MostReplicas /\ surplus \in SUBSET Ordinals
      /\ scaling.reached = 0
  BY <1>0, <1>1, Fields DEF Surplus, ScalingInv, ScalingTypeOK, AttemptInv, Unresolved
<1>3. \A o \in Ordinals : o \in surplus <=> o >= g /\ HasLiveRow(o)
  BY <1>0 DEF Surplus
<1>4. /\ replicaRow' \in [Ordinals -> RowStates]
      /\ \A o \in Ordinals : HasLiveRow(o)' <=> HasLiveRow(o)
      /\ \A o \in Ordinals : replicaRow[o] = "deleted" => replicaRow'[o] = "deleted"
  BY <1>1, <1>2, <1>3 DEF ScalingInv, ScalingTypeOK, RowStates, HasLiveRow
<1>5. /\ executor' \in Executors /\ executor'.at = "fence" /\ executor'.draining = surplus
      /\ executor'.next = g /\ executor'.goal = g /\ executor'.undo = executor.undo
  BY <1>1, <1>2 DEF Executors
<1>6. First(g) \subseteq Ordinals
  BY <1>2, FirstIs
<1>7. ScalingTypeOK'
  BY <1>1, <1>4, <1>5, <1>6 DEF ScalingInv, ScalingTypeOK, controlVars, routerVars
<1>8. AttemptInv'
  BY <1>1, <1>5 DEF ScalingInv, AttemptInv, Unresolved
<1>9. \A o \in Ordinals : Exists(o)' <=> Exists(o)
  BY <1>1 DEF Exists
<1>10. ProgressInv'
  BY <1>1, <1>2, <1>3, <1>4, <1>5, <1>9 DEF ScalingInv, ProgressInv
<1>11. \A o \in Ordinals : Exists(o)' => HasLiveRow(o)'
  BY <1>4, <1>9 DEF ScalingInv, FleetInv
<1>12. scaleFaults = 0 => \A o \in Ordinals : /\ machine'[o] # "failed"
                                              /\ o < FewestReplicas => HasLiveRow(o)'
  BY <1>1, <1>4 DEF ScalingInv, CalmInv
<1> QED BY <1>1, <1>2, <1>4, <1>5, <1>7, <1>8, <1>10, <1>11, <1>12, WorkStep

LEMMA FenceStep ==
  ASSUME ScalingInv, FencePasses
  PROVE  ScalingInv'
<1>1. /\ executor.at = "fence" /\ executor' = [executor EXCEPT !.at = "delete"]
      /\ UNCHANGED <<controlVars, scaling, fleetVars, routerVars, scaleFaults>>
  BY DEF FencePasses
<1>2. executor \in Executors /\ scaling.reached = 0
  BY <1>1 DEF ScalingInv, ScalingTypeOK, AttemptInv, Unresolved
<1>3. /\ executor' \in Executors /\ executor'.at = "delete" /\ executor'.next = executor.next
      /\ executor'.goal = executor.goal /\ executor'.undo = executor.undo
      /\ executor'.draining = executor.draining
  BY <1>1, <1>2, ExecutorAt
<1>4. ScalingTypeOK'
  BY <1>1, <1>3 DEF ScalingInv, ScalingTypeOK, controlVars, fleetVars, routerVars
<1>5. AttemptInv'
  BY <1>1, <1>3 DEF ScalingInv, AttemptInv, Unresolved
<1>6. ProgressInv'
  BY <1>1, <1>3 DEF ScalingInv, ProgressInv, Exists, HasLiveRow, fleetVars
<1>7. FleetInv' /\ CalmInv'
  BY <1>1, <1>3 DEF ScalingInv, FleetInv, CalmInv, Exists, HasLiveRow, fleetVars
<1>8. FailsOnlyOnReuse'
  BY <1>1, ReuseKept DEF fleetVars
<1> QED BY <1>4, <1>5, <1>6, <1>7, <1>8 DEF ScalingInv

\* What is deleted lies beyond the goal, and so beyond the fewest replicas.
LEMMA DrainingIs ==
  ASSUME ScalingInv, executor.at \in {"delete", "confirm"}, NEW o \in Ordinals, Draining(o)
  PROVE  /\ o \in executor.draining /\ o >= executor.goal /\ ~(o < executor.goal) /\ ~(o < FewestReplicas)
         /\ executor.next = executor.goal /\ executor \in Executors /\ scaling.reached = 0
         /\ executor.goal \in 0 .. MostReplicas
<1>1. o \in executor.draining
  BY DEF Draining
<1>2. /\ o >= executor.goal /\ executor.next = executor.goal /\ executor.goal >= FewestReplicas
      /\ executor \in Executors /\ scaling.reached = 0
  BY <1>1 DEF ScalingInv, ScalingTypeOK, AttemptInv, ProgressInv, Unresolved
<1>3. executor.goal \in 0 .. MostReplicas /\ o \in Int /\ FewestReplicas \in Int
  BY Fields, ScalingAssumption DEF ScalingInv, Ordinals
<1> QED BY <1>1, <1>2, <1>3

LEMMA DeleteMachineStep ==
  ASSUME ScalingInv, NEW d \in Ordinals, DeleteMachine(d)
  PROVE  ScalingInv'
<1>0. PICK state : state = IF machine[d] = "none" THEN "none" ELSE "deleting"
  OBVIOUS
<1>1. /\ executor.at = "delete" /\ Draining(d) /\ executor' = [executor EXCEPT !.at = "confirm"]
      /\ UNCHANGED <<controlVars, scaling, replicaRow, targets, observed, routerVars, scaleFaults>>
  BY DEF DeleteMachine
<1>2. machine' = [machine EXCEPT ![d] = state]
  BY <1>0 DEF DeleteMachine, ScalingInv, ScalingTypeOK
<1>3. /\ d \in executor.draining /\ ~(d < executor.goal) /\ executor.next = executor.goal
      /\ executor \in Executors /\ scaling.reached = 0
  BY <1>1, DrainingIs
<1>4. /\ machine' \in [Ordinals -> MachineStates] /\ ~Exists(d)' /\ machine'[d] # "failed"
      /\ \A o \in Ordinals : o # d => machine'[o] = machine[o]
      /\ \A o \in Ordinals : o # d => (Exists(o)' <=> Exists(o))
  <2>1. state \in MachineStates /\ state \notin {"booting", "running", "failed"}
    BY <1>0 DEF MachineStates
  <2> QED BY <1>2, <2>1, MachineIs
<1>5. /\ executor' \in Executors /\ executor'.at = "confirm" /\ executor'.next = executor.next
      /\ executor'.goal = executor.goal /\ executor'.undo = executor.undo
      /\ executor'.draining = executor.draining
  BY <1>1, <1>3, ExecutorAt
<1>6. ScalingTypeOK'
  BY <1>1, <1>4, <1>5 DEF ScalingInv, ScalingTypeOK, controlVars, routerVars
<1>7. AttemptInv'
  BY <1>1, <1>5 DEF ScalingInv, AttemptInv, Unresolved
<1>8. \A o \in Ordinals : HasLiveRow(o)' <=> HasLiveRow(o)
  BY <1>1 DEF HasLiveRow
<1>9. ProgressInv'
  BY <1>1, <1>3, <1>4, <1>5, <1>8 DEF ScalingInv, ProgressInv
<1>10. \A o \in Ordinals : Exists(o)' => HasLiveRow(o)'
  BY <1>4, <1>8 DEF ScalingInv, FleetInv
<1>11. scaleFaults = 0 => \A o \in Ordinals : /\ machine'[o] # "failed"
                                              /\ o < FewestReplicas => HasLiveRow(o)'
  BY <1>4, <1>8 DEF ScalingInv, CalmInv
<1> QED BY <1>1, <1>3, <1>5, <1>6, <1>7, <1>9, <1>10, <1>11, WorkStep

LEMMA MarkDeletedStep ==
  ASSUME ScalingInv, NEW d \in Ordinals, MarkReplicaDeleted(d)
  PROVE  ScalingInv'
<1>0. PICK rest : rest = executor.draining \ {d}
  OBVIOUS
<1>1. /\ executor.at = "confirm" /\ Draining(d) /\ machine[d] = "none"
      /\ replicaRow' = [replicaRow EXCEPT ![d] = "deleted"]
      /\ executor' = [executor EXCEPT !.at = "delete", !.draining = @ \ {d}]
      /\ UNCHANGED <<controlVars, scaling, machine, targets, observed, routerVars, scaleFaults>>
  BY DEF MarkReplicaDeleted
<1>2. /\ d \in executor.draining /\ ~(d < executor.goal) /\ ~(d < FewestReplicas)
      /\ executor.next = executor.goal /\ executor \in Executors /\ scaling.reached = 0
  BY <1>1, DrainingIs
<1>3. /\ replicaRow' \in [Ordinals -> RowStates] /\ ~HasLiveRow(d)' /\ replicaRow'[d] = "deleted"
      /\ \A o \in Ordinals : o # d => replicaRow'[o] = replicaRow[o]
      /\ \A o \in Ordinals : o # d => (HasLiveRow(o)' <=> HasLiveRow(o))
  BY <1>1, RowIs DEF RowStates
<1>4. /\ executor' \in Executors /\ executor'.at = "delete" /\ executor'.next = executor.next
      /\ executor'.goal = executor.goal /\ executor'.undo = executor.undo
      /\ executor'.draining = rest
  <2>1. rest \in SUBSET Ordinals
    BY <1>0, Fields DEF ScalingInv
  <2>2. executor' = [executor EXCEPT !.at = "delete", !.draining = rest]
    BY <1>0, <1>1, <1>2 DEF Executors
  <2> QED BY <1>2, <2>1, <2>2 DEF Executors
<1>5. ScalingTypeOK'
  BY <1>1, <1>3, <1>4 DEF ScalingInv, ScalingTypeOK, controlVars, routerVars
<1>6. AttemptInv'
  BY <1>1, <1>4 DEF ScalingInv, AttemptInv, Unresolved
<1>7. (\A o \in Ordinals : Exists(o)' <=> Exists(o)) /\ ~Exists(d)
  BY <1>1 DEF Exists
<1>8. ProgressInv'
  BY <1>0, <1>1, <1>2, <1>3, <1>4, <1>7 DEF ScalingInv, ProgressInv
<1>9. \A o \in Ordinals : Exists(o)' => HasLiveRow(o)'
  BY <1>3, <1>7 DEF ScalingInv, FleetInv
<1>10. scaleFaults = 0 => \A o \in Ordinals : /\ machine'[o] # "failed"
                                              /\ o < FewestReplicas => HasLiveRow(o)'
  BY <1>1, <1>2, <1>3 DEF ScalingInv, CalmInv
<1>11. \A o \in Ordinals : replicaRow[o] = "deleted" => replicaRow'[o] = "deleted"
  BY <1>3
<1> QED BY <1>1, <1>2, <1>4, <1>5, <1>6, <1>8, <1>9, <1>10, <1>11, WorkStep

\* An attempt that has nothing left to delete leaves exactly its goal.
LEMMA ConcludeStep ==
  ASSUME ScalingInv, Conclude
  PROVE  ScalingInv'
<1>0. PICK g : g = executor.goal
  OBVIOUS
<1>1. /\ executor.at = "delete" /\ executor.draining = {} /\ executor' = Resting
      /\ UNCHANGED <<controlVars, fleetVars, routerVars, scaleFaults>>
  BY DEF Conclude
<1>2. /\ scaling \in ScaleOperations /\ scaling.reached = 0 /\ g \in 0 .. MostReplicas
      /\ scaling.status = "running" /\ executor.next = g /\ targets = First(g)
  BY <1>0, <1>1, Fields DEF ScalingInv, ScalingTypeOK, AttemptInv, ProgressInv, Unresolved
<1>3. \A o \in Ordinals : (Exists(o) <=> o < g) /\ (HasLiveRow(o) <=> o < g)
  <2>1. \A o \in Ordinals : o >= g \/ o < g
    BY <1>2, ScalingAssumption DEF Ordinals
  <2> QED BY <1>0, <1>1, <1>2, <2>1 DEF ScalingInv, ProgressInv, FleetInv
<1>4. executor' \in Executors /\ executor'.at = "idle"
  BY <1>1, RestingIs
<1>5. /\ scaling' \in ScaleOperations /\ scaling'.previous = scaling.previous
      /\ scaling'.status # "failed"
      /\ \/ scaling'.status = "running" /\ scaling'.reached = 0
         \/ scaling'.status \in {"cancelled", "succeeded"} /\ scaling'.reached = g
  <2>1. CASE scaling.cancel /\ ~executor.undo
    <3>1. scaling' = scaling
      BY <2>1 DEF Conclude
    <3> QED BY <1>2, <3>1
  <2>2. CASE ~(scaling.cancel /\ ~executor.undo)
    <3>1. PICK final \in {"cancelled", "succeeded"} :
            scaling' = [scaling EXCEPT !.status = final, !.reached = g]
      BY <1>0, <2>2 DEF Conclude
    <3> QED BY <1>2, <3>1 DEF ScaleOperations
  <2> QED BY <2>1, <2>2
<1>6. ScalingTypeOK'
  BY <1>1, <1>4, <1>5 DEF ScalingInv, ScalingTypeOK, controlVars, fleetVars, routerVars
<1>7. AttemptInv' /\ ProgressInv' /\ FailsOnlyOnReuse'
  BY <1>4, <1>5 DEF AttemptInv, ProgressInv, FailsOnlyOnReuse, Unresolved
<1>8. FleetInv'
  BY <1>1, <1>2, <1>3, <1>5 DEF ScalingInv, FleetInv, Exists, HasLiveRow, fleetVars
<1>9. CalmInv'
  BY <1>1, <1>4, <1>5 DEF ScalingInv, CalmInv, HasLiveRow, fleetVars
<1> QED BY <1>6, <1>7, <1>8, <1>9 DEF ScalingInv

\* The provider neither creates nor removes what it runs by itself.
LEMMA CampaignProviderStep ==
  ASSUME ScalingInv, NEW d \in Ordinals, NEW from \in MachineStates, NEW to \in MachineStates,
         ProviderMoves(d, from, to),
         from \in {"booting", "running", "failed"} <=> to \in {"booting", "running", "failed"},
         \/ to # "failed" /\ scaleFaults' = scaleFaults
         \/ scaleFaults' \in 0 .. MaxScaleFaults /\ scaleFaults' # 0
  PROVE  ScalingInv'
<1>1. /\ machine[d] = from /\ machine' = [machine EXCEPT ![d] = to]
      /\ UNCHANGED <<controlVars, scaling, executor, replicaRow, targets, observed, routerVars>>
  BY DEF ProviderMoves
<1>2. /\ machine' \in [Ordinals -> MachineStates] /\ machine'[d] = to
      /\ \A o \in Ordinals : o # d => machine'[o] = machine[o]
      /\ \A o \in Ordinals : Exists(o)' <=> Exists(o)
  BY <1>1, MachineIs DEF Exists
<1>3. \A o \in Ordinals : HasLiveRow(o)' <=> HasLiveRow(o)
  BY <1>1 DEF HasLiveRow
<1>4. scaleFaults' \in 0 .. MaxScaleFaults
  BY DEF ScalingInv, ScalingTypeOK
<1>5. ScalingTypeOK'
  BY <1>1, <1>2, <1>4 DEF ScalingInv, ScalingTypeOK, controlVars, routerVars
<1>6. AttemptInv'
  BY <1>1 DEF ScalingInv, AttemptInv, Unresolved
<1>7. ProgressInv'
  <2>1. CASE executor.at = "idle"
    BY <1>1, <2>1 DEF ProgressInv
  <2>2. CASE executor.at # "idle" /\ executor.at \in {"create", "observe", "bury"}
    <3>1. executor.next < executor.goal
      BY <2>2 DEF ScalingInv, ProgressInv
    <3>2. executor.next \in Ordinals
      BY <2>2, <3>1, AtOrdinal
    <3> QED BY <1>1, <1>2, <1>3, <2>2, <3>2 DEF ScalingInv, ProgressInv
  <2>3. CASE executor.at # "idle" /\ executor.at \notin {"create", "observe", "bury"}
    BY <1>1, <1>2, <1>3, <2>3 DEF ScalingInv, ProgressInv
  <2> QED BY <2>1, <2>2, <2>3
<1>8. FleetInv'
  BY <1>1, <1>2, <1>3 DEF ScalingInv, FleetInv
<1>9. CalmInv'
  BY <1>1, <1>2, <1>3 DEF ScalingInv, CalmInv
<1>10. FailsOnlyOnReuse'
  BY <1>1, ReuseKept
<1> QED BY <1>5, <1>6, <1>7, <1>8, <1>9, <1>10 DEF ScalingInv

LEMMA ProviderMovesStep ==
  ASSUME ScalingInv, NEW d \in Ordinals, Boots(d) \/ Disappears(d) \/ Breaks(d)
  PROVE  ScalingInv'
<1>1. MachineStates = {"none", "booting", "running", "failed", "deleting"}
  BY DEF MachineStates
<1>2. CASE Boots(d)
  <2>1. ProviderMoves(d, "booting", "running") /\ scaleFaults' = scaleFaults
    BY <1>2 DEF Boots, NoFault
  <2>2. "booting" \in MachineStates /\ "running" \in MachineStates
    BY <1>1
  <2> QED BY <2>1, <2>2, CampaignProviderStep
<1>3. CASE Disappears(d)
  <2>1. ProviderMoves(d, "deleting", "none") /\ scaleFaults' = scaleFaults
    BY <1>3 DEF Disappears, NoFault
  <2>2. "deleting" \in MachineStates /\ "none" \in MachineStates
    BY <1>1
  <2> QED BY <2>1, <2>2, CampaignProviderStep
<1>4. CASE Breaks(d)
  <2>1. scaleFaults' \in 0 .. MaxScaleFaults /\ scaleFaults' # 0
    BY <1>4, ScaleFaultIs DEF Breaks
  <2>2. PICK from \in {"booting", "running"} : ProviderMoves(d, from, "failed")
    BY <1>4 DEF Breaks
  <2> QED BY <1>1, <2>1, <2>2, CampaignProviderStep
<1> QED BY <1>2, <1>3, <1>4

LEMMA ScalingBase == ScalingInit => ScalingInv
<1> SUFFICES ASSUME ScalingInit PROVE ScalingInv
  OBVIOUS
<1>1. /\ FewestReplicas \in 0 .. MostReplicas /\ FewestReplicas \in FewestReplicas .. MostReplicas
      /\ 0 \in 0 .. MostReplicas /\ 0 \in 0 .. MaxDecisions /\ 0 \in 0 .. MaxScaleFaults
      /\ FewestReplicas > 0
  BY ScalingAssumption
<1>2. /\ scaling \in ScaleOperations /\ scaling.status = "succeeded"
      /\ scaling.reached = FewestReplicas /\ scaling.previous = FewestReplicas
  BY <1>1 DEF ScalingInit, ScaleOperations
<1>3. executor \in Executors /\ executor.at = "idle"
  BY RestingIs DEF ScalingInit
<1>4. /\ replicaRow \in [Ordinals -> RowStates] /\ machine \in [Ordinals -> MachineStates]
      /\ \A o \in Ordinals : /\ HasLiveRow(o) <=> o < FewestReplicas
                             /\ Exists(o) <=> o < FewestReplicas
                             /\ machine[o] # "failed"
  BY DEF ScalingInit, HasLiveRow, Exists, RowStates, MachineStates
<1>5. /\ targets = First(FewestReplicas) /\ First(FewestReplicas) \subseteq Ordinals
  BY <1>1, FirstIs DEF ScalingInit
<1>6. ScalingTypeOK
  BY <1>1, <1>2, <1>3, <1>4, <1>5 DEF ScalingInit, ScalingTypeOK
<1>7. AttemptInv /\ ProgressInv /\ FailsOnlyOnReuse
  BY <1>2, <1>3 DEF AttemptInv, ProgressInv, FailsOnlyOnReuse, Unresolved
<1>8. FleetInv
  BY <1>2, <1>4, <1>5 DEF FleetInv
<1>9. CalmInv
  BY <1>1, <1>2, <1>3, <1>4 DEF CalmInv
<1> QED BY <1>6, <1>7, <1>8, <1>9 DEF ScalingInv

LEMMA ScalingStep == ScalingInv /\ [ScalingNext]_scalingVars => ScalingInv'
<1> SUFFICES ASSUME ScalingInv, [ScalingNext]_scalingVars PROVE ScalingInv'
  OBVIOUS
<1>1. CASE UNCHANGED scalingVars
  <2>1. UNCHANGED <<controlVars, scaling, executor, fleetVars, routerVars, scaleFaults>>
    BY <1>1 DEF scalingVars
  <2>2. ScalingTypeOK'
    BY <2>1 DEF ScalingInv, ScalingTypeOK, controlVars, fleetVars, routerVars
  <2> QED BY <2>1, <2>2, ScalingQuiet DEF fleetVars
<1>2. ASSUME NEW c \in Controllers, AutoscalingDeployments(c) \/ ScaleTo(c) PROVE ScalingInv'
  BY <1>2, ReadStep, ScaleToStep
<1>3. CASE CancelScale \/ Retry \/ AttemptsExhausted
  BY <1>3, CancelScaleStep, RetryStep, ExhaustedStep
<1>4. CASE HandlerMoves
  <2>1. ASSUME NEW o \in Ordinals, DeleteMachine(o) \/ MarkReplicaDeleted(o) PROVE ScalingInv'
    BY <2>1, DeleteMachineStep, MarkDeletedStep
  <2>2. CASE Begin \/ EnsureIntent \/ EnsureMachine \/ EnsureRefused
    BY <2>2, BeginStep, EnsureIntentOfReplica, EnsureMachineStep, RefusedStep
  <2>3. CASE ReplicaReady \/ ReplicaStarting \/ BootstrapFailed \/ BuryFailed \/ WrongModel
    BY <2>3, ReadyStep, StartingStep, BootstrapFailedStep, BuryStep, WrongModelStep
  <2>4. CASE ApplyDeployment \/ FencePasses \/ Conclude
    BY <2>4, ApplyStep, FenceStep, ConcludeStep
  <2> QED BY <1>4, <2>1, <2>2, <2>3, <2>4 DEF HandlerMoves
<1>5. CASE InspectTargets \/ PublishWorkers
  BY <1>5, RouterStep
<1>6. ASSUME NEW o \in Ordinals, Boots(o) \/ Disappears(o) \/ Breaks(o) PROVE ScalingInv'
  BY <1>6, ProviderMovesStep
<1> QED BY <1>1, <1>2, <1>3, <1>4, <1>5, <1>6 DEF ScalingNext

\* The invariant holds in every reachable state, for every number of controllers
\* and replicas and however many decisions and faults there are.
THEOREM ScalingInvariance == ScalingSpec => []ScalingInv
  BY ScalingBase, ScalingStep, PTL DEF ScalingSpec

\* Every variable of the autoscaled deployment keeps its type.
THEOREM ScalingTypes == ScalingSpec => []ScalingTypeOK
<1>1. ScalingInv => ScalingTypeOK
  BY DEF ScalingInv
<1> QED BY <1>1, ScalingInvariance, PTL

\* Whatever the provider runs has a live row, and a concluded operation leaves
\* exactly its goal, however many attempts, cancellations and operations before
\* it were abandoned on the way (ensureCloudReplica and converge, cloud.go).
THEOREM FleetStaysExact == ScalingSpec => []FleetIsExact
<1>1. ScalingInv => FleetIsExact
  <2> SUFFICES ASSUME ScalingInv PROVE FleetIsExact
    OBVIOUS
  <2>1. \A o \in Ordinals : Exists(o) => HasLiveRow(o)
    BY DEF ScalingInv, FleetInv
  <2>2. ASSUME scaling.reached > 0
        PROVE  /\ {o \in Ordinals : Exists(o)} = First(scaling.reached)
               /\ {o \in Ordinals : HasLiveRow(o)} = First(scaling.reached)
               /\ targets = First(scaling.reached)
    <3>1. scaling.reached \in 0 .. MostReplicas
      BY Fields DEF ScalingInv
    <3>2. /\ First(scaling.reached) \subseteq Ordinals
          /\ \A o \in Ordinals : o \in First(scaling.reached) <=> o < scaling.reached
      BY <3>1, FirstIs
    <3>3. /\ \A o \in Ordinals : (Exists(o) <=> o < scaling.reached) /\ (HasLiveRow(o) <=> o < scaling.reached)
          /\ targets = First(scaling.reached)
      BY <2>2 DEF ScalingInv, FleetInv
    <3> QED BY <3>2, <3>3
  <2> QED BY <2>1, <2>2 DEF FleetIsExact
<1> QED BY <1>1, ScalingInvariance, PTL

\* While the provider does nothing wrong, an operation fails only because it
\* needs an ordinal whose row a scale-down has deleted (SetReplicaProviderIdentity).
THEOREM ScalingFailsOnlyOnReuse == ScalingSpec => []FailsOnlyOnReuse
<1>1. ScalingInv => FailsOnlyOnReuse
  BY DEF ScalingInv
<1> QED BY <1>1, ScalingInvariance, PTL

-----------------------------------------------------------------------------
(* Campaigns.                                                              *)

(***************************************************************************)
(* Rows move only along the state machine, and no row returns before the   *)
(* measured barrier.  Once every candidate is past it, fewer and fewer are *)
(* compared, and the chosen one stays among them: the ranking, repeated,   *)
(* chooses it again.                                                       *)
(***************************************************************************)

AllMeasured == \A d \in Candidates : candidate[d].state \notin Unmeasured

\* What Winner chooses, as a predicate.
IsWinner(c) ==
  /\ c \in Compared
  /\ c = lab.best \/ (lab.best \notin Compared /\ \A d \in Compared : c <= d)

WinnerInv ==
  \A c \in Candidates : candidate[c].state \in Winning =>
    candidate[c].ranked /\ AllMeasured /\ IsWinner(c)

\* A candidate that was dropped, or cleaned up after it.
Over == TerminalWithoutCleanup \cup {"cleaned"}

\* What a handler has found out holds until its transition is refused.
ChoiceGood(run) ==
  run.pc = "fence" /\ run.from = "ranked" /\ run.to \in {"qualified", "guarding"}
    /\ candidate[run.at].state = "ranked" => AllMeasured /\ IsWinner(run.at)
CleanupGood(run) ==
  run.pc = "drive" /\ run.from \in TerminalWithoutCleanup => candidate[run.at].state \in Over
BarrierGood(run) ==
  run.pc \in {"drive", "fence"} /\ run.from = "ranked" => candidate[run.at].state \notin Unmeasured
SumGood(run) == run.pc = "aggregate" => run.sum \in CampaignStates
Known(run) == ChoiceGood(run) /\ CleanupGood(run) /\ BarrierGood(run) /\ SumGood(run)
AttemptsInv == \A o \in Operations : Known(handler[o].run)

DeletionInv == \A c \in Candidates : child[c].cleanup # "none" => candidate[c].state \in Over

CampaignInv == CampaignTypeOK /\ WinnerInv /\ AttemptsInv /\ DeletionInv

\* The states, listed.
LEMMA StatesAre ==
  /\ CandidateStates = {"proposed", "provisioning", "ready", "measuring", "validating", "ranked",
                        "qualified", "guarding", "guard_passed", "rejected", "inconclusive", "failed",
                        "cancelled", "promoted", "cleaned"}
  /\ Active \subseteq CandidateStates /\ TerminalWithoutCleanup \subseteq CandidateStates
  /\ Over \subseteq CandidateStates
  BY DEF CandidateStates, Active, TerminalWithoutCleanup, Over

\* Where a candidate may go.
LEMMA SuccessorsAre ==
  ASSUME NEW s \in CandidateStates, NEW t \in Successors(s)
  PROVE  /\ t \in CandidateStates \cup {"observed"}
         /\ t \in Unmeasured => s \in Unmeasured
         /\ t \in Winning => s \in {"ranked", "guarding", "qualified", "guard_passed"}
         /\ t \in {"qualified", "guarding"} => s = "ranked"
         /\ t = "ranked" => s \in Unmeasured
         /\ t \in {"guarding", "guard_passed"} => s \in {"ranked", "guarding"}
         /\ s \in Over => t \in Over
  BY StatesAre DEF Successors, Unmeasured, Winning, Over, TerminalWithoutCleanup, WaitingForHuman

LEMMA ActiveMayBeCancelled ==
  ASSUME NEW s \in Active
  PROVE  "cancelled" \in Successors(s) /\ s \notin Over
  BY DEF Active, Successors, WaitingForHuman, Over, TerminalWithoutCleanup

\* How a step may change a row.
RowMoves(c) ==
  \/ candidate'[c] = candidate[c]
  \/ /\ candidate'[c].state \in Successors(candidate[c].state)
     /\ candidate'[c].ranked <=>
          candidate[c].ranked \/ (candidate[c].state = "ranked" /\ candidate'[c].state \notin {"cancelled", "failed"})

LEMMA RowIsTyped ==
  ASSUME CampaignTypeOK, NEW c \in Candidates
  PROVE  /\ candidate[c] \in Rows /\ candidate[c].state \in CandidateStates
         /\ candidate[c].ranked \in BOOLEAN /\ candidate[c].named \in BOOLEAN
  BY DEF CampaignTypeOK, Rows

\* The comparison does not grow any more, and keeps its winner.
LEMMA RowsKeepWinner ==
  ASSUME CampaignTypeOK, CampaignTypeOK', lab' = lab, \A c \in Candidates : RowMoves(c), AllMeasured
  PROVE  /\ AllMeasured' /\ Compared' \subseteq Compared
         /\ \A c \in Candidates : IsWinner(c) /\ c \in Compared' => IsWinner(c)'
<1>1. ASSUME NEW c \in Candidates
      PROVE  /\ candidate'[c].state \notin Unmeasured
             /\ c \in Compared' => c \in Compared
  <2>1. CASE candidate'[c] = candidate[c]
    BY <2>1 DEF AllMeasured, Compared
  <2>2. CASE candidate'[c] # candidate[c]
    <3>0. PICK s, t : s = candidate[c].state /\ t = candidate'[c].state
      OBVIOUS
    <3>1. /\ s \in CandidateStates /\ s \notin Unmeasured /\ t \in Successors(s)
          /\ candidate'[c].ranked => candidate[c].ranked \/ s = "ranked"
      BY <2>2, <3>0, RowIsTyped DEF RowMoves, AllMeasured
    <3>2. /\ t \notin Unmeasured /\ t # "ranked"
          /\ t \in {"guarding", "guard_passed"} => s \in {"ranked", "guarding"}
      BY <3>1, SuccessorsAre
    <3> QED BY <3>0, <3>1, <3>2 DEF Compared
  <2> QED BY <2>1, <2>2
<1>2. Compared' \subseteq Compared
  BY <1>1 DEF Compared
<1>3. AllMeasured'
  BY <1>1 DEF AllMeasured
<1>4. ASSUME NEW c \in Candidates, IsWinner(c), c \in Compared' PROVE IsWinner(c)'
  BY <1>2, <1>4 DEF IsWinner
<1> QED BY <1>2, <1>3, <1>4

LEMMA AttemptIsTyped ==
  ASSUME NEW run \in Attempts
  PROVE  /\ run.at \in Candidates /\ run.pc \in {"load", "drive", "fence", "aggregate"}
         /\ run.mode \in Operations /\ run.phase \in {1, 2} /\ run.boundary \in Nat
         /\ run.waiting \in BOOLEAN /\ run.from \in CandidateStates /\ run.to \in CandidateStates
         /\ run.sum \in CampaignStates \cup {""}
  BY DEF Attempts

\* What is known stays known while rows move along the state machine.
LEMMA KnownKept ==
  ASSUME CampaignTypeOK, CampaignTypeOK', lab' = lab, \A c \in Candidates : RowMoves(c),
         NEW run \in Attempts, Known(run)
  PROVE  Known(run)'
<1>0. PICK c \in Candidates : c = run.at
  BY AttemptIsTyped
<1>1. CASE candidate'[c] = candidate[c]
  <2>1. CleanupGood(run)' /\ BarrierGood(run)' /\ SumGood(run)'
    BY <1>0, <1>1 DEF Known, CleanupGood, BarrierGood, SumGood
  <2>2. ASSUME run.pc = "fence", run.from = "ranked", run.to \in {"qualified", "guarding"},
               candidate'[run.at].state = "ranked"
        PROVE  AllMeasured' /\ IsWinner(run.at)'
    <3>1. AllMeasured /\ IsWinner(c) /\ candidate[c].state = "ranked"
      BY <1>0, <1>1, <2>2 DEF Known, ChoiceGood
    <3>2. c \in Compared'
      BY <1>1, <3>1 DEF Compared
    <3> QED BY <1>0, <3>1, <3>2, RowsKeepWinner
  <2> QED BY <2>1, <2>2 DEF Known, ChoiceGood
<1>2. CASE candidate'[c] # candidate[c]
  <2>0. PICK s, t : s = candidate[c].state /\ t = candidate'[c].state
    OBVIOUS
  <2>1. s \in CandidateStates /\ t \in Successors(s)
    BY <1>2, <2>0, RowIsTyped DEF RowMoves
  <2>2. /\ t \in Unmeasured => s \in Unmeasured
        /\ t = "ranked" => s \in Unmeasured
        /\ s \in Over => t \in Over
    BY <2>1, SuccessorsAre
  <2> QED BY <1>0, <2>0, <2>2 DEF Known, ChoiceGood, CleanupGood, BarrierGood, SumGood
<1> QED BY <1>1, <1>2

\* A row enters the winning states by the choice of the ranking only.
LEMMA WinnerKept ==
  ASSUME CampaignTypeOK, WinnerInv, CampaignTypeOK', lab' = lab, \A c \in Candidates : RowMoves(c),
         \A c \in Candidates : candidate[c].state = "ranked" /\ candidate'[c].state \in {"qualified", "guarding"}
                                 => AllMeasured /\ IsWinner(c)
  PROVE  WinnerInv'
<1> SUFFICES ASSUME NEW c \in Candidates, candidate'[c].state \in Winning
             PROVE  candidate'[c].ranked /\ AllMeasured' /\ IsWinner(c)'
  BY DEF WinnerInv
<1>1. candidate'[c].ranked /\ AllMeasured /\ IsWinner(c)
  <2>1. CASE candidate'[c] = candidate[c]
    BY <2>1 DEF WinnerInv
  <2>2. CASE candidate'[c] # candidate[c]
    <3>0. PICK s, t : s = candidate[c].state /\ t = candidate'[c].state
      OBVIOUS
    <3>1. /\ s \in CandidateStates /\ t \in Successors(s) /\ t \in Winning
          /\ candidate'[c].ranked <=> candidate[c].ranked \/ (s = "ranked" /\ t \notin {"cancelled", "failed"})
      BY <2>2, <3>0, RowIsTyped DEF RowMoves
    <3>2. /\ s \in {"ranked", "guarding", "qualified", "guard_passed"}
          /\ s = "ranked" => t \in {"qualified", "guarding"}
      BY <3>1, SuccessorsAre DEF Winning, Successors, WaitingForHuman, TerminalWithoutCleanup
    <3>3. CASE s = "ranked"
      BY <3>0, <3>1, <3>2, <3>3
    <3>4. CASE s # "ranked"
      <4>1. s \in Winning
        BY <3>2, <3>4 DEF Winning
      <4> QED BY <3>0, <3>1, <4>1 DEF WinnerInv
    <3> QED BY <3>3, <3>4
  <2> QED BY <2>1, <2>2
<1>2. c \in Compared'
  BY <1>1 DEF Compared
<1> QED BY <1>1, <1>2, RowsKeepWinner

\* A step that leaves the rows alone: the handlers have learnt nothing false.
LEMMA RowsUnchanged ==
  ASSUME CampaignInv, CampaignTypeOK', UNCHANGED <<lab, candidate>>, DeletionInv',
         \A o \in Operations : handler'[o].run = handler[o].run \/ Known(handler'[o].run)
  PROVE  CampaignInv'
<1>1. \A c \in Candidates : RowMoves(c)
  BY DEF RowMoves
<1>2. WinnerInv'
  BY DEF CampaignInv, WinnerInv, AllMeasured, IsWinner, Compared
<1>3. ASSUME NEW o \in Operations PROVE Known(handler[o].run)'
  <2>0. PICK run : run = handler'[o].run
    OBVIOUS
  <2>1. Known(run) /\ run \in Attempts
    BY <2>0 DEF CampaignInv, AttemptsInv, CampaignTypeOK, Handlers
  <2>2. Known(run)'
    BY <1>1, <2>1, KnownKept DEF CampaignInv
  <2> QED BY <2>0, <2>2 DEF Known, ChoiceGood, CleanupGood, BarrierGood, SumGood, IsWinner
<1> QED BY <1>2, <1>3 DEF CampaignInv, AttemptsInv

\* An attempt that starts claims nothing.
LEMMA NothingKnown ==
  ASSUME NEW run, run.pc = "load"
  PROVE  Known(run)
  BY DEF Known, ChoiceGood, CleanupGood, BarrierGood, SumGood

\* The handler of one operation goes on with another attempt.
Moves(o, run) ==
  /\ handler' \in [Operations -> Handlers] /\ handler'[o].run = run
  /\ \A p \in Operations : p # o => handler'[p].run = handler[p].run
Fresh(o) == \E run \in Attempts : run.pc = "load" /\ Moves(o, run)

LEMMA HandlerIsTyped ==
  ASSUME CampaignTypeOK, NEW o \in Operations
  PROVE  /\ handler[o] \in Handlers /\ handler[o].run \in Attempts /\ handler[o].cancel \in BOOLEAN
         /\ Run(o) = handler[o].run /\ Run(o) \in Attempts
  BY DEF CampaignTypeOK, Handlers, Run

LEMMA StartingIs ==
  ASSUME NEW mode \in Operations, NEW c \in Candidates
  PROVE  Starting(mode, c) \in Attempts /\ Starting(mode, c).pc = "load"
<1>1. "proposed" \in CandidateStates
  BY StatesAre
<1> QED BY <1>1 DEF Starting, Attempts

LEMMA CandidateOne == 1 \in Candidates /\ \A c \in Candidates : c < CandidateCount => c + 1 \in Candidates
  BY CampaignAssumption DEF Candidates

LEMMA ContinuedIs ==
  ASSUME CampaignTypeOK, NEW o \in Operations, NEW run \in Attempts, Continued(o, run)
  PROVE  Moves(o, run)
<1>1. /\ handler \in [Operations -> Handlers]
      /\ handler' = [handler EXCEPT ![o] = [handler[o] EXCEPT !.run = run]]
  BY DEF CampaignTypeOK, Continued
<1>2. [handler[o] EXCEPT !.run = run] \in Handlers /\ [handler[o] EXCEPT !.run = run].run = run
  BY <1>1 DEF Handlers
<1> QED BY <1>1, <1>2 DEF Moves

LEMMA RestartedIs ==
  ASSUME CampaignTypeOK, NEW o \in Operations
  PROVE  Restarted(o) \in Attempts /\ Restarted(o).pc = "load"
<1>1. "cleanup" \in Operations /\ Run(o).at \in Candidates
  BY HandlerIsTyped, AttemptIsTyped DEF Operations
<1>2. PICK mode \in Operations, c \in Candidates : Restarted(o) = Starting(mode, c)
  BY <1>1, CandidateOne DEF Restarted
<1> QED BY <1>2, StartingIs

LEMMA StartOverIs ==
  ASSUME CampaignTypeOK, NEW o \in Operations, StartOver(o)
  PROVE  Fresh(o)
<1>1. PICK run : run = Restarted(o)
  OBVIOUS
<1>2. run \in Attempts /\ run.pc = "load" /\ Continued(o, run)
  BY <1>1, RestartedIs DEF StartOver
<1> QED BY <1>2, ContinuedIs DEF Fresh

LEMMA FinishedIs ==
  ASSUME CampaignTypeOK, NEW o \in Operations,
         NEW status \in {"succeeded", "failed", "cancelled", "looped"}, Finished(o, status)
  PROVE  Fresh(o)
<1>1. PICK run : run = Restarted(o)
  OBVIOUS
<1>2. run \in Attempts /\ run.pc = "load"
  BY <1>1, RestartedIs
<1>3. /\ handler \in [Operations -> Handlers]
      /\ handler' = [handler EXCEPT ![o] = [handler[o] EXCEPT !.status = status, !.run = run]]
  BY <1>1 DEF CampaignTypeOK, Finished
<1>4. /\ [handler[o] EXCEPT !.status = status, !.run = run] \in Handlers
      /\ [handler[o] EXCEPT !.status = status, !.run = run].run = run
  BY <1>2, <1>3 DEF Handlers
<1>5. Moves(o, run)
  BY <1>3, <1>4 DEF Moves
<1> QED BY <1>2, <1>5 DEF Fresh

LEMMA NextCandidateIs ==
  ASSUME CampaignTypeOK, NEW o \in Operations, NEW run \in Attempts, NextCandidate(o, run)
  PROVE  Fresh(o)
<1>0. /\ run.at \in Candidates /\ run.mode \in Operations /\ run.phase \in {1, 2} /\ run.waiting \in BOOLEAN
  BY AttemptIsTyped
<1>1. CASE run.at < CandidateCount
  <2>0. PICK first : first = Starting(run.mode, run.at + 1)
    OBVIOUS
  <2>1. PICK next : next = [first EXCEPT !.phase = run.phase, !.waiting = run.waiting]
    OBVIOUS
  <2>2. next \in Attempts /\ next.pc = "load"
    <3>1. first \in Attempts /\ first.pc = "load"
      BY <1>0, <1>1, <2>0, CandidateOne, StartingIs
    <3> QED BY <1>0, <2>1, <3>1 DEF Attempts
  <2>3. Continued(o, next)
    BY <1>1, <2>0, <2>1 DEF NextCandidate
  <2> QED BY <2>2, <2>3, ContinuedIs DEF Fresh
<1>2. CASE ~(run.at < CandidateCount) /\ run.mode = "execute" /\ run.phase = 1
  <2>0. PICK first : first = Starting(run.mode, 1)
    OBVIOUS
  <2>1. PICK next : next = [first EXCEPT !.phase = 2]
    OBVIOUS
  <2>2. next \in Attempts /\ next.pc = "load"
    <3>1. first \in Attempts /\ first.pc = "load"
      BY <1>0, <2>0, CandidateOne, StartingIs
    <3> QED BY <2>1, <3>1 DEF Attempts
  <2>3. Continued(o, next)
    BY <1>2, <2>0, <2>1 DEF NextCandidate
  <2> QED BY <2>2, <2>3, ContinuedIs DEF Fresh
<1>3. CASE ~(run.at < CandidateCount) /\ ~(run.mode = "execute" /\ run.phase = 1)
  <2>1. StartOver(o) \/ Finished(o, "cancelled") \/ Finished(o, "succeeded")
    BY <1>3 DEF NextCandidate
  <2> QED BY <2>1, StartOverIs, FinishedIs
<1> QED BY <1>1, <1>2, <1>3

LEMMA TransitionedIs ==
  ASSUME CampaignTypeOK, NEW o \in Operations, NEW run \in Attempts, Transitioned(o, run)
  PROVE  Fresh(o)
<1>0. /\ run.at \in Candidates /\ run.mode \in Operations /\ run.phase \in {1, 2} /\ run.waiting \in BOOLEAN
      /\ run.boundary \in Nat
  BY AttemptIsTyped
<1>1. ASSUME NEW w \in BOOLEAN PROVE [run EXCEPT !.waiting = w] \in Attempts
  BY DEF Attempts
<1>2. PICK w, first, b, next :
        /\ w = (run.waiting \/ (run.phase = 2 /\ run.to \in WaitingForHuman))
        /\ first = Starting(run.mode, run.at) /\ b = run.boundary + 1
        /\ next = [first EXCEPT !.phase = run.phase, !.boundary = b, !.waiting = run.waiting]
  OBVIOUS
<1>3. \/ NextCandidate(o, [run EXCEPT !.waiting = w])
      \/ NextCandidate(o, run) \/ Finished(o, "looped") \/ Continued(o, next)
  BY <1>0, <1>2 DEF Transitioned, Attempts
<1>4. next \in Attempts /\ next.pc = "load" /\ w \in BOOLEAN
  <2>1. b \in Nat
    BY <1>0, <1>2
  <2>2. first \in Attempts /\ first.pc = "load"
    BY <1>0, <1>2, StartingIs
  <2>3. next \in Attempts /\ next.pc = "load"
    BY <1>0, <1>2, <2>1, <2>2 DEF Attempts
  <2> QED BY <1>0, <1>2, <2>3
<1> QED BY <1>1, <1>3, <1>4, NextCandidateIs, FinishedIs, ContinuedIs DEF Fresh

Kinds == {"provision", "cleanup", "promote"}

\* One child operation changes its status.
LEMMA ChildIs ==
  ASSUME CampaignTypeOK, NEW c \in Candidates, NEW kind \in Kinds,
         NEW status \in {"none", "pending", "succeeded", "failed"},
         child' = [child EXCEPT ![c][kind] = status]
  PROVE  /\ child' \in [Candidates -> Children]
         /\ \A d \in Candidates : d # c \/ kind # "cleanup" => child'[d].cleanup = child[d].cleanup
  BY DEF CampaignTypeOK, Children, Kinds

\* What else a step may change.
Others ==
  /\ campaign \in [state : CampaignStates, cancel : BOOLEAN, approval : {"none", "valid", "expired"}]
  /\ child \in [Candidates -> Children]
  /\ alias \in Candidates \cup {NoCandidate}
  /\ campaignFaults \in 0 .. MaxCampaignFaults

\* One handler goes on, with what it knows.
LEMMA MovedStep ==
  ASSUME CampaignInv, NEW o \in Operations, NEW run \in Attempts, Moves(o, run), Known(run),
         UNCHANGED <<intent, lab, candidate>>, Others', DeletionInv'
  PROVE  CampaignInv'
<1>1. CampaignTypeOK'
  BY DEF CampaignInv, CampaignTypeOK, Others, Moves
<1>2. \A p \in Operations : handler'[p].run = handler[p].run \/ Known(handler'[p].run)
  BY DEF Moves
<1> QED BY <1>1, <1>2, RowsUnchanged

LEMMA FreshStep ==
  ASSUME CampaignInv, NEW o \in Operations, Fresh(o),
         UNCHANGED <<intent, lab, candidate>>, Others', DeletionInv'
  PROVE  CampaignInv'
<1>1. PICK run \in Attempts : run.pc = "load" /\ Moves(o, run)
  BY DEF Fresh
<1>2. Known(run)
  BY <1>1, NothingKnown
<1> QED BY <1>1, <1>2, MovedStep

\* The same when the step concerns handlers only.
LEMMA AttemptStep ==
  ASSUME CampaignInv, NEW o \in Operations,
         Fresh(o) \/ \E run \in Attempts : Moves(o, run) /\ Known(run),
         UNCHANGED <<intent, lab, campaign, candidate, child, alias, campaignFaults>>
  PROVE  CampaignInv'
<1>1. Others' /\ DeletionInv'
  BY DEF CampaignInv, CampaignTypeOK, Others, DeletionInv
<1> QED BY <1>1, FreshStep, MovedStep

\* The handler reads the campaign and goes on to its driver, or to a transition
\* that is not a choice.
LEMMA DrivingIs ==
  ASSUME CampaignInv, NEW o \in Operations, Driving(o)
  PROVE  \E run \in Attempts : Moves(o, run) /\ Known(run)
<1>0. PICK old, c, s : old = Run(o) /\ c = old.at /\ s = candidate[c].state
  OBVIOUS
<1>1. old \in Attempts /\ c \in Candidates /\ s \in CandidateStates
  BY <1>0, HandlerIsTyped, AttemptIsTyped, RowIsTyped DEF CampaignInv
<1>2. PICK run : run = [old EXCEPT !.pc = "drive", !.from = s]
  OBVIOUS
<1>3. run \in Attempts /\ run.pc = "drive" /\ run.from = s /\ run.at = c
  BY <1>0, <1>1, <1>2 DEF Attempts
<1>4. Continued(o, run)
  BY <1>0, <1>2 DEF Driving
<1>5. Moves(o, run)
  BY <1>3, <1>4, ContinuedIs DEF CampaignInv
<1>6. Known(run)
  BY <1>0, <1>3 DEF Known, ChoiceGood, CleanupGood, BarrierGood, SumGood, Over, Unmeasured
<1> QED BY <1>3, <1>5, <1>6

LEMMA FencingIs ==
  ASSUME CampaignInv, NEW o \in Operations, NEW to \in {"failed", "cancelled", "provisioning", "measuring"},
         Fencing(o, to)
  PROVE  \E run \in Attempts : Moves(o, run) /\ Known(run)
<1>0. PICK old, c, s : old = Run(o) /\ c = old.at /\ s = candidate[c].state
  OBVIOUS
<1>1. old \in Attempts /\ c \in Candidates /\ s \in CandidateStates /\ to \in CandidateStates
  BY <1>0, HandlerIsTyped, AttemptIsTyped, RowIsTyped, StatesAre DEF CampaignInv
<1>2. PICK run : run = [old EXCEPT !.pc = "fence", !.from = s, !.to = to]
  OBVIOUS
<1>3. run \in Attempts /\ run.pc = "fence" /\ run.from = s /\ run.at = c /\ run.to = to
  BY <1>0, <1>1, <1>2 DEF Attempts
<1>4. Continued(o, run)
  BY <1>0, <1>2 DEF Fencing
<1>5. Moves(o, run)
  BY <1>3, <1>4, ContinuedIs DEF CampaignInv
<1>6. Known(run)
  BY <1>0, <1>3 DEF Known, ChoiceGood, CleanupGood, BarrierGood, SumGood, Unmeasured
<1> QED BY <1>3, <1>5, <1>6

LEMMA LoadsStep ==
  ASSUME CampaignInv, NEW o \in Operations, StepLoads(o) \/ CancelLoads(o)
  PROVE  CampaignInv'
<1>0. PICK run, w : run = Run(o) /\ w = (run.waiting \/ run.phase = 2)
  OBVIOUS
<1>1. run \in Attempts /\ [run EXCEPT !.waiting = w] \in Attempts
  <2>1. run \in Attempts
    BY <1>0, HandlerIsTyped DEF CampaignInv
  <2> QED BY <1>0, <2>1 DEF Attempts
<1>2. UNCHANGED <<intent, lab, campaign, candidate, child, alias, campaignFaults>>
  BY DEF StepLoads, CancelLoads
<1>3. \/ NextCandidate(o, run) \/ NextCandidate(o, [run EXCEPT !.waiting = w])
      \/ StartOver(o) \/ Finished(o, "failed") \/ Driving(o)
      \/ \E to \in {"failed", "cancelled", "provisioning", "measuring"} : Fencing(o, to)
  <2>1. CASE StepLoads(o)
    BY <1>0, <1>1, <2>1 DEF StepLoads, Attempts
  <2>2. CASE CancelLoads(o)
    BY <1>0, <2>2 DEF CancelLoads
  <2> QED BY <2>1, <2>2
<1>4. Fresh(o) \/ \E next \in Attempts : Moves(o, next) /\ Known(next)
  BY <1>1, <1>3, NextCandidateIs, StartOverIs, FinishedIs, DrivingIs, FencingIs DEF CampaignInv
<1> QED BY <1>2, <1>4, AttemptStep

-----------------------------------------------------------------------------
(* Campaigns: the driver and the ranking.                                  *)

LEMMA WinnerIs ==
  ASSUME Compared # {}
  PROVE  IsWinner(Winner)
<1>1. CASE lab.best \in Compared
  BY <1>1 DEF Winner, IsWinner
<1>2. CASE lab.best \notin Compared
  <2>1. Compared \subseteq Nat
    BY CampaignAssumption DEF Compared, Candidates
  <2>2. PICK n \in Compared : \A m \in Compared : n <= m
    BY <2>1, Smallest
  <2>3. Min(Compared) \in Compared /\ \A m \in Compared : Min(Compared) <= m
    BY <2>2, Zenon DEF Min
  <2> QED BY <1>2, <2>3 DEF Winner, IsWinner
<1> QED BY <1>1, <1>2

\* The ranking has one winner.
LEMMA WinnerIsOne ==
  ASSUME NEW c \in Candidates, NEW d \in Candidates, IsWinner(c), IsWinner(d)
  PROVE  c = d
<1>1. c \in Nat /\ d \in Nat
  BY CampaignAssumption DEF Candidates
<1> QED BY <1>1 DEF IsWinner

\* The driver moves a ranked candidate on only when it wins the whole comparison.
LEMMA ChoiceIs ==
  ASSUME CampaignTypeOK, NEW c \in Candidates, NEW to, DriverAnswers(c, "ranked", to),
         to \in {"qualified", "guarding"}
  PROVE  AllMeasured /\ IsWinner(c)
<1>1. RankAnswers(c, to)
  BY DEF DriverAnswers, TerminalWithoutCleanup
<1>2. lab.decision \in {"select", "rejected", "inconclusive"}
  BY CampaignAssumption DEF CampaignTypeOK
<1>3. c \in Compared /\ c = Winner /\ \A d \in Candidates : AtBarrier(d)
  BY <1>1, <1>2 DEF RankAnswers
<1>4. AllMeasured
  BY <1>3 DEF AllMeasured, AtBarrier, Unmeasured
<1> QED BY <1>3, <1>4, WinnerIs

\* What the driver submits: a deletion only for a candidate that was dropped.
ChildrenMove(c, deletes) ==
  /\ child' \in [Candidates -> Children]
  /\ \A d \in Candidates : child'[d].cleanup = child[d].cleanup \/ (d = c /\ deletes)

LEMMA SameChildren ==
  ASSUME CampaignTypeOK, NEW c \in Candidates, NEW deletes, UNCHANGED child
  PROVE  ChildrenMove(c, deletes)
  BY DEF CampaignTypeOK, ChildrenMove

LEMMA AdoptIs ==
  ASSUME CampaignTypeOK, NEW c \in Candidates, NEW kind \in Kinds, NEW answer, Adopt(c, kind, answer)
  PROVE  ChildrenMove(c, kind = "cleanup")
<1>1. CASE UNCHANGED child
  BY <1>1, SameChildren
<1>2. CASE Submitted(c, kind)
  BY <1>2, ChildIs DEF Submitted, ChildrenMove
<1> QED BY <1>1, <1>2 DEF Adopt

LEMMA DriverIs ==
  ASSUME CampaignTypeOK, NEW c \in Candidates, NEW from, NEW to, DriverAnswers(c, from, to)
  PROVE  ChildrenMove(c, from \in TerminalWithoutCleanup)
<1>0. "provision" \in Kinds /\ "cleanup" \in Kinds
  BY DEF Kinds
<1>1. CASE UNCHANGED child
  BY <1>1, SameChildren
<1>2. CASE \E answer : Adopt(c, "provision", answer)
  BY <1>0, <1>2, AdoptIs DEF ChildrenMove
<1>3. CASE from \in TerminalWithoutCleanup /\ \E answer : Adopt(c, "cleanup", answer)
  BY <1>0, <1>3, AdoptIs DEF ChildrenMove
<1>4. UNCHANGED child \/ (\E answer : Adopt(c, "provision", answer))
        \/ (from \in TerminalWithoutCleanup /\ \E answer : Adopt(c, "cleanup", answer))
  BY DEF DriverAnswers, ProvisionAnswers, RankAnswers, CleanupAnswers
<1> QED BY <1>1, <1>2, <1>3, <1>4

\* Only what a dropped candidate left behind is deleted.
LEMMA DeletionKept ==
  ASSUME CampaignInv, NEW c \in Candidates, NEW deletes, ChildrenMove(c, deletes), UNCHANGED candidate,
         deletes => candidate[c].state \in Over
  PROVE  DeletionInv'
  BY DEF CampaignInv, DeletionInv, ChildrenMove

LEMMA DrivesStep ==
  ASSUME CampaignInv, NEW o \in Operations, StepDrives(o)
  PROVE  CampaignInv'
<1>0. PICK run, c, from : run = Run(o) /\ c = run.at /\ from = run.from
  OBVIOUS
<1>1. /\ run \in Attempts /\ c \in Candidates /\ from \in CandidateStates /\ Known(run)
      /\ CampaignTypeOK
  BY <1>0, HandlerIsTyped, AttemptIsTyped DEF CampaignInv, AttemptsInv
<1>2. PICK to \in Active \cup TerminalWithoutCleanup \cup {"cleaned", "retry", "fail"} :
        /\ run.pc = "drive" /\ DriverAnswers(c, from, to)
        /\ \/ StartOver(o) \/ Finished(o, "failed")
           \/ to \notin {"retry", "fail"} /\ Continued(o, [run EXCEPT !.pc = "fence", !.to = to])
        /\ UNCHANGED <<intent, lab, campaign, candidate, alias, campaignFaults>>
  BY <1>0 DEF StepDrives, At
<1>3. ChildrenMove(c, from \in TerminalWithoutCleanup)
  BY <1>1, <1>2, DriverIs
<1>4. from \in TerminalWithoutCleanup => candidate[c].state \in Over
  BY <1>0, <1>1, <1>2 DEF Known, CleanupGood
<1>5. DeletionInv'
  BY <1>1, <1>2, <1>3, <1>4, DeletionKept
<1>6. Others'
  BY <1>1, <1>2, <1>3 DEF Others, CampaignTypeOK, ChildrenMove
<1>7. CASE StartOver(o) \/ Finished(o, "failed")
  <2>1. Fresh(o)
    BY <1>1, <1>7, StartOverIs, FinishedIs
  <2> QED BY <1>2, <1>5, <1>6, <2>1, FreshStep
<1>8. CASE to \notin {"retry", "fail"} /\ Continued(o, [run EXCEPT !.pc = "fence", !.to = to])
  <2>1. PICK next : next = [run EXCEPT !.pc = "fence", !.to = to]
    OBVIOUS
  <2>2. to \in CandidateStates
    BY <1>8, StatesAre DEF Active, TerminalWithoutCleanup
  <2>3. /\ next \in Attempts /\ next.pc = "fence" /\ next.from = from /\ next.to = to /\ next.at = c
    BY <1>0, <1>1, <2>1, <2>2 DEF Attempts
  <2>4. Moves(o, next)
    BY <1>1, <1>8, <2>1, <2>3, ContinuedIs
  <2>5. BarrierGood(next)
    BY <1>0, <1>1, <1>2, <2>3 DEF Known, BarrierGood
  <2>6. ChoiceGood(next)
    BY <1>1, <1>2, <2>3, ChoiceIs DEF ChoiceGood
  <2>7. Known(next)
    BY <2>3, <2>5, <2>6 DEF Known, CleanupGood, SumGood
  <2> QED BY <1>2, <1>5, <1>6, <2>3, <2>4, <2>7, MovedStep
<1> QED BY <1>2, <1>7, <1>8

LEMMA ActivationLoadsStep ==
  ASSUME CampaignInv, ActivationLoads
  PROVE  CampaignInv'
<1>1. "activate" \in Operations
  BY DEF Operations
<1>2. Fresh("activate") \/ \E next \in Attempts : Moves("activate", next) /\ Known(next)
  BY <1>1, FinishedIs, DrivingIs DEF CampaignInv, ActivationLoads
<1> QED BY <1>1, <1>2, AttemptStep DEF ActivationLoads

LEMMA PublishesStep ==
  ASSUME CampaignInv, ActivationPublishes
  PROVE  CampaignInv'
<1> DEFINE o == "activate"
<1>0. PICK run, c, from : run = Run(o) /\ c = run.at /\ from = run.from
  OBVIOUS
<1>1. /\ o \in Operations /\ run \in Attempts /\ c \in Candidates /\ from \in CandidateStates /\ Known(run)
      /\ CampaignTypeOK
  <2>1. o \in Operations
    BY DEF Operations
  <2> QED BY <1>0, <2>1, HandlerIsTyped, AttemptIsTyped DEF CampaignInv, AttemptsInv
<1>2. PICK to \in {"promoted", "retry", "fail"} :
        /\ run.pc = "drive"
        /\ PromoteAnswers(c, to) \/ PublishAnswers(c, to)
        /\ \/ StartOver(o) \/ Finished(o, "failed")
           \/ to = "promoted" /\ Continued(o, [run EXCEPT !.pc = "fence", !.to = to])
        /\ UNCHANGED <<intent, lab, campaign, candidate, campaignFaults>>
  BY <1>0 DEF ActivationPublishes, At
<1>3. ChildrenMove(c, FALSE) /\ alias' \in {alias, c}
  <2>1. CASE PromoteAnswers(c, to)
    <3>1. "promote" \in Kinds /\ "promote" # "cleanup"
      BY DEF Kinds
    <3>2. PICK answer : Adopt(c, "promote", answer)
      BY <2>1 DEF PromoteAnswers
    <3> QED BY <1>1, <2>1, <3>1, <3>2, AdoptIs DEF ChildrenMove, PromoteAnswers
  <2>2. CASE PublishAnswers(c, to)
    <3>1. UNCHANGED child /\ alias' \in {alias, c}
      BY <2>2 DEF PublishAnswers
    <3> QED BY <1>1, <3>1, SameChildren
  <2> QED BY <1>2, <2>1, <2>2
<1>5. DeletionInv'
  BY <1>1, <1>2, <1>3, DeletionKept
<1>6. Others'
  BY <1>1, <1>2, <1>3 DEF Others, CampaignTypeOK, ChildrenMove
<1>7. CASE StartOver(o) \/ Finished(o, "failed")
  <2>1. Fresh(o)
    BY <1>1, <1>7, StartOverIs, FinishedIs
  <2> QED BY <1>1, <1>2, <1>5, <1>6, <2>1, FreshStep
<1>8. CASE to = "promoted" /\ Continued(o, [run EXCEPT !.pc = "fence", !.to = to])
  <2>1. PICK next : next = [run EXCEPT !.pc = "fence", !.to = to]
    OBVIOUS
  <2>2. to \in CandidateStates
    BY <1>8, StatesAre
  <2>3. /\ next \in Attempts /\ next.pc = "fence" /\ next.from = from /\ next.to = to /\ next.at = c
    BY <1>0, <1>1, <2>1, <2>2 DEF Attempts
  <2>4. Moves(o, next)
    BY <1>1, <1>8, <2>1, <2>3, ContinuedIs
  <2>5. BarrierGood(next)
    BY <1>0, <1>1, <1>2, <2>3 DEF Known, BarrierGood
  <2>7. Known(next)
    BY <1>8, <2>3, <2>5 DEF Known, ChoiceGood, CleanupGood, SumGood
  <2> QED BY <1>1, <1>2, <1>5, <1>6, <2>3, <2>4, <2>7, MovedStep
<1> QED BY <1>2, <1>7, <1>8

-----------------------------------------------------------------------------
(* Campaigns: the fenced transition.                                       *)

\* Rows move along the state machine; a handler is at its summary afterwards.
LEMMA RowsStep ==
  ASSUME CampaignInv, CampaignTypeOK', lab' = lab, child' = child, \A c \in Candidates : RowMoves(c),
         \A c \in Candidates : candidate[c].state = "ranked" /\ candidate'[c].state \in {"qualified", "guarding"}
                                 => AllMeasured /\ IsWinner(c),
         \A o \in Operations : \/ handler'[o].run = handler[o].run
                               \/ handler'[o].run.pc = "aggregate" /\ handler'[o].run.sum \in CampaignStates
  PROVE  CampaignInv'
<1>1. WinnerInv'
  BY WinnerKept DEF CampaignInv
<1>2. ASSUME NEW o \in Operations PROVE Known(handler[o].run)'
  <2>0. PICK run : run = handler'[o].run
    OBVIOUS
  <2>1. CASE run = handler[o].run
    <3>1. Known(run) /\ run \in Attempts
      BY <2>1, HandlerIsTyped DEF CampaignInv, AttemptsInv
    <3>2. Known(run)'
      BY <3>1, KnownKept DEF CampaignInv
    <3> QED BY <2>0, <3>2 DEF Known, ChoiceGood, CleanupGood, BarrierGood, SumGood, IsWinner
  <2>2. CASE run # handler[o].run
    BY <2>0, <2>2 DEF Known, ChoiceGood, CleanupGood, BarrierGood, SumGood
  <2> QED BY <2>1, <2>2
<1>3. DeletionInv'
  <2> SUFFICES ASSUME NEW c \in Candidates, child[c].cleanup # "none"
               PROVE  candidate'[c].state \in Over
    BY DEF DeletionInv
  <2>0. PICK s, t : s = candidate[c].state /\ t = candidate'[c].state
    OBVIOUS
  <2>1. s \in Over /\ s \in CandidateStates /\ (t = s \/ t \in Successors(s))
    BY <2>0, RowIsTyped DEF CampaignInv, DeletionInv, RowMoves
  <2> QED BY <2>0, <2>1, SuccessorsAre
<1> QED BY <1>1, <1>2, <1>3 DEF CampaignInv, AttemptsInv

LEMMA AggregateIs ==
  ASSUME NEW rows
  PROVE  AggregateState(rows) \in CampaignStates
  BY DEF AggregateState, CampaignStates

LEMMA UpdatedIs ==
  ASSUME NEW row \in Rows, NEW from, NEW to \in CandidateStates
  PROVE  /\ Updated(row, from, to) \in Rows /\ Updated(row, from, to).state = to
         /\ Updated(row, from, to).ranked <=> row.ranked \/ (from = "ranked" /\ to \notin {"cancelled", "failed"})
  BY DEF Updated, Rows

LEMMA TransitionStep ==
  ASSUME CampaignInv, NEW o \in Operations, Fence(o)
  PROVE  CampaignInv'
<1>0. PICK run, c, from, to : run = Run(o) /\ c = run.at /\ from = run.from /\ to = run.to
  OBVIOUS
<1>1. /\ run \in Attempts /\ c \in Candidates /\ from \in CandidateStates /\ to \in CandidateStates
      /\ Known(run) /\ CampaignTypeOK
  BY <1>0, HandlerIsTyped, AttemptIsTyped DEF CampaignInv, AttemptsInv
<1>2. PICK rows : rows = [candidate EXCEPT ![c] = Updated(candidate[c], from, to)]
  OBVIOUS
<1>3. /\ run.pc = "fence" /\ UNCHANGED <<intent, lab, campaign, child, alias, campaignFaults>>
      /\ \/ /\ candidate[c].state = from /\ to \in Successors(from)
            /\ candidate' = rows
            /\ Continued(o, [run EXCEPT !.pc = "aggregate", !.sum = AggregateState(rows)])
         \/ UNCHANGED candidate /\ (StartOver(o) \/ Finished(o, "succeeded"))
  BY <1>0, <1>2 DEF Fence, At, StillIn
<1>4. CASE UNCHANGED candidate /\ (StartOver(o) \/ Finished(o, "succeeded"))
  <2>1. Fresh(o)
    BY <1>1, <1>4, StartOverIs, FinishedIs
  <2> QED BY <1>3, <1>4, <2>1, AttemptStep
<1>5. CASE /\ candidate[c].state = from /\ to \in Successors(from)
           /\ candidate' = rows
           /\ Continued(o, [run EXCEPT !.pc = "aggregate", !.sum = AggregateState(rows)])
  <2>1. PICK sum \in CampaignStates : sum = AggregateState(rows)
    BY AggregateIs
  <2>2. PICK next : next = [run EXCEPT !.pc = "aggregate", !.sum = sum]
    OBVIOUS
  <2>3. next \in Attempts /\ next.pc = "aggregate" /\ next.sum = sum
    BY <1>1, <2>1, <2>2 DEF Attempts
  <2>4. Moves(o, next)
    BY <1>1, <1>5, <2>1, <2>2, <2>3, ContinuedIs
  <2>5. PICK new : new = Updated(candidate[c], from, to)
    OBVIOUS
  <2>6. /\ new \in Rows /\ new.state = to
        /\ new.ranked <=> candidate[c].ranked \/ (from = "ranked" /\ to \notin {"cancelled", "failed"})
    BY <1>1, <2>5, UpdatedIs, RowIsTyped
  <2>7. /\ candidate' \in [Candidates -> Rows] /\ candidate'[c] = new
        /\ \A d \in Candidates : d # c => candidate'[d] = candidate[d]
    BY <1>1, <1>2, <1>5, <2>5, <2>6 DEF CampaignTypeOK
  <2>8. CampaignTypeOK'
    BY <1>1, <1>3, <2>4, <2>7 DEF CampaignTypeOK, Moves
  <2>9. \A d \in Candidates : RowMoves(d)
    BY <1>5, <2>6, <2>7 DEF RowMoves
  <2>10. ASSUME NEW d \in Candidates, candidate[d].state = "ranked", candidate'[d].state \in {"qualified", "guarding"}
         PROVE  AllMeasured /\ IsWinner(d)
    <3>1. d = c /\ from = "ranked" /\ to \in {"qualified", "guarding"}
      BY <1>5, <2>6, <2>7, <2>10
    <3> QED BY <1>0, <1>1, <1>3, <2>10, <3>1 DEF Known, ChoiceGood
  <2>11. \A p \in Operations : \/ handler'[p].run = handler[p].run
                               \/ handler'[p].run.pc = "aggregate" /\ handler'[p].run.sum \in CampaignStates
    BY <2>1, <2>3, <2>4 DEF Moves
  <2> QED BY <1>3, <2>8, <2>9, <2>10, <2>11, RowsStep
<1> QED BY <1>3, <1>4, <1>5

LEMMA AggregateStep ==
  ASSUME CampaignInv, NEW o \in Operations, Aggregate(o)
  PROVE  CampaignInv'
<1>0. PICK run : run = Run(o)
  OBVIOUS
<1>1. run \in Attempts /\ Known(run) /\ CampaignTypeOK
  BY <1>0, HandlerIsTyped DEF CampaignInv, AttemptsInv
<1>2. /\ run.pc = "aggregate" /\ campaign' = [campaign EXCEPT !.state = run.sum]
      /\ Finished(o, "succeeded") \/ Transitioned(o, run)
      /\ UNCHANGED <<intent, lab, candidate, child, alias, campaignFaults>>
  BY <1>0 DEF Aggregate, At
<1>3. Fresh(o)
  BY <1>1, <1>2, FinishedIs, TransitionedIs
<1>4. run.sum \in CampaignStates
  BY <1>1, <1>2 DEF Known, SumGood
<1>5. Others' /\ DeletionInv'
  BY <1>1, <1>2, <1>4 DEF Others, CampaignTypeOK, DeletionInv, CampaignInv
<1> QED BY <1>2, <1>3, <1>5, FreshStep

-----------------------------------------------------------------------------
(* Campaigns: customers, workers and child operations.                     *)

\* The campaign's row changes, and nothing else.
LEMMA CampaignRowStep ==
  ASSUME CampaignInv, ApproveOptimizationCampaign \/ ApprovalExpires
  PROVE  CampaignInv'
<1>1. CampaignTypeOK'
  BY DEF CampaignInv, CampaignTypeOK, ApproveOptimizationCampaign, ApprovalExpires, CampaignStates
<1>2. DeletionInv'
  BY DEF CampaignInv, DeletionInv, ApproveOptimizationCampaign, ApprovalExpires
<1>3. UNCHANGED <<lab, candidate, handler>>
  BY DEF ApproveOptimizationCampaign, ApprovalExpires
<1> QED BY <1>1, <1>2, <1>3, RowsUnchanged

\* An operation is queued or asked to stop; its handler is where it was.
LEMMA QueueStep ==
  ASSUME CampaignInv, EnqueueExecute \/ EnqueueCleanup \/ RequestExecuteCancel
  PROVE  CampaignInv'
<1>1. PICK o \in Operations :
        \/ handler' = [handler EXCEPT ![o] = [handler[o] EXCEPT !.status = "running"]]
        \/ handler' = [handler EXCEPT ![o] = [handler[o] EXCEPT !.cancel = TRUE]]
  BY DEF EnqueueExecute, EnqueueCleanup, RequestExecuteCancel, Operations
<1>2. PICK old : old = handler[o]
  OBVIOUS
<1>3. old \in Handlers
  BY <1>2, HandlerIsTyped DEF CampaignInv
<1>4. /\ [old EXCEPT !.status = "running"] \in Handlers /\ [old EXCEPT !.status = "running"].run = old.run
      /\ [old EXCEPT !.cancel = TRUE] \in Handlers /\ [old EXCEPT !.cancel = TRUE].run = old.run
  BY <1>3 DEF Handlers
<1>5. handler \in [Operations -> Handlers]
  BY DEF CampaignInv, CampaignTypeOK
<1>6. handler' \in [Operations -> Handlers] /\ \A p \in Operations : handler'[p].run = handler[p].run
  BY <1>1, <1>2, <1>4, <1>5
<1>7. UNCHANGED <<intent, lab, campaign, candidate, child, alias, campaignFaults>>
  BY DEF EnqueueExecute, EnqueueCleanup, RequestExecuteCancel
<1>8. CampaignTypeOK' /\ DeletionInv'
  BY <1>6, <1>7 DEF CampaignInv, CampaignTypeOK, DeletionInv
<1> QED BY <1>6, <1>7, <1>8, RowsUnchanged

LEMMA ActivateStep ==
  ASSUME CampaignInv, NEW c \in Candidates, ActivateOptimizationCampaign(c)
  PROVE  CampaignInv'
<1>1. PICK o, run, old : o = "activate" /\ run = Starting("activate", c) /\ old = handler[o]
  OBVIOUS
<1>2. o \in Operations /\ run \in Attempts /\ run.pc = "load" /\ old \in Handlers
  BY <1>1, StartingIs, HandlerIsTyped DEF CampaignInv, Operations
<1>3. /\ [old EXCEPT !.status = "running", !.run = run] \in Handlers
      /\ [old EXCEPT !.status = "running", !.run = run].run = run
  BY <1>2 DEF Handlers
<1>4. /\ handler \in [Operations -> Handlers]
      /\ handler' = [handler EXCEPT ![o] = [old EXCEPT !.status = "running", !.run = run]]
  BY <1>1 DEF CampaignInv, CampaignTypeOK, ActivateOptimizationCampaign
<1>5. Fresh(o)
  BY <1>2, <1>3, <1>4 DEF Fresh, Moves
<1> QED BY <1>2, <1>5, AttemptStep DEF ActivateOptimizationCampaign

\* Cancelling drops every candidate that is still active.
LEMMA CancelStep ==
  ASSUME CampaignInv, CancelOptimizationCampaign
  PROVE  CampaignInv'
<1>1. CampaignTypeOK /\ "cancelled" \in CandidateStates
  BY StatesAre DEF CampaignInv
<1>2. ASSUME NEW c \in Candidates
      PROVE  candidate'[c] \in Rows /\ RowMoves(c) /\ candidate'[c].state \in {candidate[c].state, "cancelled"}
  <2>0. PICK row : row = candidate[c]
    OBVIOUS
  <2>1. row \in Rows
    BY <1>1, <2>0, RowIsTyped
  <2>2. CASE row.state \in Active
    <3>1. candidate'[c] = [row EXCEPT !.state = "cancelled"]
      BY <2>0, <2>2 DEF CancelOptimizationCampaign
    <3>2. /\ [row EXCEPT !.state = "cancelled"] \in Rows /\ [row EXCEPT !.state = "cancelled"].state = "cancelled"
          /\ [row EXCEPT !.state = "cancelled"].ranked = row.ranked
      BY <1>1, <2>1 DEF Rows
    <3>3. "cancelled" \in Successors(row.state)
      BY <2>2, ActiveMayBeCancelled
    <3> QED BY <2>0, <3>1, <3>2, <3>3 DEF RowMoves
  <2>3. CASE row.state \notin Active
    BY <2>0, <2>1, <2>3 DEF CancelOptimizationCampaign, RowMoves
  <2> QED BY <2>2, <2>3
<1>3. candidate' \in [Candidates -> Rows]
  BY <1>2 DEF CancelOptimizationCampaign
<1>4. /\ campaign' \in [state : CampaignStates, cancel : BOOLEAN, approval : {"none", "valid", "expired"}]
      /\ UNCHANGED <<intent, lab, child, alias, handler, campaignFaults>>
  BY <1>1 DEF CampaignTypeOK, CancelOptimizationCampaign, CampaignStates
<1>5. CampaignTypeOK'
  BY <1>1, <1>3, <1>4 DEF CampaignTypeOK
<1>6. \A c \in Candidates : ~(candidate[c].state = "ranked" /\ candidate'[c].state \in {"qualified", "guarding"})
  BY <1>2
<1> QED BY <1>2, <1>4, <1>5, <1>6, RowsStep

LEMMA StopsStep ==
  ASSUME CampaignInv, NEW o \in Operations, CampaignStops(o)
  PROVE  CampaignInv'
<1>1. Fresh(o) /\ UNCHANGED <<intent, lab, campaign, candidate, child, alias>>
  BY StartOverIs DEF CampaignInv, CampaignStops
<1>2. campaignFaults' \in 0 .. MaxCampaignFaults
  BY CampaignAssumption DEF CampaignInv, CampaignTypeOK, CampaignStops
<1>3. Others' /\ DeletionInv'
  BY <1>1, <1>2 DEF CampaignInv, CampaignTypeOK, Others, DeletionInv
<1> QED BY <1>1, <1>3, FreshStep

LEMMA ChildEndsStep ==
  ASSUME CampaignInv, NEW c \in Candidates, NEW kind \in Kinds, ChildEnds(c, kind)
  PROVE  CampaignInv'
<1>1. PICK status \in {"succeeded", "failed"} : child' = [child EXCEPT ![c][kind] = status]
  BY DEF ChildEnds
<1>2. ChildrenMove(c, kind = "cleanup")
  BY <1>1, ChildIs DEF CampaignInv, ChildrenMove
<1>3. UNCHANGED <<intent, lab, campaign, candidate, alias, handler>> /\ child[c][kind] = "pending"
  BY DEF ChildEnds
<1>4. DeletionInv'
  BY <1>2, <1>3, DeletionKept DEF CampaignInv, DeletionInv
<1>5. campaignFaults' \in 0 .. MaxCampaignFaults
  BY CampaignAssumption DEF CampaignInv, CampaignTypeOK, ChildEnds
<1>6. CampaignTypeOK'
  BY <1>2, <1>3, <1>5 DEF CampaignInv, CampaignTypeOK, ChildrenMove
<1> QED BY <1>3, <1>4, <1>6, RowsUnchanged

-----------------------------------------------------------------------------
(* Campaigns: the theorems.                                                *)

LEMMA CampaignStarts ==
  ASSUME CampaignInit
  PROVE  CampaignInv
<1>1. /\ \A c \in Candidates : candidate[c] = [state |-> "proposed", named |-> FALSE, ranked |-> FALSE]
      /\ \A c \in Candidates : child[c] = [provision |-> "none", cleanup |-> "none", promote |-> "none"]
      /\ \A o \in Operations : handler[o] = [status |-> "none", cancel |-> FALSE, run |-> Starting(o, 1)]
  BY DEF CampaignInit
<1>2. "proposed" \in CandidateStates
  BY StatesAre
<1>3. candidate \in [Candidates -> Rows]
  BY <1>1, <1>2 DEF CampaignInit, Rows
<1>4. child \in [Candidates -> Children]
  BY <1>1 DEF CampaignInit, Children
<1>5. ASSUME NEW o \in Operations PROVE handler[o] \in Handlers /\ Known(handler[o].run)
  <2>1. PICK run : run = Starting(o, 1)
    OBVIOUS
  <2>2. run \in Attempts /\ run.pc = "load"
    BY <2>1, CandidateOne, StartingIs
  <2>3. handler[o] = [status |-> "none", cancel |-> FALSE, run |-> run]
    BY <1>1, <2>1
  <2>4. handler[o] \in Handlers /\ handler[o].run = run
    BY <2>2, <2>3 DEF Handlers
  <2> QED BY <2>2, <2>4, NothingKnown
<1>6. handler \in [Operations -> Handlers]
  BY <1>5 DEF CampaignInit
<1>7. CampaignTypeOK
  BY <1>3, <1>4, <1>6, CampaignAssumption DEF CampaignInit, CampaignTypeOK, CampaignStates
<1>8. WinnerInv /\ DeletionInv
  BY <1>1 DEF WinnerInv, DeletionInv, Winning
<1> QED BY <1>5, <1>7, <1>8 DEF CampaignInv, AttemptsInv

LEMMA CampaignStays ==
  ASSUME CampaignInv, [CampaignNext]_campaignVars
  PROVE  CampaignInv'
<1>1. CASE UNCHANGED campaignVars
  <2>1. UNCHANGED <<intent, lab, campaign, candidate, child, alias, handler, campaignFaults>>
    BY <1>1 DEF campaignVars
  <2>2. CampaignTypeOK' /\ DeletionInv'
    BY <2>1 DEF CampaignInv, CampaignTypeOK, DeletionInv
  <2> QED BY <2>1, <2>2, RowsUnchanged
<1>2. CASE ApproveOptimizationCampaign \/ ApprovalExpires
  BY <1>2, CampaignRowStep
<1>3. CASE EnqueueExecute \/ EnqueueCleanup \/ RequestExecuteCancel
  BY <1>3, QueueStep
<1>4. CASE CancelOptimizationCampaign
  BY <1>4, CancelStep
<1>5. CASE \E c \in Candidates : ActivateOptimizationCampaign(c)
  BY <1>5, ActivateStep
<1>6. ASSUME NEW o \in Operations, CampaignStep(o) \/ CampaignStops(o)
      PROVE  CampaignInv'
  <2>1. CASE StepLoads(o) \/ CancelLoads(o)
    BY <2>1, LoadsStep
  <2>2. CASE StepDrives(o)
    BY <2>2, DrivesStep
  <2>3. CASE Fence(o)
    BY <2>3, TransitionStep
  <2>4. CASE Aggregate(o)
    BY <2>4, AggregateStep
  <2>5. CASE ActivationLoads
    BY <2>5, ActivationLoadsStep
  <2>6. CASE ActivationPublishes
    BY <2>6, PublishesStep
  <2>7. CASE CampaignStops(o)
    BY <2>7, StopsStep
  <2> QED BY <1>6, <2>1, <2>2, <2>3, <2>4, <2>5, <2>6, <2>7 DEF CampaignStep
<1>7. CASE \E c \in Candidates, kind \in Kinds : ChildEnds(c, kind)
  BY <1>7, ChildEndsStep
<1> QED BY <1>1, <1>2, <1>3, <1>4, <1>5, <1>6, <1>7 DEF CampaignNext, Kinds

\* The inductive invariant of a campaign: rows move along the state machine, a
\* handler that is about to choose a candidate has compared all of them, and one
\* that is about to delete a deployment has seen its candidate dropped.
THEOREM CampaignInvariance == CampaignSpec => []CampaignInv
<1>1. CampaignInit => CampaignInv
  BY CampaignStarts
<1>2. CampaignInv /\ [CampaignNext]_campaignVars => CampaignInv'
  BY CampaignStays
<1> QED BY <1>1, <1>2, PTL DEF CampaignSpec

\* The types of a campaign's rows, handlers and child operations.
THEOREM CampaignTypes == CampaignSpec => []CampaignTypeOK
<1>1. CampaignInv => CampaignTypeOK
  BY DEF CampaignInv
<1> QED BY <1>1, CampaignInvariance, PTL

\* The ranking barrier, for any number of candidates and of interruptions: a
\* candidate is chosen when all have been measured or dropped, and only one is.
THEOREM OneWinnerIsMeasured == CampaignSpec => []OneMeasuredWinner
<1>1. CampaignInv => OneMeasuredWinner
  <2> SUFFICES ASSUME CampaignInv, NEW c \in Candidates, candidate[c].state \in Winning,
                      NEW d \in Candidates \ {c}
               PROVE  candidate[d].state \notin Unmeasured \cup Winning
    BY DEF OneMeasuredWinner
  <2>1. AllMeasured /\ IsWinner(c) /\ (candidate[d].state \in Winning => IsWinner(d))
    BY DEF CampaignInv, WinnerInv
  <2>2. ~IsWinner(d)
    BY <2>1, WinnerIsOne
  <2> QED BY <2>1, <2>2 DEF AllMeasured
<1> QED BY <1>1, CampaignInvariance, PTL

\* A promoted candidate's deployment is never submitted for deletion, however
\* execution, cleanup, cancellation and activation race for its row.
THEOREM PromotedKeepsDeployment == CampaignSpec => []PromotedKeepsItsDeployment
<1>1. CampaignInv => PromotedKeepsItsDeployment
  <2>1. "promoted" \notin Over
    BY DEF Over, TerminalWithoutCleanup
  <2> QED BY <2>1 DEF CampaignInv, DeletionInv, PromotedKeepsItsDeployment
<1> QED BY <1>1, CampaignInvariance, PTL

=============================================================================
