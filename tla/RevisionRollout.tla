--------------------------- MODULE RevisionRollout ---------------------------
(***************************************************************************)
(* The rollout of revisions of one elastic deployment: the revision rows   *)
(* and their transitions (store/revisions.go), the Release Guard's         *)
(* evaluations and its monitor after a promotion (store/release_guard.go,  *)
(* store/release_monitor.go), the replica rows (store/replicas.go), and    *)
(* the operations that create, provision, promote, reject and roll back a  *)
(* candidate (workflows/rollout.go, workflows/cloud.go).                   *)
(*                                                                         *)
(* A deployment has one unresolved operation at a time.  Its handler is    *)
(* retried from the start after a retryable error or a crash; between any  *)
(* two of its calls the route reconciler, the provider, the Release Guard, *)
(* an edit of the policy and a request to cancel may take steps.  The      *)
(* first revision was made by the converge workflow; a behaviour begins    *)
(* with it, or with a later one that replaced it and those between.        *)
(***************************************************************************)
EXTENDS Integers, Sequences, FiniteSets

CONSTANTS
  MaxRevision,    \* bound on revisions
  FirstActives,   \* revisions that may be active at the start; the earlier ones were replaced in turn
  MinReplicas,    \* min_replicas of every revision
  MaxOperations,  \* bound on operations
  MaxRolloutFaults       \* bound on crashes, failed calls and failed bootstraps

ASSUME RolloutConstants ==
  /\ MaxRevision \in Nat \ {0}
  /\ FirstActives \subseteq 1..MaxRevision
  /\ MinReplicas \in Nat \ {0}
  /\ MaxOperations \in Nat
  /\ MaxRolloutFaults \in Nat

VARIABLES
  revision,    \* deployment_revisions.status
  past,        \* the superseded revisions by the time they were completed
  deployment,  \* active and candidate revision, and the routed targets
  replica,     \* replicas.lifecycle_state; healthy means ready, active or draining
  target,      \* the replicas that have a row in targets
  verdict,     \* the latest Release Guard evaluation of each revision
  monitor,     \* the post-promotion monitor of each revision
  autoRollback,\* the policy: enabled automatic rollback
  instance,    \* the provider's instances
  routerGeneration,  \* the worker set of the recorded router generation
  inFlight,    \* whether requests still use a retired generation
  operation,   \* the unresolved operation and its handler
  usage        \* operations and faults so far, and whether attempts ran out

rolloutVars == <<revision, past, deployment, replica, target, verdict, monitor, autoRollback,
                 instance, routerGeneration, inFlight, operation, usage>>

\* What the handler of the operation does not touch.
storeVars == <<revision, past, deployment, replica, target, verdict, monitor>>
worldVars == <<autoRollback, instance, routerGeneration, inFlight, usage>>

Revisions == 1..MaxRevision
Slots == Revisions \X (0..(MinReplicas - 1))
SlotsOf(r) == {s \in Slots : s[1] = r}

RevisionStatuses == {"absent", "candidate", "active", "superseded", "rejected"}
Lifecycles == {"none", "provisioning", "ready", "active", "draining", "failed", "deleted"}
RolloutKinds == {"create", "provision", "promote", "reject", "rollback"}
RolloutSteps == {"start", "ensure", "launched", "bury", "refuse", "clean", "commit", "route", "observe",
          "restore", "restored", "drain", "retire"}

NoOperation == [kind |-> "none", rev |-> 0, cancel |-> FALSE, undo |-> FALSE, pc |-> "start",
                seen |-> {}, healthy |-> {}, names |-> {}, prev |-> 0, keep |-> 0]

Evaluations == [decision: {"none", "ACCEPT", "WAIT", "REJECT"}, active: 0..MaxRevision]
Monitors == [status: {"none", "observing", "accepted", "failed", "rolled_back"},
             rollback: 0..MaxRevision, late: BOOLEAN]
Usages == [operations: 0..MaxOperations, faults: 0..MaxRolloutFaults, exhausted: BOOLEAN]
HandlerStates ==
  [kind: RolloutKinds \union {"none"}, rev: 0..MaxRevision, cancel: BOOLEAN, undo: BOOLEAN,
   pc: RolloutSteps, seen: SUBSET Slots, healthy: SUBSET Slots, names: SUBSET Slots,
   prev: 0..MaxRevision, keep: 0..MaxRevision]

RolloutTypeOK ==
  /\ revision \in [Revisions -> RevisionStatuses]
  /\ past \in Seq(Revisions)
  /\ deployment \in [active: Revisions, candidate: 0..MaxRevision, targets: SUBSET Slots]
  /\ replica \in [Slots -> Lifecycles]
  /\ target \subseteq Slots
  /\ verdict \in [Revisions -> Evaluations]
  /\ monitor \in [Revisions -> Monitors]
  /\ autoRollback \in BOOLEAN
  /\ instance \in [Slots -> {"none", "booting", "up", "failed", "stopping"}]
  /\ routerGeneration \subseteq Slots
  /\ inFlight \in BOOLEAN
  /\ operation \in HandlerStates
  /\ usage \in Usages

\* Each earlier revision was accepted against the one before it, promoted,
\* superseded by the next and deleted.
RolloutInit ==
  \E f \in FirstActives :
    /\ revision = [r \in Revisions |-> CASE r < f -> "superseded" [] r = f -> "active" [] OTHER -> "absent"]
    /\ past = [i \in 1..(f - 1) |-> i]
    /\ deployment = [active |-> f, candidate |-> 0, targets |-> SlotsOf(f)]
    /\ replica = [s \in Slots |-> CASE s[1] < f -> "deleted" [] s[1] = f -> "active" [] OTHER -> "none"]
    /\ target = SlotsOf(f)
    /\ verdict = [r \in Revisions |-> IF r \in 2..f THEN [decision |-> "ACCEPT", active |-> r - 1]
                                      ELSE [decision |-> "none", active |-> 0]]
    /\ monitor = [r \in Revisions |-> [status |-> "none", rollback |-> 0, late |-> FALSE]]
    /\ autoRollback \in BOOLEAN
    /\ instance = [s \in Slots |-> IF s[1] = f THEN "up" ELSE "none"]
    /\ routerGeneration = SlotsOf(f)
    /\ inFlight = FALSE
    /\ operation = NoOperation
    /\ usage = [operations |-> 0, faults |-> 0, exhausted |-> FALSE]

RolloutFault == usage.faults < MaxRolloutFaults /\ usage' = [usage EXCEPT !.faults = @ + 1]

(***************************************************************************)
(* The queue, as the handlers see it.                                      *)
(***************************************************************************)

\* enqueueRollout accepts any revision; the index one_unresolved_deployment_operation
\* refuses a second operation.
EnqueueRollout(kind, r) ==
  /\ operation.kind = "none"
  /\ usage.operations < MaxOperations
  /\ (r = 0) = (kind = "create")
  /\ r # 0 => revision[r] # "absent"
  /\ operation' = [NoOperation EXCEPT !.kind = kind, !.rev = r]
  /\ usage' = [usage EXCEPT !.operations = @ + 1]
  /\ UNCHANGED <<storeVars, autoRollback, instance, routerGeneration, inFlight>>

RequestCancel ==
  /\ operation.kind # "none"
  /\ ~operation.cancel
  /\ operation' = [operation EXCEPT !.cancel = TRUE]
  /\ UNCHANGED <<storeVars, worldVars>>

\* A handler's result.  After one that ran to its end a cancellation requested
\* meanwhile runs the cancel handler; an operation without one is just over.
Retried == [NoOperation EXCEPT !.kind = operation.kind, !.rev = operation.rev, !.cancel = operation.cancel]
Returned ==
  IF operation.cancel /\ ~operation.undo /\ operation.kind \in {"provision", "promote"}
  THEN Retried ELSE NoOperation

\* The worker stops, or a call fails; the next claim runs the handler from the start.
WorkerCrashes ==
  /\ operation.pc # "start"
  /\ RolloutFault
  /\ operation' = Retried
  /\ UNCHANGED <<storeVars, autoRollback, instance, routerGeneration, inFlight>>

\* A retryable error of the last of the attempts ends the operation where it stands.
LastAttemptFails ==
  /\ operation.pc # "start"
  /\ usage.faults < MaxRolloutFaults
  /\ usage' = [usage EXCEPT !.faults = @ + 1, !.exhausted = TRUE]
  /\ operation' = Returned
  /\ UNCHANGED <<storeVars, autoRollback, instance, routerGeneration, inFlight>>

AtStep(pc) == [operation EXCEPT !.pc = pc]

(***************************************************************************)
(* rollout.create-candidate.                                               *)
(***************************************************************************)

Existing == {r \in Revisions : revision[r] # "absent"}

NextRevision == Cardinality(Existing) + 1

\* EnsureCandidateRevision: a replay finds the revision of its operation, a
\* second candidate is refused.
CreateCandidate ==
  /\ operation.kind = "create"
  /\ ~operation.cancel
  /\ \/ /\ operation.rev = 0
        /\ deployment.candidate = 0
        /\ Cardinality(Existing) < MaxRevision
        /\ LET r == NextRevision IN
           /\ revision' = [revision EXCEPT ![r] = "candidate"]
           /\ deployment' = [deployment EXCEPT !.candidate = r]
           /\ operation' \in {Returned, [Retried EXCEPT !.rev = r]}
     \/ /\ operation.rev # 0 \/ deployment.candidate # 0 \/ Cardinality(Existing) = MaxRevision
        /\ operation' = Returned
        /\ UNCHANGED <<revision, deployment>>
  /\ UNCHANGED <<past, replica, target, verdict, monitor, worldVars>>

\* Operations without a cancel handler are over when they are claimed again.
CancelWithoutHandler ==
  /\ operation.kind \in {"create", "reject", "rollback"}
  /\ operation.cancel
  /\ operation.pc = "start"
  /\ operation' = NoOperation
  /\ UNCHANGED <<storeVars, worldVars>>

(***************************************************************************)
(* rollout.provision-candidate.                                            *)
(***************************************************************************)

LiveReplica(s) == replica[s] \notin {"none", "deleted"}

\* Mutant: a replica that is not ready has nothing to clean up.
MutCleanupReadyOnly(r) ==
  [operation EXCEPT !.pc = "clean", !.seen = {s \in SlotsOf(r) : replica[s] = "ready"}]

Cleanup(r) == [operation EXCEPT !.pc = "clean", !.seen = {s \in SlotsOf(r) : LiveReplica(s)}]

StartProvision ==
  /\ operation.kind = "provision"
  /\ operation.pc = "start"
  /\ ~operation.cancel
  /\ operation' = CASE revision[operation.rev] = "candidate" -> AtStep("ensure")
                    [] revision[operation.rev] = "rejected" -> Cleanup(operation.rev)
                    [] OTHER -> Returned
  /\ UNCHANGED <<storeVars, worldVars>>

\* ensureCloudReplica, up to the provider's call: the intent is durable before
\* the instance is requested under its deterministic key.  A replica that was
\* deleted keeps its row, and the row refuses a new identity.
Pending == {s \in SlotsOf(operation.rev) : replica[s] # "ready"}
NextSlot == CHOOSE s \in Pending : \A t \in Pending : s[2] <= t[2]

EnsureReplicaIntent ==
  /\ operation.pc = "ensure"
  /\ Pending # {}
  /\ IF replica[NextSlot] = "deleted"
     THEN operation' = AtStep("refuse") /\ UNCHANGED replica
     ELSE operation' = AtStep("launched") /\ replica' = [replica EXCEPT ![NextSlot] = "provisioning"]
  /\ UNCHANGED <<revision, past, deployment, target, verdict, monitor, worldVars>>

EnsureReplica ==
  /\ operation.pc = "launched"
  /\ instance[NextSlot] = "none"
  /\ instance' = [instance EXCEPT ![NextSlot] = "booting"]
  /\ UNCHANGED <<storeVars, autoRollback, routerGeneration, inFlight, operation, usage>>

\* The observation: not ready yet, ready, or a bootstrap that failed, whose
\* instance is deleted at once, before its row is.
ObserveInstance ==
  LET s == NextSlot IN
  /\ operation.pc = "launched"
  /\ \/ /\ instance[s] \in {"booting", "stopping"}
        /\ operation' = IF operation.cancel THEN Returned ELSE Retried
        /\ UNCHANGED <<replica, target, instance>>
     \/ /\ instance[s] = "up"
        /\ replica' = [replica EXCEPT ![s] = "ready"]
        /\ target' = target \union {s}
        /\ operation' = AtStep("ensure")
        /\ UNCHANGED instance
     \/ /\ instance[s] = "failed"
        /\ instance' = [instance EXCEPT ![s] = "stopping"]
        /\ operation' = AtStep("bury")
        /\ UNCHANGED <<replica, target>>
  /\ UNCHANGED <<revision, past, deployment, verdict, monitor, autoRollback, routerGeneration,
                 inFlight, usage>>

MarkFailedReplicaDeleted ==
  /\ operation.pc = "bury"
  /\ replica' = [replica EXCEPT ![NextSlot] = "deleted"]
  /\ operation' = AtStep("refuse")
  /\ UNCHANGED <<revision, past, deployment, target, verdict, monitor, worldVars>>

\* The provider refuses the credentials or the configuration for good, whatever
\* it has started before, or the instance that runs does not serve the model.
ProvisionFailsForGood ==
  /\ operation.pc = "launched"
  /\ operation' = AtStep("refuse")
  /\ UNCHANGED <<storeVars, worldVars>>

FinishProvision ==
  /\ operation.pc = "ensure"
  /\ Pending = {}
  /\ operation' = Returned
  /\ UNCHANGED <<storeVars, worldVars>>

\* Mutant: any revision can be rejected.
MutRejectableAny(r) == TRUE

\* RejectCandidateRevision (transitionRevision): only the current candidate.
Rejectable(r) == deployment.candidate = r
RejectCandidateRevision(r) ==
  /\ Rejectable(r)
  /\ revision' = [revision EXCEPT ![r] = "rejected"]
  /\ deployment' = [deployment EXCEPT !.candidate = 0]

\* A candidate that cannot be provisioned is rejected, then cleaned up.
RefuseCandidate ==
  /\ operation.pc = "refuse"
  /\ RejectCandidateRevision(operation.rev) \/ (~Rejectable(operation.rev) /\ UNCHANGED <<revision, deployment>>)
  /\ operation' = Cleanup(operation.rev)
  /\ UNCHANGED <<past, replica, target, verdict, monitor, worldVars>>

(***************************************************************************)
(* candidateCleanup: rollout.reject, the cancellation of a provisioning,   *)
(* and the cancellation of a promotion that was not committed.             *)
(***************************************************************************)

StartReject ==
  /\ operation.kind = "reject"
  /\ operation.pc = "start"
  /\ ~operation.cancel
  /\ operation' = Cleanup(operation.rev)
  /\ UNCHANGED <<storeVars, worldVars>>

CancelProvision ==
  /\ operation.kind = "provision"
  /\ operation.pc = "start"
  /\ operation.cancel
  /\ operation' = [Cleanup(operation.rev) EXCEPT !.undo = TRUE]
  /\ UNCHANGED <<storeVars, worldVars>>

\* Deleting one replica: the provider is asked, and the row is marked only
\* when the instance is gone.  A target row survives while it is routed to.
Stopping(s) == IF instance[s] = "none" THEN {"none"} ELSE {"stopping", "none"}

DeleteReplica(s) ==
  \E state \in Stopping(s) :
    /\ instance' = [instance EXCEPT ![s] = state]
    /\ IF state = "none"
       THEN /\ replica' = [replica EXCEPT ![s] = "deleted"]
            /\ target' = target \ ({s} \ deployment.targets)
            /\ operation' = [operation EXCEPT !.seen = @ \ {s}]
       ELSE /\ operation' = IF operation.cancel /\ ~operation.undo THEN Returned ELSE Retried
            /\ UNCHANGED <<replica, target>>

CleanReplica ==
  /\ operation.pc = "clean"
  /\ \E s \in operation.seen : DeleteReplica(s)
  /\ UNCHANGED <<revision, past, deployment, verdict, monitor, autoRollback, routerGeneration, inFlight, usage>>

\* rollout.reject records the rejection after the cleanup, and fails if the
\* revision is not the candidate.
FinishCleanup ==
  /\ operation.pc = "clean"
  /\ operation.seen = {}
  /\ operation' = Returned
  /\ \/ operation.kind = "reject" /\ RejectCandidateRevision(operation.rev)
     \/ (operation.kind # "reject" \/ ~Rejectable(operation.rev)) /\ UNCHANGED <<revision, deployment>>
  /\ UNCHANGED <<past, replica, target, verdict, monitor, worldVars>>

(***************************************************************************)
(* The Release Guard.                                                      *)
(***************************************************************************)

Ready(r) == {s \in SlotsOf(r) : replica[s] \in {"ready", "active"}}

\* Evaluate: a disabled policy, which rolls nothing back, accepts everything; an
\* enabled one rejects a candidate without a ready replica.  What else the
\* evidence shows is free.
Verdicts(r) ==
  IF Ready(r) = {} THEN {"REJECT"} \union (IF autoRollback THEN {} ELSE {"ACCEPT"})
  ELSE {"ACCEPT", "WAIT", "REJECT"}

EvaluateReleaseGuard ==
  /\ deployment.candidate # 0
  /\ \E d \in Verdicts(deployment.candidate) :
       verdict' = [verdict EXCEPT ![deployment.candidate] = [decision |-> d, active |-> deployment.active]]
  /\ UNCHANGED <<revision, past, deployment, replica, target, monitor, worldVars, operation>>

SetReleaseGuardPolicy ==
  /\ autoRollback' = ~autoRollback
  /\ UNCHANGED <<storeVars, instance, routerGeneration, inFlight, operation, usage>>

DeadlinePasses(r) ==
  /\ monitor[r].status # "none"
  /\ ~monitor[r].late
  /\ monitor' = [monitor EXCEPT ![r].late = TRUE]
  /\ UNCHANGED <<revision, past, deployment, replica, target, verdict, worldVars, operation>>

(***************************************************************************)
(* rollout.promote.                                                        *)
(***************************************************************************)

Monitored(r) == monitor[r].status # "none"

\* The promoted revision was rolled back by an earlier attempt.
Recovering(r) == Monitored(r) /\ deployment.active = monitor[r].rollback

\* candidatePromote reads the deployment, the revision and the replicas.  What
\* it refuses is over, for the cancel handler too.
Promoting(r) ==
  LET recovering == revision[r] # "candidate" /\ deployment.active # r
      kept == IF recovering THEN monitor[r].rollback ELSE r
      names == Ready(kept)
  IN IF (recovering /\ ~Recovering(r)) \/ Cardinality(names) < MinReplicas THEN NoOperation
     ELSE [operation EXCEPT !.pc = IF recovering THEN "route" ELSE "commit", !.undo = operation.cancel,
             !.names = names, !.prev = deployment.active, !.keep = kept,
             !.seen = {s \in Slots : LiveReplica(s)},
             !.healthy = {s \in Slots : replica[s] \in {"ready", "active", "draining"}}]

StartPromote ==
  /\ operation.kind = "promote"
  /\ operation.pc = "start"
  /\ ~operation.cancel
  /\ operation' = Promoting(operation.rev)
  /\ UNCHANGED <<storeVars, worldVars>>

\* candidatePromoteCancel: a promotion under observation is rolled back first.
CancelPromote ==
  LET r == operation.rev IN
  /\ operation.kind = "promote"
  /\ operation.pc = "start"
  /\ operation.cancel
  /\ operation' =
       CASE deployment.active = r /\ monitor[r].status = "observing" ->
              [operation EXCEPT !.pc = "restore", !.undo = TRUE, !.prev = monitor[r].rollback,
                 !.healthy = {s \in Slots : replica[s] \in {"ready", "active", "draining"}}]
         [] ~(deployment.active = r /\ monitor[r].status = "observing")
              /\ (deployment.active = r \/ Recovering(r)) -> Promoting(r)
         [] OTHER -> [Cleanup(r) EXCEPT !.undo = TRUE]
  /\ UNCHANGED <<storeVars, worldVars>>

\* A revision's completed_at is set when it is superseded and cleared when it is
\* active again.
Without(seq, r) ==
  IF \A i \in DOMAIN seq : seq[i] # r THEN seq
  ELSE LET k == CHOOSE i \in DOMAIN seq : seq[i] = r
       IN  [i \in 1..(Len(seq) - 1) |-> IF i < k THEN seq[i] ELSE seq[i + 1]]
Superseded(r) == Append(past, r)

\* What PromoteGuardedCandidate demands under the deployment's lock.
CandidateStands(r, names) ==
  /\ deployment.candidate = r
  /\ revision[r] = "candidate"
  /\ verdict[r] = [decision |-> "ACCEPT", active |-> deployment.active]
  /\ names \subseteq target
  /\ \A s \in names : replica[s] = "ready"

PromoteGuardedCandidate ==
  LET r == operation.rev
      old == deployment.active IN
  /\ operation.pc = "commit"
  /\ \/ /\ CandidateStands(r, operation.names)
        /\ revision' = [revision EXCEPT ![old] = "superseded", ![r] = "active"]
        /\ past' = Superseded(old)
        /\ deployment' = [active |-> r, candidate |-> 0, targets |-> operation.names]
        /\ replica' = [s \in Slots |-> CASE replica[s] \in {"none", "deleted"} -> replica[s]
                                         [] s[1] = r /\ LiveReplica(s) -> "active"
                                         [] s[1] # r /\ replica[s] = "active" -> "draining"
                                         [] OTHER -> replica[s]]
        /\ operation' = AtStep("route")
     \/ /\ deployment.active = r /\ deployment.candidate = 0
        /\ operation' = AtStep("route")
        /\ UNCHANGED <<revision, past, deployment, replica>>
     \/ /\ ~CandidateStands(r, operation.names)
        /\ ~(deployment.active = r /\ deployment.candidate = 0)
        /\ operation' = Returned
        /\ UNCHANGED <<revision, past, deployment, replica>>
  /\ UNCHANGED <<target, verdict, monitor, worldVars>>

Wait == IF operation.cancel /\ ~operation.undo THEN Returned ELSE Retried

\* Mutant: the cut-over is not waited for.
MutGenerationAssumed(names) == TRUE

RoutingGenerationMatches(names) == routerGeneration = names

\* RoutingGenerationMatches, and what follows it: the end of a rollback, or the
\* observation of the promoted revision if the policy or a monitor asks for it.
CheckRoute ==
  LET r == operation.rev IN
  /\ operation.pc = "route"
  /\ \/ /\ ~RoutingGenerationMatches(operation.names)
        /\ operation' = Wait
        /\ UNCHANGED monitor
     \/ /\ RoutingGenerationMatches(operation.names)
        /\ operation.keep # r
        /\ monitor' = [monitor EXCEPT ![r].status = "rolled_back"]
        /\ operation' = AtStep("drain")
     \/ /\ RoutingGenerationMatches(operation.names)
        /\ operation.keep = r
        /\ operation' = AtStep(IF autoRollback \/ Monitored(r) THEN "observe" ELSE "drain")
        /\ UNCHANGED monitor
  /\ UNCHANGED <<revision, past, deployment, replica, target, verdict, worldVars>>

\* The revision a rollback would restore; after a retry the active revision is
\* already the promoted one, and the last superseded one is looked up.
Previous(r) ==
  CASE Monitored(r) -> monitor[r].rollback
    [] ~Monitored(r) /\ operation.prev # r -> operation.prev
    [] OTHER -> LET others == Without(past, r) IN
                IF others = <<>> THEN 0 ELSE others[Len(others)]

\* Mutant: the deadline is ignored.
MutDecidedWithoutDeadline(r, v) == v

\* Waiting becomes a rejection after the deadline.
Decided(r, v) == IF v = "WAIT" /\ monitor[r].late THEN "REJECT" ELSE v

\* EnsureReleaseGuardMonitor and EvaluateReleaseGuardMonitor: every attempt
\* evaluates again.
ObservePromotion ==
  LET r == operation.rev IN
  /\ operation.pc = "observe"
  /\ \/ /\ Previous(r) = 0 \/ deployment.active # r
        /\ operation' = IF Previous(r) = 0 THEN Wait ELSE Returned
        /\ UNCHANGED <<monitor, verdict>>
     \/ /\ Previous(r) # 0 /\ deployment.active = r
        /\ \E v \in Verdicts(r) :
             LET d == Decided(r, v) IN
             /\ verdict' = [verdict EXCEPT ![r] = [decision |-> d, active |-> Previous(r)]]
             /\ monitor' = [monitor EXCEPT ![r] = [@ EXCEPT !.rollback = Previous(r),
                   !.status = CASE d = "ACCEPT" -> "accepted" [] d = "REJECT" -> "failed" [] OTHER -> "observing"]]
             /\ operation' = CASE d = "ACCEPT" -> [AtStep("drain") EXCEPT !.prev = Previous(r)]
                               [] d = "REJECT" -> [AtStep("restore") EXCEPT !.prev = Previous(r)]
                               [] OTHER -> Wait
  /\ UNCHANGED <<revision, past, deployment, replica, target, worldVars>>

\* The targets of a rollback are looked up by the name a candidate's targets
\* have; those of the first revision have another.
NamedByRevision(s) == s[1] # 1

Retained == {s \in operation.healthy : s[1] = operation.prev}

\* What RollbackGuardedPromotion demands under the deployment's lock.
Restorable(r, names) ==
  /\ deployment.active = r
  /\ revision[operation.prev] = "superseded"
  /\ \A s \in names : NamedByRevision(s) /\ s \in target
  /\ Cardinality(names) >= MinReplicas
  /\ \A s \in names : replica[s] \in {"ready", "active", "draining"}

RollbackGuardedPromotion ==
  LET r == operation.rev
      p == operation.prev IN
  /\ operation.pc = "restore"
  /\ \/ /\ Restorable(r, Retained)
        /\ revision' = [revision EXCEPT ![r] = "superseded", ![p] = "active"]
        /\ past' = Without(Superseded(r), p)
        /\ deployment' = [active |-> p, candidate |-> 0, targets |-> Retained]
        /\ replica' = [s \in Slots |-> CASE s[1] = p /\ replica[s] # "none" -> "active"
                                         [] s[1] = r /\ LiveReplica(s) -> "draining"
                                         [] OTHER -> replica[s]]
        /\ operation' = AtStep("restored")
     \/ /\ deployment.active = p
        /\ operation' = AtStep("restored")
        /\ UNCHANGED <<revision, past, deployment, replica>>
     \/ /\ ~Restorable(r, Retained)
        /\ deployment.active # p
        /\ operation' = Returned
        /\ UNCHANGED <<revision, past, deployment, replica>>
  /\ UNCHANGED <<target, verdict, monitor, worldVars>>

\* After a rollback by cancellation the handler goes on as candidatePromote.
CheckRestoredRoute ==
  /\ operation.pc = "restored"
  /\ \/ /\ ~RoutingGenerationMatches(Retained)
        /\ operation' = Wait
        /\ UNCHANGED monitor
     \/ /\ RoutingGenerationMatches(Retained)
        /\ monitor' = [monitor EXCEPT ![operation.rev].status = "rolled_back"]
        /\ operation' = IF operation.undo THEN Promoting(operation.rev)
                        ELSE [AtStep("drain") EXCEPT !.keep = operation.prev]
  /\ UNCHANGED <<revision, past, deployment, replica, target, verdict, worldVars>>

CheckDrain ==
  /\ operation.pc = "drain"
  /\ operation' = IF inFlight THEN Wait
                  ELSE [AtStep("retire") EXCEPT !.seen = {s \in @ : s[1] # operation.keep}]
  /\ UNCHANGED <<storeVars, worldVars>>

\* The replicas of every other revision are deleted, as they were listed when
\* the attempt began.
RetireReplica ==
  /\ operation.pc = "retire"
  /\ \E s \in operation.seen : DeleteReplica(s)
  /\ UNCHANGED <<revision, past, deployment, verdict, monitor, autoRollback, routerGeneration, inFlight, usage>>

FinishPromote ==
  /\ operation.pc = "retire"
  /\ operation.seen = {}
  /\ operation' = Returned
  /\ UNCHANGED <<storeVars, worldVars>>

(***************************************************************************)
(* rollout.rollback.                                                       *)
(***************************************************************************)

\* RollbackRevision moves the active revision, and neither targets nor replicas.
RollbackRevision ==
  LET r == operation.rev
      old == deployment.active IN
  /\ operation.kind = "rollback"
  /\ ~operation.cancel
  /\ \/ /\ r # old /\ revision[r] # "candidate"
        /\ revision' = [revision EXCEPT ![old] = "superseded", ![r] = "active"]
        /\ past' = Without(Superseded(old), r)
        /\ deployment' = [deployment EXCEPT !.active = r, !.candidate = 0]
     \/ /\ r = old \/ revision[r] = "candidate"
        /\ UNCHANGED <<revision, past, deployment>>
  /\ operation' = Returned
  /\ UNCHANGED <<replica, target, verdict, monitor, worldVars>>

(***************************************************************************)
(* The reconciler and the provider.                                        *)
(***************************************************************************)

\* The reconciler starts a router for the healthy targets and records it.  An
\* instance that is being stopped may still answer.
Answering == {s \in deployment.targets : instance[s] = "up"}
PublishGeneration ==
  /\ \E more \in SUBSET {s \in deployment.targets : instance[s] = "stopping"} :
       /\ Answering \union more \notin {{}, routerGeneration}
       /\ routerGeneration' = Answering \union more
  /\ inFlight' \in {inFlight, TRUE}
  /\ UNCHANGED <<storeVars, autoRollback, instance, operation, usage>>

RequestsEnd ==
  /\ inFlight
  /\ inFlight' = FALSE
  /\ UNCHANGED <<storeVars, autoRollback, instance, routerGeneration, operation, usage>>

BootInstance(s) ==
  /\ instance[s] = "booting"
  /\ \/ instance' = [instance EXCEPT ![s] = "up"] /\ UNCHANGED usage
     \/ instance' = [instance EXCEPT ![s] = "failed"] /\ RolloutFault
  /\ UNCHANGED <<storeVars, autoRollback, routerGeneration, inFlight, operation>>

StopInstance(s) ==
  /\ instance[s] = "stopping"
  /\ instance' = [instance EXCEPT ![s] = "none"]
  /\ UNCHANGED <<storeVars, autoRollback, routerGeneration, inFlight, operation, usage>>

HandlerStep ==
  \/ CreateCandidate \/ CancelWithoutHandler
  \/ StartProvision \/ EnsureReplicaIntent \/ EnsureReplica \/ ObserveInstance \/ MarkFailedReplicaDeleted
  \/ ProvisionFailsForGood \/ FinishProvision
  \/ RefuseCandidate
  \/ StartReject \/ CancelProvision \/ CleanReplica \/ FinishCleanup
  \/ StartPromote \/ CancelPromote \/ PromoteGuardedCandidate \/ CheckRoute \/ ObservePromotion
  \/ RollbackGuardedPromotion \/ CheckRestoredRoute \/ CheckDrain \/ RetireReplica \/ FinishPromote
  \/ RollbackRevision

RolloutNext ==
  \/ EnqueueRollout("create", 0)
  \/ \E kind \in RolloutKinds \ {"create"}, r \in Revisions : EnqueueRollout(kind, r)
  \/ RequestCancel \/ WorkerCrashes \/ LastAttemptFails \/ HandlerStep
  \/ EvaluateReleaseGuard \/ SetReleaseGuardPolicy
  \/ \E r \in Revisions : DeadlinePasses(r)
  \/ PublishGeneration \/ RequestsEnd
  \/ \E s \in Slots : BootInstance(s) \/ StopInstance(s)

\* The worker claims and retries, the reconciler is a ticker, requests end,
\* deadlines pass, and the provider finishes what it began.
RolloutFairness ==
  /\ WF_rolloutVars(HandlerStep)
  /\ WF_rolloutVars(PublishGeneration)
  /\ WF_rolloutVars(RequestsEnd)
  /\ \A r \in Revisions : WF_rolloutVars(DeadlinePasses(r))
  /\ \A s \in Slots : WF_rolloutVars(BootInstance(s)) /\ WF_rolloutVars(StopInstance(s))

RolloutSpec == RolloutInit /\ [][RolloutNext]_rolloutVars /\ RolloutFairness

(***************************************************************************)
(* Properties.                                                             *)
(***************************************************************************)

\* Through promotions, rollbacks, cancellations and retries one revision is
\* active and it is the deployment's, and the deployment's candidate is one.
OneActiveRevision ==
  /\ \A r \in Revisions : revision[r] = "active" <=> r = deployment.active
  /\ deployment.candidate # 0 => revision[deployment.candidate] = "candidate"
  /\ \A r \in Revisions : revision[r] = "superseded" <=> \E i \in DOMAIN past : past[i] = r

\* No instance is lost: one that runs has a replica row that the next cleanup
\* finds, and a rejected candidate has none once its operation is over, unless
\* an operation ran out of attempts.
CapacityIsTracked ==
  \A s \in Slots : instance[s] \in {"booting", "up", "failed"} =>
    /\ LiveReplica(s)
    /\ ~(revision[s[1]] = "rejected" /\ operation.kind = "none" /\ ~usage.exhausted)

\* "Provider cleanup happens only after the reconciler publishes the resulting
\* router generation" (store/revisions.go): what a promotion or its automatic
\* rollback deletes is neither among the deployment's targets nor in the
\* recorded generation, however often the attempt that listed it was overtaken.
PromotionDeletesReplaced ==
  [][\A s \in Slots :
       operation.pc = "retire" /\ instance[s] = "up" /\ instance'[s] # "up" =>
         s \notin deployment.targets /\ s \notin routerGeneration]_rolloutVars

\* The promise of candidate-only cleanup (docs/features/release-guard.md): the
\* deployment always routes to an instance that is up.
RoutedCapacityExists == \E s \in deployment.targets : instance[s] = "up"

\* An operation that waits for what cannot come: a router generation of targets
\* that are gone, or the revision before the first one; or one that provisions
\* again and again a candidate the deployment has dropped: it fails for good, is
\* not rejected, and is launched anew before its deletion is over.
Hopeless ==
  \/ ~RoutedCapacityExists
  \/ operation.kind = "promote" /\ revision[operation.rev] = "active" /\ Previous(operation.rev) = 0
  \/ operation.kind = "provision" /\ revision[operation.rev] = "candidate" /\ ~Rejectable(operation.rev)

\* Every operation ends without help of its limit of attempts: cut-over, drain,
\* observation, rollback and the provider's deletions leave nobody waiting.
OperationsConclude == operation.kind # "none" ~> operation.kind = "none" \/ Hopeless
=============================================================================
