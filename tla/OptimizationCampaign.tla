------------------------ MODULE OptimizationCampaign ------------------------
(***************************************************************************)
(* One optimization campaign: an approval bounded in time, candidates that *)
(* are provisioned, measured, ranked together and released, and a person   *)
(* who may publish the winner or cancel.  Three durable operations work on *)
(* the same rows: execute (which also has a cancel handler), cleanup and   *)
(* activate.  A handler reads the campaign, calls the driver and then      *)
(* makes a fenced transition; the summary state of the campaign is written *)
(* by a statement of its own.                                              *)
(*                                                                         *)
(* The deployments behind the candidates belong to child operations, of    *)
(* which only the status is kept.  Every candidate of a new-endpoint       *)
(* campaign has a deployment of its own; the candidates of an              *)
(* evolve-endpoint campaign are revisions of one deployment, which admits  *)
(* one unresolved operation.                                               *)
(***************************************************************************)
EXTENDS Integers, FiniteSets, FiniteSetsExt

CONSTANTS
  CandidateCount,            \* candidates, numbered in the order of the request
  Decisions,                 \* what the measurements may show
  MaxCampaignFaults          \* crashed workers and failed deletions

ASSUME CampaignAssumption ==
  /\ CandidateCount \in Nat \ {0} /\ MaxCampaignFaults \in Nat
  /\ Decisions \subseteq {"select", "rejected", "inconclusive"}

Candidates == 1..CandidateCount
NoCandidate == 0

VARIABLES
  intent,                    \* what the campaign is for
  lab,                       \* what the measurements will show: decision, best candidate
  campaign,                  \* row: state, cancel requested, approval
  candidate,                 \* rows: state, deployment recorded, ranked by the Lab
  child,                     \* status of the child operations of each candidate
  alias,                     \* the candidate whose deployment the endpoint publishes
  handler,                   \* the campaign's operations and where their handlers are
  campaignFaults

campaignVars == <<intent, lab, campaign, candidate, child, alias, handler, campaignFaults>>

Active == {"proposed", "provisioning", "ready", "measuring", "validating", "ranked", "qualified", "guarding", "guard_passed"}
Unmeasured == {"proposed", "provisioning", "ready", "measuring", "validating"}
TerminalWithoutCleanup == {"rejected", "inconclusive", "failed", "cancelled"}
WaitingForHuman == {"qualified", "guard_passed"}
Operations == {"execute", "cleanup", "activate"}

\* A handler that starts: at its first candidate, about to read the campaign.
Starting(mode, c) == [pc |-> "load", mode |-> mode, phase |-> 1, at |-> c, boundary |-> 0, waiting |-> FALSE,
                      from |-> "proposed", to |-> "proposed", sum |-> ""]

CampaignInit ==
  /\ intent \in {"new_endpoint", "evolve_endpoint"}
  /\ lab \in [decision : Decisions, best : Candidates] /\ (lab.decision # "select" => lab.best = 1)
  /\ campaign = [state |-> "awaiting_approval", cancel |-> FALSE, approval |-> "none"]
  /\ candidate = [c \in Candidates |-> [state |-> "proposed", named |-> FALSE, ranked |-> FALSE]]
  /\ child = [c \in Candidates |-> [provision |-> "none", cleanup |-> "none", promote |-> "none"]]
  /\ alias = NoCandidate
  /\ handler = [o \in Operations |-> [status |-> "none", cancel |-> FALSE, run |-> Starting(o, 1)]]
  /\ campaignFaults = 0

-----------------------------------------------------------------------------
(* The rows *)

\* The campaign summary, derived from the candidates.
AggregateState(rows) ==
  LET states == {rows[c].state : c \in Candidates} IN
  IF "promoted" \in states THEN "promoted"
  ELSE IF "guard_passed" \in states THEN "guard_passed"
  ELSE IF "qualified" \in states THEN "qualified"
  ELSE IF states \cap {"ranked", "guarding"} # {} THEN "ranked"
  ELSE IF states = {"cleaned"} THEN "cleaned"
  ELSE IF states \cap Active # {} THEN "running"
  ELSE IF "failed" \in states THEN "failed"
  ELSE IF "inconclusive" \in states THEN "inconclusive"
  ELSE IF states = {"cancelled"} THEN "cancelled"
  ELSE "rejected"

\* The transitions the candidate state machine allows.
Successors(s) ==
  LET Dropped == {"rejected", "cancelled", "failed"} IN
  CASE s = "proposed" -> {"provisioning"} \cup Dropped
    [] s = "provisioning" -> {"ready"} \cup Dropped
    [] s = "ready" -> {"measuring"} \cup Dropped
    [] s = "measuring" -> {"validating", "inconclusive"} \cup Dropped
    [] s = "validating" -> {"ranked", "inconclusive"} \cup Dropped
    [] s = "ranked" -> {"qualified", "guarding", "inconclusive"} \cup Dropped
    [] s = "guarding" -> {"guard_passed", "inconclusive"} \cup Dropped
    [] s \in WaitingForHuman -> {"promoted"} \cup Dropped
    [] s = "promoted" -> {"observed", "failed"}
    [] s \in TerminalWithoutCleanup -> {"cleaned"}
    [] OTHER -> {}

\* Mutant: a cancelled campaign refuses every transition, the cleaned one too.
MayTransitionUnlessCancelled(to) ==
  /\ campaign.state \notin {"awaiting_approval", "approved", "cancelled"}
  /\ to # "cleaned" => ~campaign.cancel /\ campaign.approval = "valid"

\* What the fenced UPDATE of a candidate requires of the campaign's row.
MayTransition(to) ==
  IF to = "cleaned"
  THEN campaign.state \notin {"awaiting_approval", "approved"}
  ELSE /\ campaign.state \notin {"awaiting_approval", "cancelled", "failed", "cleaned"}
       /\ ~campaign.cancel
       /\ campaign.approval = "valid"

-----------------------------------------------------------------------------
(* Customer calls *)

ApproveOptimizationCampaign ==
  /\ campaign.state = "awaiting_approval" /\ ~campaign.cancel
  /\ campaign' = [campaign EXCEPT !.state = "approved", !.approval = "valid"]
  /\ UNCHANGED <<intent, lab, candidate, child, alias, handler, campaignFaults>>

\* The second half of the approval, repeated when the same approval is.  It does
\* not look at the campaign again, which may have been cancelled meanwhile.
EnqueueExecute ==
  /\ campaign.approval # "none"
  /\ handler["execute"].status = "none"
  /\ handler' = [handler EXCEPT !["execute"].status = "running"]
  /\ UNCHANGED <<intent, lab, campaign, candidate, child, alias, campaignFaults>>

CancelOptimizationCampaign ==
  /\ campaign.state \notin {"promoted", "cleaned"} /\ ~(campaign.cancel /\ campaign.state = "cancelled")
  /\ campaign' = [campaign EXCEPT !.state = "cancelled", !.cancel = TRUE]
  /\ candidate' = [c \in Candidates |-> IF candidate[c].state \in Active THEN [candidate[c] EXCEPT !.state = "cancelled"] ELSE candidate[c]]
  /\ UNCHANGED <<intent, lab, child, alias, handler, campaignFaults>>

EnqueueCleanup ==
  /\ campaign.cancel /\ handler["cleanup"].status = "none"
  /\ handler' = [handler EXCEPT !["cleanup"].status = "running"]
  /\ UNCHANGED <<intent, lab, campaign, candidate, child, alias, campaignFaults>>

\* The state a candidate must have to be activated.
Proven == IF intent = "evolve_endpoint" THEN "guard_passed" ELSE "qualified"

ActivateOptimizationCampaign(c) ==
  /\ candidate[c].state = Proven /\ campaign.approval = "valid"
  /\ handler["activate"].status = "none"
  /\ handler' = [handler EXCEPT !["activate"].status = "running", !["activate"].run = Starting("activate", c)]
  /\ UNCHANGED <<intent, lab, campaign, candidate, child, alias, campaignFaults>>

\* The execution is cancelled as an operation, not through its campaign.
RequestExecuteCancel ==
  /\ handler["execute"].status = "running" /\ ~handler["execute"].cancel
  /\ handler' = [handler EXCEPT !["execute"].cancel = TRUE]
  /\ UNCHANGED <<intent, lab, campaign, candidate, child, alias, campaignFaults>>

-----------------------------------------------------------------------------
(* The driver: what each of its calls may answer *)

Submitted(c, kind) == child' = [child EXCEPT ![c][kind] = "pending"]

\* A deployment admits one unresolved operation; revisions share a deployment.
Busy(c) == intent = "evolve_endpoint" /\ \E d \in Candidates, k \in {"provision", "cleanup", "promote"} : child[d][k] = "pending"

\* A child operation is submitted once and its status adopted afterwards.
Adopt(c, kind, answer) ==
  IF child[c][kind] = "none"
  THEN answer = "retry" /\ (IF Busy(c) THEN UNCHANGED child ELSE Submitted(c, kind))
  ELSE answer = child[c][kind] /\ UNCHANGED child

\* The price may exceed the cap; a deployment deleted meanwhile has no revision.
ProvisionAnswers(c, to) ==
  \/ to = "failed" /\ UNCHANGED child
  \/ \E answer \in {"retry", "pending", "succeeded", "failed"} :
       /\ Adopt(c, "provision", answer)
       /\ to = CASE answer = "failed" -> "failed"
                 [] answer = "succeeded" /\ (child[c].cleanup = "none" \/ intent = "evolve_endpoint") -> "ready"
                 [] OTHER -> "retry"

\* The candidates the Lab compares: a dropped one only if it had been ranked before.
Compared == {c \in Candidates : candidate[c].state \in {"ranked", "guarding", "guard_passed"} \/ candidate[c].ranked}

\* Mutant: the ranking waits only for what has started.
AtBarrierOrStarting(c) == candidate[c].state \notin {"measuring", "validating"}

\* The ranking needs every candidate at or past the measured barrier.
AtBarrier(c) == candidate[c].state \in {"ranked", "guarding", "guard_passed", "rejected", "inconclusive", "cleaned"}

Winner == IF lab.best \in Compared THEN lab.best ELSE Min(Compared)

RankAnswers(c, to) ==
  /\ IF c \notin Compared \/ \E d \in Candidates : ~AtBarrier(d) THEN to = "retry"
     ELSE IF lab.decision # "select" THEN to = lab.decision
     ELSE IF c # Winner THEN to = "rejected"
     ELSE to = IF intent = "new_endpoint" THEN "qualified" ELSE "guarding"
  /\ UNCHANGED child

\* Nothing to delete without a recorded deployment; a deployment whose deletion
\* was requested is no longer found, whatever became of the deletion.
CleanupAnswers(c, to) ==
  IF ~candidate[c].named \/ (intent = "new_endpoint" /\ child[c].cleanup # "none")
  THEN to = "cleaned" /\ UNCHANGED child
  ELSE \E answer \in {"retry", "pending", "succeeded", "failed"} :
         /\ Adopt(c, "cleanup", answer)
         /\ to = CASE answer = "succeeded" -> "cleaned" [] answer = "failed" -> "fail" [] OTHER -> "retry"

\* What the driver makes of a candidate in state "from".
DriverAnswers(c, from, to) ==
  \/ from = "provisioning" /\ ProvisionAnswers(c, to)
  \/ from = "measuring" /\ to \in {"validating", "failed", "retry"} /\ UNCHANGED child
  \/ from = "validating" /\ to \in {"ranked", "rejected", "retry"} /\ UNCHANGED child
  \/ from = "ranked" /\ RankAnswers(c, to)
  \/ from = "guarding" /\ to \in {"guard_passed", "rejected", "inconclusive", "retry"} /\ UNCHANGED child
  \/ from \in TerminalWithoutCleanup /\ CleanupAnswers(c, to)

\* The endpoint's name belongs to the first deployment it was published for.
PublishAnswers(c, to) ==
  IF child[c].cleanup # "none" THEN to = "retry" /\ UNCHANGED <<child, alias>>
  ELSE IF alias \notin {NoCandidate, c} THEN to = "fail" /\ UNCHANGED <<child, alias>>
  ELSE to \in {"promoted", "retry"} /\ alias' = c /\ UNCHANGED child

PromoteAnswers(c, to) ==
  \E answer \in {"retry", "pending", "succeeded", "failed"} :
    /\ Adopt(c, "promote", answer)
    /\ CASE answer = "succeeded" -> to \in {"promoted", "retry"} [] answer = "failed" -> to = "fail" [] OTHER -> to = "retry"
    /\ UNCHANGED alias

-----------------------------------------------------------------------------
(* The handlers *)

Run(o) == handler[o].run
Handles(o, mode) == handler[o].status = "running" /\ Run(o).mode = mode
At(o, pc) == handler[o].status = "running" /\ Run(o).pc = pc

Continued(o, run) == handler' = [handler EXCEPT ![o].run = run]
Restarted(o) == Starting(IF handler[o].cancel THEN "cleanup" ELSE o, IF o = "activate" THEN Run(o).at ELSE 1)
Finished(o, status) == handler' = [handler EXCEPT ![o].status = status, ![o].run = Restarted(o)]

\* Its worker, or another one, will start over; a cancelled operation gets the cancel handler.
StartOver(o) == Continued(o, Restarted(o))

\* The loop over the candidates goes on with the next one, the next phase, or ends.
NextCandidate(o, run) ==
  IF run.at < CandidateCount THEN Continued(o, [Starting(run.mode, run.at + 1) EXCEPT !.phase = run.phase, !.waiting = run.waiting])
  ELSE IF run.mode = "execute" /\ run.phase = 1 THEN Continued(o, [Starting(run.mode, 1) EXCEPT !.phase = 2])
  ELSE IF run.mode = "execute" /\ run.waiting THEN StartOver(o)
  ELSE Finished(o, IF handler[o].cancel THEN "cancelled" ELSE "succeeded")

\* The bound on the transitions of one candidate in one phase.
LastBoundary(run) == CASE run.mode = "cleanup" -> 1 [] run.mode = "execute" /\ run.phase = 1 -> 7 [] OTHER -> 2

\* After a transition: the candidate is done for now, or is taken one boundary further.
Transitioned(o, run) ==
  IF run.to = "cleaned" \/ run.to \in WaitingForHuman \/ (run.mode = "execute" /\ run.phase = 1 /\ run.to = "ranked")
  THEN NextCandidate(o, [run EXCEPT !.waiting = @ \/ (run.phase = 2 /\ run.to \in WaitingForHuman)])
  ELSE IF run.boundary = LastBoundary(run)
  THEN IF run.mode = "cleanup" THEN NextCandidate(o, run) ELSE Finished(o, "looped")
  ELSE Continued(o, [Starting(run.mode, run.at) EXCEPT !.phase = run.phase, !.boundary = run.boundary + 1, !.waiting = run.waiting])

\* The authority of the campaign row, as the coordinator judges it.
Authority ==
  IF campaign.cancel \/ campaign.state \notin {"approved", "running", "ranked", "qualified", "guard_passed"} THEN "none"
  ELSE IF campaign.approval = "valid" THEN "valid" ELSE "expired"

Fencing(o, to) == Continued(o, [Run(o) EXCEPT !.pc = "fence", !.from = candidate[Run(o).at].state, !.to = to])
Driving(o) == Continued(o, [Run(o) EXCEPT !.pc = "drive", !.from = candidate[Run(o).at].state])

\* Step reads the campaign and decides what the candidate needs.
StepLoads(o) ==
  LET run == Run(o)
      s == candidate[run.at].state
  IN /\ At(o, "load") /\ Handles(o, "execute")
     /\ \/ s \in {"cleaned", "promoted"} /\ NextCandidate(o, run)
        \/ s \in TerminalWithoutCleanup /\ Driving(o)
        \/ s \in Active /\ Authority = "none" /\ Finished(o, "failed")
        \/ s \in Active /\ Authority = "expired" /\ Fencing(o, "failed")
        \/ Authority = "valid" /\ s \in WaitingForHuman /\ NextCandidate(o, [run EXCEPT !.waiting = @ \/ run.phase = 2])
        \/ Authority = "valid" /\ s = "proposed" /\ Fencing(o, "provisioning")
        \/ Authority = "valid" /\ s = "ready" /\ Fencing(o, "measuring")
        \/ Authority = "valid" /\ s \in {"provisioning", "measuring", "validating", "ranked", "guarding"} /\ Driving(o)
     /\ UNCHANGED <<intent, lab, campaign, candidate, child, alias, campaignFaults>>

CancelLoads(o) ==
  LET run == Run(o)
      s == candidate[run.at].state
  IN /\ At(o, "load") /\ Handles(o, "cleanup")
     /\ \/ s = "cleaned" /\ NextCandidate(o, run)
        \/ s = "promoted" /\ StartOver(o)
        \/ s \in TerminalWithoutCleanup /\ Driving(o)
        \/ s \in Active /\ Fencing(o, "cancelled")
     /\ UNCHANGED <<intent, lab, campaign, candidate, child, alias, campaignFaults>>

StepDrives(o) ==
  \E to \in Active \cup TerminalWithoutCleanup \cup {"cleaned", "retry", "fail"} :
    /\ At(o, "drive") /\ Run(o).mode # "activate"
    /\ DriverAnswers(Run(o).at, Run(o).from, to)
    /\ \/ to = "retry" /\ StartOver(o)
       \/ to = "fail" /\ Finished(o, "failed")
       \/ to \notin {"retry", "fail"} /\ Continued(o, [Run(o) EXCEPT !.pc = "fence", !.to = to])
    /\ UNCHANGED <<intent, lab, campaign, candidate, alias, campaignFaults>>

ActivationLoads ==
  LET s == candidate[Run("activate").at].state IN
  /\ At("activate", "load")
  /\ \/ s = "promoted" /\ Finished("activate", "succeeded")
     \/ s # "promoted" /\ (campaign.approval # "valid" \/ s # Proven) /\ Finished("activate", "failed")
     \/ s = Proven /\ campaign.approval = "valid" /\ Driving("activate")
  /\ UNCHANGED <<intent, lab, campaign, candidate, child, alias, campaignFaults>>

\* Traffic is moved, and the routes refreshed, before the campaign says so.
ActivationPublishes ==
  \E to \in {"promoted", "retry", "fail"} :
    /\ At("activate", "drive")
    /\ IF intent = "evolve_endpoint" THEN PromoteAnswers(Run("activate").at, to) ELSE PublishAnswers(Run("activate").at, to)
    /\ \/ to = "retry" /\ StartOver("activate")
       \/ to = "fail" /\ Finished("activate", "failed")
       \/ to = "promoted" /\ Continued("activate", [Run("activate") EXCEPT !.pc = "fence", !.to = to])
    /\ UNCHANGED <<intent, lab, campaign, candidate, campaignFaults>>

\* What a transition leaves in the candidate's row.
Updated(row, from, to) ==
  [row EXCEPT !.state = to, !.named = @ \/ to = "ready", !.ranked = @ \/ (from = "ranked" /\ to # "cancelled" /\ to # "failed")]

\* Mutant: the update does not compare the observed state.
StillInUnchecked(c, from) == TRUE

\* The state the caller observed is still the candidate's.
StillIn(c, from) == candidate[c].state = from

\* TransitionOptimizationCandidate up to the moment it has read the rows back.
Fence(o) ==
  LET run == Run(o)
      rows == [candidate EXCEPT ![run.at] = Updated(@, run.from, run.to)]
  IN /\ At(o, "fence")
     /\ IF StillIn(run.at, run.from) /\ run.to \in Successors(run.from) /\ MayTransition(run.to)
        THEN candidate' = rows /\ Continued(o, [run EXCEPT !.pc = "aggregate", !.sum = AggregateState(rows)])
        ELSE /\ UNCHANGED candidate
             /\ IF run.mode = "activate" /\ candidate[run.at].state = "promoted" THEN Finished(o, "succeeded") ELSE StartOver(o)
     /\ UNCHANGED <<intent, lab, campaign, child, alias, campaignFaults>>

\* Its last statement, from the rows it read.
Aggregate(o) ==
  /\ At(o, "aggregate")
  /\ campaign' = [campaign EXCEPT !.state = Run(o).sum]
  /\ IF Run(o).mode = "activate" THEN Finished(o, "succeeded") ELSE Transitioned(o, Run(o))
  /\ UNCHANGED <<intent, lab, candidate, child, alias, campaignFaults>>

-----------------------------------------------------------------------------
(* Time, workers and child operations *)

ApprovalExpires ==
  /\ campaign.approval = "valid"
  /\ campaign' = [campaign EXCEPT !.approval = "expired"]
  /\ UNCHANGED <<intent, lab, candidate, child, alias, handler, campaignFaults>>

\* A handler whose operation is cancelled, or whose worker dies, is abandoned.
CampaignStops(o) ==
  /\ handler[o].status = "running"
  /\ \/ handler[o].cancel /\ Run(o).mode # "cleanup" /\ UNCHANGED campaignFaults
     \/ campaignFaults < MaxCampaignFaults /\ campaignFaults' = campaignFaults + 1
  /\ StartOver(o)
  /\ UNCHANGED <<intent, lab, campaign, candidate, child, alias>>

\* A child operation ends; a deletion is retried long enough to fail only rarely.
ChildEnds(c, kind) ==
  /\ child[c][kind] = "pending"
  /\ \/ child' = [child EXCEPT ![c][kind] = "succeeded"] /\ UNCHANGED campaignFaults
     \/ kind # "cleanup" /\ child' = [child EXCEPT ![c][kind] = "failed"] /\ UNCHANGED campaignFaults
     \/ /\ kind = "cleanup" /\ campaignFaults < MaxCampaignFaults
        /\ child' = [child EXCEPT ![c][kind] = "failed"] /\ campaignFaults' = campaignFaults + 1
  /\ UNCHANGED <<intent, lab, campaign, candidate, alias, handler>>

CampaignStep(o) ==
  \/ StepLoads(o) \/ CancelLoads(o) \/ StepDrives(o) \/ Fence(o) \/ Aggregate(o)
  \/ (o = "activate" /\ (ActivationLoads \/ ActivationPublishes))

CampaignNext ==
  \/ ApproveOptimizationCampaign \/ EnqueueExecute
  \/ CancelOptimizationCampaign \/ EnqueueCleanup \/ RequestExecuteCancel
  \/ \E c \in Candidates : ActivateOptimizationCampaign(c)
  \/ ApprovalExpires
  \/ \E o \in Operations : CampaignStep(o) \/ CampaignStops(o)
  \/ \E c \in Candidates, kind \in {"provision", "cleanup", "promote"} : ChildEnds(c, kind)

CampaignSpec == CampaignInit /\ [][CampaignNext]_campaignVars

\* Workers claim what is queued and finish what they run; child operations end;
\* time passes; and a customer who cancels gets the cleanup queued, at the latest
\* by repeating the cancellation.
CampaignFairness ==
  /\ \A o \in Operations : WF_campaignVars(CampaignStep(o))
  /\ \A c \in Candidates, kind \in {"provision", "cleanup", "promote"} : WF_campaignVars(ChildEnds(c, kind))
  /\ WF_campaignVars(ApprovalExpires)
  /\ WF_campaignVars(EnqueueCleanup)

CampaignFairSpec == CampaignSpec /\ CampaignFairness

-----------------------------------------------------------------------------
(* Properties *)

CandidateStates == Active \cup TerminalWithoutCleanup \cup {"promoted", "cleaned"}
CampaignStates == {"awaiting_approval", "approved", "running", "ranked", "qualified", "guard_passed",
                   "promoted", "rejected", "inconclusive", "failed", "cancelled", "cleaned"}
Rows == [state : CandidateStates, named : BOOLEAN, ranked : BOOLEAN]
Children == [{"provision", "cleanup", "promote"} -> {"none", "pending", "succeeded", "failed"}]
Attempts == [pc : {"load", "drive", "fence", "aggregate"}, mode : Operations, phase : {1, 2}, at : Candidates,
             boundary : Nat, waiting : BOOLEAN, from : CandidateStates, to : CandidateStates,
             sum : CampaignStates \cup {""}]
Handlers == [status : {"none", "running", "succeeded", "failed", "cancelled", "looped"},
             cancel : BOOLEAN, run : Attempts]

CampaignTypeOK ==
  /\ intent \in {"new_endpoint", "evolve_endpoint"}
  /\ lab \in [decision : Decisions, best : Candidates]
  /\ campaign \in [state : CampaignStates, cancel : BOOLEAN, approval : {"none", "valid", "expired"}]
  /\ candidate \in [Candidates -> Rows]
  /\ child \in [Candidates -> Children]
  /\ alias \in Candidates \cup {NoCandidate}
  /\ handler \in [Operations -> Handlers]
  /\ campaignFaults \in 0 .. MaxCampaignFaults

Winning == {"qualified", "guarding", "guard_passed", "promoted"}

\* The ranking barrier: a candidate is chosen only when every other one has been
\* measured or dropped, and never two of them, whatever the order in which the
\* handler takes them and however often it is interrupted (workflow.go, phase one
\* and two; ranking.go).
OneMeasuredWinner ==
  \A c \in Candidates : candidate[c].state \in Winning =>
    \A d \in Candidates \ {c} : candidate[d].state \notin Unmeasured \cup Winning

\* "It never cleans a promoted or observed candidate because that could remove
\* production behind an operator's back" (CancelCandidate): no deletion was ever
\* submitted for a promoted candidate, although execution, cleanup, cancellation
\* and activation race for its row.
PromotedKeepsItsDeployment ==
  \A c \in Candidates : candidate[c].state = "promoted" => child[c].cleanup = "none"

\* A cancelled campaign's candidates are all cleaned, unless one was promoted
\* before or a deletion failed for good.
CancelledIsCleanedUp ==
  campaign.cancel ~> \A c \in Candidates : candidate[c].state = "cleaned"
                       \/ \E d \in Candidates : candidate[d].state = "promoted" \/ child[d].cleanup = "failed"

\* "An approved campaign whose authority expires must converge to cleanup, not
\* retry forever while paid resources remain allocated" (Step).
ExpiredIsCleanedUp ==
  \A c \in Candidates :
    (campaign.approval = "expired" /\ candidate[c].named /\ handler["execute"].status = "running")
      ~> candidate[c].state \in {"cleaned", "promoted"}

=============================================================================
