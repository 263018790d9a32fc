------------------------- MODULE MCOperationWorker --------------------------
(***************************************************************************)
(* Instances of OperationWorker for TLC, and of OptimizationCampaign, whose *)
(* handlers such workers run.  The two modules share no state, so a         *)
(* behaviour of the fair specification is about one of them, its subject.   *)
(***************************************************************************)
EXTENDS OperationWorker, OptimizationCampaign, TLC

CONSTANTS
  Subjects,                  \* the components to check
  c1, w1, w2, k1, d1, r1

VARIABLE subject

\* One deployment operation.
OneKeyOf == [c \in {c1} |-> None]
OneResourceOf == [c \in {c1} |-> d1]
OneRequestOf == [c \in {c1} |-> r1]

WorkInit ==
  /\ subject \in Subjects
  /\ Init
  /\ CampaignInit /\ (subject # "campaign" => intent = "new_endpoint" /\ lab = [decision |-> "select", best |-> 1])

WorkNext ==
  \/ subject = "operations" /\ Next /\ UNCHANGED <<subject, campaignVars>>
  \/ subject = "campaign" /\ CampaignNext /\ UNCHANGED <<subject, vars>>

WorkSpec == WorkInit /\ [][WorkNext]_<<subject, vars, campaignVars>>

\* The fairness of each module, owed by the one that is the subject.
OperationsAreFair ==
  /\ \A w \in Workers : WF_vars(subject = "operations" /\ WorkerStep(w))
  /\ \A o \in Calls : /\ WF_vars(subject = "operations" /\ LeaseExpires(o) /\ ~KeptAlive(o))
                      /\ WF_vars(subject = "operations" /\ Table(BackoffElapses(o)))

CampaignIsFair ==
  /\ \A o \in Operations : WF_campaignVars(subject = "campaign" /\ CampaignStep(o))
  /\ \A c \in Candidates, kind \in {"provision", "cleanup", "promote"} : WF_campaignVars(subject = "campaign" /\ ChildEnds(c, kind))
  /\ WF_campaignVars(subject = "campaign" /\ EnqueueCleanup)

FairWorkSpec == WorkSpec /\ OperationsAreFair /\ CampaignIsFair
=============================================================================
