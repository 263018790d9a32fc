--------------------------- MODULE MCProvisioning ---------------------------
(***************************************************************************)
(* Instances for TLC of the components that provision: sandboxes, rollouts *)
(* and optimization campaigns.  They share no state, so a behaviour is     *)
(* about one of them, its subject, which Init chooses; the others keep     *)
(* their initial state.                                                    *)
(***************************************************************************)
EXTENDS NativeSandbox, RevisionRollout, OptimizationCampaign, TLC

CONSTANT Subjects            \* the components to check

VARIABLE subject

provisioningVars == <<subject, sandboxVars, rolloutVars, campaignVars>>

\* The subject starts in any of its initial states, the others in one of theirs.
ProvisioningInit ==
  /\ subject \in Subjects
  /\ SandboxInit
  /\ RolloutInit /\ (subject # "rollout" => autoRollback /\ deployment.active = Min(FirstActives))
  /\ CampaignInit /\ (subject # "campaign" => intent = "new_endpoint" /\ lab = [decision |-> "select", best |-> 1])

ProvisioningNext ==
  \/ subject = "sandbox" /\ SandboxNext /\ UNCHANGED <<subject, rolloutVars, campaignVars>>
  \/ subject = "rollout" /\ RolloutNext /\ UNCHANGED <<subject, sandboxVars, campaignVars>>
  \/ subject = "campaign" /\ CampaignNext /\ UNCHANGED <<subject, sandboxVars, rolloutVars>>

ProvisioningSpec == ProvisioningInit /\ [][ProvisioningNext]_provisioningVars

\* The fairness of a component, owed when it is the subject.
SandboxIsFair ==
  /\ WF_sandboxVars(subject = "sandbox" /\ CreatorStep)
  /\ WF_sandboxVars(subject = "sandbox" /\ CustomerStep)
  /\ WF_sandboxVars(subject = "sandbox" /\ SweeperStep)
  /\ WF_sandboxVars(subject = "sandbox" /\ ProviderStep)
  /\ WF_sandboxVars(subject = "sandbox" /\ Tick)

RolloutIsFair ==
  /\ WF_rolloutVars(subject = "rollout" /\ HandlerStep)
  /\ WF_rolloutVars(subject = "rollout" /\ PublishGeneration)
  /\ WF_rolloutVars(subject = "rollout" /\ RequestsEnd)
  /\ \A r \in Revisions : WF_rolloutVars(subject = "rollout" /\ DeadlinePasses(r))
  /\ \A s \in Slots : /\ WF_rolloutVars(subject = "rollout" /\ BootInstance(s))
                      /\ WF_rolloutVars(subject = "rollout" /\ StopInstance(s))
=============================================================================
