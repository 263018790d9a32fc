--------------------------- MODULE MCDeployments ----------------------------
(***************************************************************************)
(* Instances for TLC of the queue that accepts a deployment's operations   *)
(* and of the scaling that uses it.  The scale operation of                *)
(* CapacityScaling is a row of its own, so a behaviour is about one of the *)
(* two, its subject; the other keeps its initial state.                    *)
(***************************************************************************)
EXTENDS OperationWorker, CapacityScaling, TLC

CONSTANTS
  Subjects,                  \* the components to check
  c1, c2, c3, c4, w1, w2, k1, d1, r1, r2, p1

VARIABLE subject

\* A call and its retry, the same key with another body, and a keyless call for
\* the same deployment.
RaceKeyOf == (c1 :> k1 @@ c2 :> k1 @@ c3 :> k1 @@ c4 :> None)
RaceResourceOf == [c \in {c1, c2, c3, c4} |-> d1]
RaceRequestOf == (c1 :> r1 @@ c2 :> r1 @@ c3 :> r2 @@ c4 :> r2)

DeploymentsInit == subject \in Subjects /\ Init /\ ScalingInit

DeploymentsNext ==
  \/ subject = "operations" /\ Next /\ UNCHANGED <<subject, scalingVars>>
  \/ subject = "scaling" /\ ScalingNext /\ UNCHANGED <<subject, vars>>

DeploymentsSpec == DeploymentsInit /\ [][DeploymentsNext]_<<subject, vars, scalingVars>>

\* Workers are interchangeable.
WorkerSymmetry == Permutations(Workers)
=============================================================================
