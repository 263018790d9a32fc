------------------------- MODULE OperationLifecycle -------------------------
(***************************************************************************)
(* What the operation queue promises a client of the control plane, with   *)
(* leases, workers, attempts and retries left out: an operation is open    *)
(* from its acceptance until it is resolved once and for all; it succeeds  *)
(* only if nobody asked for its cancellation and is cancelled only if      *)
(* somebody did; and a deployment has one open operation at a time.        *)
(***************************************************************************)
CONSTANTS Operations, Deployments, ResourceOf

VARIABLES
  phase,    \* absent, open, or how the operation was resolved
  wanted    \* whether cancellation was requested

lifecycleVars == <<phase, wanted>>

Resolutions == {"succeeded", "failed", "cancelled"}

Init ==
  /\ phase = [o \in Operations |-> "absent"]
  /\ wanted = [o \in Operations |-> FALSE]

Accept(o) ==
  /\ phase[o] = "absent"
  /\ ResourceOf[o] \in Deployments =>
       \A x \in Operations : phase[x] = "open" => ResourceOf[x] # ResourceOf[o]
  /\ phase' = [phase EXCEPT ![o] = "open"]
  /\ UNCHANGED wanted

\* An operation nobody has begun is cancelled at once.
RequestCancel(o) ==
  /\ phase[o] = "open"
  /\ wanted' = [wanted EXCEPT ![o] = TRUE]
  /\ phase' \in {phase, [phase EXCEPT ![o] = "cancelled"]}

Resolve(o) ==
  /\ phase[o] = "open"
  /\ \E p \in Resolutions :
       /\ p = "succeeded" => ~wanted[o]
       /\ p = "cancelled" => wanted[o]
       /\ phase' = [phase EXCEPT ![o] = p]
  /\ UNCHANGED wanted

Next == \E o \in Operations : Accept(o) \/ RequestCancel(o) \/ Resolve(o)

Spec == Init /\ [][Next]_lifecycleVars
=============================================================================
