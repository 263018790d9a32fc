--------------------------- MODULE MCRequestFront ---------------------------
(***************************************************************************)
(* Instances for TLC of the ways a request is served: the admission pool   *)
(* of a gateway, the workers of asynchronous inference and the billing of  *)
(* hosted Model APIs.  They share no state, so a behaviour is about one of *)
(* them, its subject; the others keep their initial state.                 *)
(***************************************************************************)
EXTENDS AdmissionPool, AsyncInference, HostedUsage

CONSTANTS
  Subjects,                  \* the components to check
  r1, r2, r3, j1, w1, w2, h1

VARIABLE subject

frontVars == <<subject, vars, jobVars, hostedVars>>

MCRequests == {r1, r2, r3}

Limit(max, depth, enabled, accepts) ==
  [max |-> max, depth |-> depth, enabled |-> enabled, accepts |-> accepts]

\* One slot and a queue of two; two slots, no queue and a request over the
\* limits; a disabled policy; and an invalid one, which Replace treats as
\* absent.
MCPolicies ==
  { Limit(1, 2, TRUE, MCRequests),
    Limit(2, 0, TRUE, MCRequests \ {r3}),
    Limit(1, 2, FALSE, MCRequests),
    Limit(0, 1, TRUE, MCRequests) }

FrontInit ==
  /\ subject \in Subjects
  /\ Init /\ JobInit
  /\ HostedInit /\ (subject # "hosted" => rates = <<1>>)

FrontNext ==
  \/ subject = "admission" /\ Next /\ UNCHANGED <<subject, jobVars, hostedVars>>
  \/ subject = "async" /\ JobNext /\ UNCHANGED <<subject, vars, hostedVars>>
  \/ subject = "hosted" /\ HostedNext /\ UNCHANGED <<subject, vars, jobVars>>

\* The fairness of each component, owed by the component that is the subject.
AdmissionIsFair ==
  \A r \in Requests :
    /\ WF_vars(subject = "admission" /\ Recheck(r))
    /\ WF_vars(subject = "admission" /\ Wake(r))
    /\ WF_vars(subject = "admission" /\ RemoveWaiter(r))
    /\ WF_vars(subject = "admission" /\ CountTimeout(r))
    /\ WF_vars(subject = "admission" /\ Release(r))

AsyncIsFair ==
  /\ \A j \in Jobs : WF_jobVars(subject = "async" /\ DeadlinePasses(j))
  /\ \A w \in Workers : /\ WF_jobVars(subject = "async" /\ Turn(w))
                        /\ WF_jobVars(subject = "async" /\ ExpireAsyncInferenceJobs(w))

\* Handlers run, time passes, and the reconciler, which runs every 30 seconds,
\* takes up what it may and goes on with it.
HostedIsFair ==
  /\ \A h \in HostedRequests :
       /\ WF_hostedVars(subject = "hosted" /\ Serve(h))
       /\ WF_hostedVars(subject = "hosted" /\ GracePasses(h))
       /\ WF_hostedVars(subject = "hosted" /\ ListReconcileable(h))
  /\ WF_hostedVars(subject = "hosted" /\ Reconcile)

FrontSpec ==
  FrontInit /\ [][FrontNext]_frontVars /\ AdmissionIsFair /\ AsyncIsFair /\ HostedIsFair
=============================================================================
