----------------------------- MODULE AsyncInference -----------------------------
(***************************************************************************)
(* Durable async inference: the table async_inference_jobs                  *)
(* (internal/store/async_inference.go) and the workers of                   *)
(* internal/asyncinference/service.go that claim a job, keep its lease      *)
(* alive, send it through the gateway, commit the encrypted result and      *)
(* deliver the completion webhook.                                          *)
(*                                                                         *)
(* Every action is one database statement, one message to the gateway or    *)
(* to the webhook receiver, or one passage of time.  A heartbeat that finds *)
(* its lease changes nothing a property can see (the lease stays live), so  *)
(* only the heartbeats that fail are actions; they cancel the context       *)
(* everything else of the execution runs in.                                *)
(***************************************************************************)
EXTENDS Naturals, FiniteSets

CONSTANTS
    Jobs,          \* idempotency keys; a repeated submission answers the row it finds
    NoJob,         \* a worker between two turns has none
    Workers,       \* one Run loop per control-plane replica
    MaxAttempts,   \* attempt < 3 in the claim
    MaxHooks,      \* three webhook attempts
    MaxClaims,     \* bound on claims, and so on fencing tokens, in a behaviour
    MaxFaults      \* bound on crashes, lost answers and failed statements

ASSUME AsyncConstants ==
    /\ NoJob \notin Jobs
    /\ MaxAttempts \in Nat \ {0}
    /\ MaxHooks \in Nat \ {0}
    /\ MaxClaims \in Nat
    /\ MaxFaults \in Nat

Tokens == 0 .. MaxClaims     \* 0 is NULL

Terminal == {"succeeded", "failed", "cancelled", "expired"}

Row ==
    [ status   : {"absent", "queued", "running"} \cup Terminal,
      attempt  : 0 .. MaxAttempts,
      token    : Tokens,                 \* lease_token
      live     : BOOLEAN,                \* lease_expires_at > NOW()
      past     : BOOLEAN,                \* execution_deadline <= NOW()
      result   : Tokens,                 \* whose answer result_ciphertext is
      hook     : {"not_configured", "pending", "delivered", "failed"},
      hooks    : 0 .. MaxHooks ]         \* webhook_attempts

Worker ==
    [ pc      : {"idle", "claimed", "executing", "received", "delivering", "recording",
                 "finished", "erred"},
      job     : Jobs \cup {NoJob},
      token   : Tokens,
      attempt : 0 .. MaxAttempts,        \* job.Attempt of the snapshot
      tries   : 0 .. MaxHooks,           \* the loop counter of deliverWebhook
      reached : BOOLEAN,                 \* the last webhook request was answered 2xx
      lost    : BOOLEAN ]                \* the execution context was cancelled

VARIABLES
    job,        \* the table
    worker,     \* the Run loops
    claims,     \* tokens drawn so far
    latest,     \* history: the token of the last claim of each job
    executed,   \* history: how often each job was sent to the gateway
    bodies,     \* history: whose answers were sent to each job's webhook
    faults

history == <<latest, executed, bodies>>
jobVars == <<job, worker, claims, history, faults>>

JobTypeOK ==
    /\ job \in [Jobs -> Row]
    /\ worker \in [Workers -> Worker]
    /\ claims \in Tokens
    /\ latest \in [Jobs -> Tokens]
    /\ executed \in [Jobs -> Nat]
    /\ bodies \in [Jobs -> SUBSET Tokens]
    /\ faults \in 0 .. MaxFaults

NoRow ==
    [ status |-> "absent", attempt |-> 0, token |-> 0, live |-> FALSE, past |-> FALSE,
      result |-> 0, hook |-> "not_configured", hooks |-> 0 ]

Idle ==
    [ pc |-> "idle", job |-> NoJob, token |-> 0, attempt |-> 0, tries |-> 0,
      reached |-> FALSE, lost |-> FALSE ]

JobInit ==
    /\ job = [j \in Jobs |-> NoRow]
    /\ worker = [w \in Workers |-> Idle]
    /\ claims = 0
    /\ latest = [j \in Jobs |-> 0]
    /\ executed = [j \in Jobs |-> 0]
    /\ bodies = [j \in Jobs |-> {}]
    /\ faults = 0

Fault == faults < MaxFaults /\ faults' = faults + 1

-----------------------------------------------------------------------------
(* Statements of the table.                                                *)

Unleased(row) == [row EXCEPT !.token = 0, !.live = FALSE]

Active(row) == row.status \in {"queued", "running"}

\* Submit and CreateAsyncInferenceJob.  A key that exists already answers its
\* row, or a conflict, and changes nothing.
Submit(j) ==
    /\ job[j].status = "absent"
    /\ \E hook \in {"not_configured", "pending"} :
          job' = [job EXCEPT ![j] = [NoRow EXCEPT !.status = "queued", !.hook = hook]]
    /\ UNCHANGED <<worker, claims, history, faults>>

Cancellable(row) == Active(row)

CancelAsyncInferenceJob(j) ==
    /\ Cancellable(job[j])
    /\ job' = [job EXCEPT ![j] = [Unleased(@) EXCEPT !.status = "cancelled"]]
    /\ UNCHANGED <<worker, claims, history, faults>>

\* Mutant: only waiting jobs expire.
MutExpirable(row) == row.status = "queued" /\ row.past

Expirable(row) == Active(row) /\ row.past

\* One statement for all jobs, at the top of every turn of Run; retention
\* ends after the execution deadline, so the deadline alone decides.
ExpireAsyncInferenceJobs(w) ==
    /\ worker[w].pc = "idle"
    /\ \E j \in Jobs : Expirable(job[j])
    /\ job' = [j \in Jobs |->
                  IF Expirable(job[j]) THEN [Unleased(job[j]) EXCEPT !.status = "expired"]
                                       ELSE job[j]]
    /\ UNCHANGED <<worker, claims, history, faults>>

Claimable(row) ==
    /\ row.status = "queued" \/ (row.status = "running" /\ ~ row.live)
    /\ ~ row.past
    /\ row.attempt < MaxAttempts

NextAttempt(row) == row.attempt + 1

\* Which claimable job is taken (priority, age, locked rows) is left open.
ClaimAsyncInferenceJob(w, j) ==
    /\ worker[w].pc = "idle"
    /\ claims < MaxClaims
    /\ Claimable(job[j])
    /\ claims' = claims + 1
    /\ job' = [job EXCEPT ![j].status = "running", ![j].token = claims + 1, ![j].live = TRUE,
                          ![j].attempt = NextAttempt(job[j])]
    /\ latest' = [latest EXCEPT ![j] = claims + 1]
    /\ worker' = [worker EXCEPT ![w] = [Idle EXCEPT !.pc = "claimed", !.job = j,
                                                    !.token = claims + 1]]
    /\ UNCHANGED <<executed, bodies, faults>>

\* Mutant: the token is not compared.
MutFenced(w) ==
    LET row == job[worker[w].job] IN row.status = "running" /\ row.live

\* The WHERE clause of heartbeat, complete and fail.
Fenced(w) ==
    LET row == job[worker[w].job]
    IN  row.status = "running" /\ row.token = worker[w].token /\ row.live

-----------------------------------------------------------------------------
(* One turn of Run.                                                        *)

At(w, where) == worker[w].pc = where

WorkerGoes(w, where) == worker' = [worker EXCEPT ![w].pc = where]

\* The row is read after the claim has committed, and sent to the gateway.
Execute(w) ==
    LET j == worker[w].job IN
    /\ At(w, "claimed")
    /\ worker' = [worker EXCEPT ![w].pc = "executing", ![w].attempt = job[j].attempt]
    /\ executed' = [executed EXCEPT ![j] = @ + 1]
    /\ UNCHANGED <<job, claims, latest, bodies, faults>>

Working == {"executing", "received", "delivering", "recording", "finished", "erred"}

\* maintainLease: the row is no longer this worker's, because its lease ran
\* out, somebody claimed, cancelled or expired it, or the worker itself has
\* completed it and is still delivering the webhook.
HeartbeatRefused(w) ==
    /\ worker[w].pc \in Working
    /\ ~ Fenced(w)
    /\ ~ worker[w].lost
    /\ worker' = [worker EXCEPT ![w].lost = TRUE]
    /\ UNCHANGED <<job, claims, history, faults>>

\* The heartbeat statement fails, or the execution ends while it is under way.
HeartbeatFails(w) ==
    /\ worker[w].pc \in Working
    /\ ~ worker[w].lost
    /\ Fault
    /\ worker' = [worker EXCEPT ![w].lost = TRUE]
    /\ UNCHANGED <<job, claims, history>>

\* Any error of execute before the answer: the gateway, the network, the
\* deadline, the cancelled context, a payload that cannot be decrypted.
ExecuteFails(w) ==
    /\ At(w, "executing")
    /\ WorkerGoes(w, "erred")
    /\ UNCHANGED <<job, claims, history, faults>>

\* A 2xx answer, read to its end before the deadline of the request.
GatewayAnswers(w) ==
    /\ At(w, "executing")
    /\ ~ job[worker[w].job].past
    /\ WorkerGoes(w, "received")
    /\ UNCHANGED <<job, claims, history, faults>>

Completed(w) ==
    job' = [job EXCEPT ![worker[w].job] =
               [Unleased(@) EXCEPT !.status = "succeeded", !.result = worker[w].token]]

AfterCompletion(w) ==
    IF job[worker[w].job].hook = "not_configured" THEN "finished" ELSE "delivering"

\* Mutant: an update that changed no row is not noticed.
MutCompleteUnchecked(w) ==
    /\ At(w, "received")
    /\ IF Fenced(w) THEN Completed(w) ELSE UNCHANGED job
    /\ WorkerGoes(w, AfterCompletion(w))
    /\ UNCHANGED <<claims, history, faults>>

CompleteAsyncInferenceJob(w) ==
    /\ At(w, "received")
    /\ \/ /\ ~ worker[w].lost /\ Fenced(w)
          /\ Completed(w)
          /\ WorkerGoes(w, AfterCompletion(w))
       \/ /\ worker[w].lost \/ ~ Fenced(w)
          /\ WorkerGoes(w, "erred")
          /\ UNCHANGED job
    /\ UNCHANGED <<claims, history, faults>>

\* The statement commits and its answer is lost.
CompletionAnswerLost(w) ==
    /\ At(w, "received")
    /\ Fenced(w)
    /\ Fault
    /\ Completed(w)
    /\ WorkerGoes(w, "erred")
    /\ UNCHANGED <<claims, history>>

\* deliverWebhook: one signed request; without its secret there is none.
SendWebhook(w) ==
    LET j == worker[w].job IN
    /\ At(w, "delivering")
    /\ ~ worker[w].lost
    /\ bodies' = [bodies EXCEPT ![j] = @ \cup {worker[w].token}]
    /\ \E reached \in BOOLEAN :
          worker' = [worker EXCEPT ![w].pc = "recording", ![w].reached = reached,
                                   ![w].tries = @ + 1]
    /\ UNCHANGED <<job, claims, latest, executed, faults>>

SecretUnavailable(w) ==
    /\ At(w, "delivering")
    /\ worker[w].tries = 0
    /\ Fault
    /\ WorkerGoes(w, "finished")
    /\ UNCHANGED <<job, claims, history>>

Recorded(row, reached) ==
    [row EXCEPT !.hooks = @ + 1,
                !.hook = IF reached THEN "delivered"
                         ELSE IF row.hooks + 1 >= MaxHooks THEN "failed" ELSE "pending"]

RecordAsyncWebhookAttempt(w) ==
    LET j == worker[w].job IN
    /\ At(w, "recording")
    /\ ~ worker[w].lost
    /\ job[j].hooks < MaxHooks
    /\ job' = [job EXCEPT ![j] = Recorded(@, worker[w].reached)]
    /\ WorkerGoes(w, IF worker[w].reached \/ worker[w].tries = MaxHooks
               THEN "finished" ELSE "delivering")
    /\ UNCHANGED <<claims, history, faults>>

\* Sending and recording fail in a cancelled context, and the delivery ends.
DeliveryCancelled(w) ==
    /\ worker[w].pc \in {"delivering", "recording"}
    /\ worker[w].lost
    /\ WorkerGoes(w, "finished")
    /\ UNCHANGED <<job, claims, history, faults>>

Retryable(w) == worker[w].attempt < MaxAttempts /\ ~ job[worker[w].job].past

\* The end of the turn: a worker that is not sure of its lease writes nothing.
FailAsyncInferenceJob(w) ==
    /\ At(w, "erred")
    /\ ~ worker[w].lost
    /\ IF Fenced(w)
       THEN job' = [job EXCEPT ![worker[w].job] =
                       [Unleased(@) EXCEPT !.status = IF Retryable(w) THEN "queued" ELSE "failed"]]
       ELSE UNCHANGED job
    /\ worker' = [worker EXCEPT ![w] = Idle]
    /\ UNCHANGED <<claims, history, faults>>

EndTurn(w) ==
    /\ At(w, "finished") \/ (At(w, "erred") /\ worker[w].lost)
    /\ worker' = [worker EXCEPT ![w] = Idle]
    /\ UNCHANGED <<job, claims, history, faults>>

-----------------------------------------------------------------------------
(* Time and crashes.                                                       *)

\* The process stops, or Run forgets the job: the read after the claim
\* failed, or the final statement did.
Crash(w) ==
    /\ ~ At(w, "idle")
    /\ Fault
    /\ worker' = [worker EXCEPT ![w] = Idle]
    /\ UNCHANGED <<job, claims, history>>

\* Heartbeats are late, or nobody sends them any more.
LeaseExpires(j) ==
    /\ job[j].status = "running" /\ job[j].live
    /\ job' = [job EXCEPT ![j].live = FALSE]
    /\ UNCHANGED <<worker, claims, history, faults>>

DeadlinePasses(j) ==
    /\ Active(job[j]) /\ ~ job[j].past
    /\ job' = [job EXCEPT ![j].past = TRUE]
    /\ UNCHANGED <<worker, claims, history, faults>>

-----------------------------------------------------------------------------

Turn(w) ==
    \/ Execute(w)
    \/ ExecuteFails(w) \/ GatewayAnswers(w)
    \/ CompleteAsyncInferenceJob(w)
    \/ SendWebhook(w) \/ RecordAsyncWebhookAttempt(w) \/ DeliveryCancelled(w)
    \/ FailAsyncInferenceJob(w) \/ EndTurn(w)

JobNext ==
    \/ \E j \in Jobs :
          Submit(j) \/ CancelAsyncInferenceJob(j) \/ LeaseExpires(j) \/ DeadlinePasses(j)
    \/ \E w \in Workers :
          \/ ExpireAsyncInferenceJobs(w)
          \/ \E j \in Jobs : ClaimAsyncInferenceJob(w, j)
          \/ Turn(w)
          \/ HeartbeatRefused(w) \/ HeartbeatFails(w)
          \/ CompletionAnswerLost(w) \/ SecretUnavailable(w) \/ Crash(w)

\* The clock reaches every deadline; a turn ends, because the request to the
\* gateway is bounded by the deadline and a webhook request by its client's
\* timeout; and a worker between turns expires jobs first.
JobFairness ==
    /\ \A j \in Jobs : WF_jobVars(DeadlinePasses(j))
    /\ \A w \in Workers : WF_jobVars(Turn(w)) /\ WF_jobVars(ExpireAsyncInferenceJobs(w))

JobSpec == JobInit /\ [][JobNext]_jobVars /\ JobFairness

-----------------------------------------------------------------------------
(* Properties.                                                             *)

\* A stored result is the answer of the last worker that claimed the job, it
\* was stored by a success, and a success has one: no worker whose lease was
\* taken over, cancelled or expired commits anything.
ResultIsFenced ==
    \A j \in Jobs :
        /\ job[j].status = "succeeded" <=> job[j].result # 0
        /\ job[j].result # 0 => job[j].result = latest[j]

\* What a completion webhook carries is the committed result of a job that
\* succeeded, never the answer of a worker whose completion was refused.
WebhookCarriesResult ==
    \A j \in Jobs :
        /\ bodies[j] \subseteq {job[j].result} \ {0}
        /\ job[j].hook \in {"delivered", "failed"} => bodies[j] # {}

\* Completion, failure, expiry and cancellation race for a job and exactly
\* one of them wins: a terminal job keeps its status and its result.
JobsEndOnce ==
    [][\A j \in Jobs :
          job[j].status \in Terminal =>
              job'[j].status = job[j].status /\ job'[j].result = job[j].result]_jobVars

\* Every submitted job ends, whatever crashes and however often its lease is
\* lost, because a deadline ends what no worker can claim any more, and on the
\* way it is sent to the endpoint at most MaxAttempts times.
EveryJobEnds ==
    /\ [](\A j \in Jobs : executed[j] <= MaxAttempts)
    /\ \A j \in Jobs : job[j].status = "queued" ~> job[j].status \in Terminal

\* A completion webhook is delivered, or given up after its attempts.
WebhookConcluded ==
    \A j \in Jobs :
        job[j].status = "succeeded" /\ job[j].hook = "pending"
            ~> job[j].hook \in {"delivered", "failed"}

(***************************************************************************)
(* The inductive invariant behind the safety properties.                   *)
(***************************************************************************)

\* A lease belongs to the last claim, and only a running job has one.
LeaseOfLastClaim ==
    \A j \in Jobs :
        IF job[j].status = "running"
        THEN job[j].token = latest[j] /\ job[j].token # 0
        ELSE job[j].token = 0

\* A worker in its turn holds a token of its own, and one that delivers a
\* webhook has committed its answer as the job's result.
TurnsAnchored ==
    \A w \in Workers : worker[w].pc # "idle" =>
        /\ worker[w].job \in Jobs
        /\ worker[w].token # 0
        /\ worker[w].pc \in {"delivering", "recording"} =>
              job[worker[w].job].result = worker[w].token
        /\ worker[w].pc \notin {"recording", "finished", "erred"} => worker[w].tries < MaxHooks
        /\ worker[w].pc = "recording" => worker[w].token \in bodies[worker[w].job]

JobIndInv ==
    JobTypeOK /\ LeaseOfLastClaim /\ TurnsAnchored /\ ResultIsFenced /\ WebhookCarriesResult

=============================================================================
