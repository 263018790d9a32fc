--------------------------- MODULE OperationQueue ---------------------------
(***************************************************************************)
(* The durable operation table of the control plane and the calls that put *)
(* rows into it: internal/store/operation_queue.go and the cancel request  *)
(* of internal/store/lifecycle.go.  Every operator on a row below is the   *)
(* body of one guarded UPDATE; a statement whose WHERE clause matches      *)
(* nothing leaves the row alone.                                           *)
(*                                                                         *)
(* Time is abstract.  A lease is "live" while lease_expires_at > NOW(),    *)
(* "expired" afterwards and "none" when the column is NULL; due stands for *)
(* next_attempt_at <= NOW().                                               *)
(***************************************************************************)
EXTENDS Naturals

CONSTANTS
  Calls,        \* EnqueueOperation calls; a row's id is the call that made it
  Workers,      \* lease owners, one per control-plane process
  MaxAttempts,  \* max_attempts of every row
  MaxProgress,  \* the progress of a completed operation (100 in the code)
  Keys,         \* (tenant, kind, idempotency key) triples
  Deployments,  \* resource names whose resource_type is 'deployment'
  KeyOf,        \* the key of a call, or None
  ResourceOf,   \* the resource a call names
  RequestOf,    \* the request body of a call
  None          \* a NULL column, an absent answer

ASSUME QueueAssumption ==
  /\ MaxAttempts \in Nat \ {0}
  /\ MaxProgress \in Nat \ {0}
  /\ None \notin Calls \cup Workers \cup Keys
  /\ "conflict" \notin Calls
  /\ KeyOf \in [Calls -> Keys \cup {None}]

VARIABLES
  ops,     \* the operations table, indexed by id
  calls    \* where each EnqueueOperation call stands

queueVars == <<ops, calls>>

OpenStatuses == {"pending", "leased", "running", "waiting", "cancelling"}
TerminalStatuses == {"succeeded", "failed", "cancelled"}
Statuses == {"absent"} \cup OpenStatuses \cup TerminalStatuses
Leases == {"none", "live", "expired"}

Row == [status   : Statuses,
        cancel   : BOOLEAN,
        attempt  : 0 .. MaxAttempts,
        gen      : Nat,
        owner    : Workers \cup {None},
        lease    : Leases,
        due      : BOOLEAN,
        progress : 0 .. MaxProgress]

Call == [pc  : {"lookup", "insert", "relookup", "done"},
         ans : Calls \cup {"conflict", None}]

Present(o) == ops[o].status # "absent"
Open(o) == ops[o].status \in OpenStatuses
Terminal(o) == ops[o].status \in TerminalStatuses

(***************************************************************************)
(* Rows.                                                                   *)
(***************************************************************************)
AbsentRow ==
  [status |-> "absent", cancel |-> FALSE, attempt |-> 0, gen |-> 0,
   owner |-> None, lease |-> "none", due |-> FALSE, progress |-> 0]

PendingRow == [AbsentRow EXCEPT !.status = "pending", !.due = TRUE]

\* Mutant: the WHERE clause forgets the rows left leased and the cancel flag.
MutClaimableLeased(r) ==
  /\ \/ r.status \in {"pending", "waiting"} /\ r.due
     \/ r.status = "running" /\ r.lease = "expired"
     \/ r.status = "cancelling" /\ r.lease # "live"
  /\ r.attempt < MaxAttempts

\* The WHERE clause of ClaimOperation's SELECT ... FOR UPDATE SKIP LOCKED.
Claimable(r) ==
  /\ \/ /\ ~r.cancel
        /\ \/ r.status \in {"pending", "waiting"} /\ r.due
           \/ r.status \in {"leased", "running"} /\ r.lease = "expired"
     \/ r.status = "cancelling" /\ r.lease \in {"none", "expired"}
  /\ r.attempt < MaxAttempts

\* Mutant: the lease keeps its generation.
MutLeaseToSameGeneration(r, w) ==
  [r EXCEPT !.status = "leased", !.attempt = @ + 1, !.owner = w, !.lease = "live"]

\* ClaimOperation's UPDATE.
LeaseTo(r, w) ==
  [r EXCEPT !.status = "leased", !.attempt = @ + 1, !.gen = @ + 1,
            !.owner = w, !.lease = "live"]

\* The fence of every claimed update: lease_owner, lease_generation and
\* lease_expires_at > NOW().
Fenced(r, w, g) == r.owner = w /\ r.gen = g /\ r.lease = "live"

StartClaimed(r, w, g) ==
  IF r.status = "leased" /\ Fenced(r, w, g)
    THEN [r EXCEPT !.status = "running"] ELSE r

MutCompleteCancelling(r, w, g) ==
  IF r.status \in {"running", "cancelling"} /\ Fenced(r, w, g)
    THEN [r EXCEPT !.status = "succeeded", !.progress = MaxProgress,
                   !.owner = None, !.lease = "none"]
    ELSE r

CompleteClaimed(r, w, g) ==
  IF r.status = "running" /\ Fenced(r, w, g)
    THEN [r EXCEPT !.status = "succeeded", !.progress = MaxProgress,
                   !.owner = None, !.lease = "none"]
    ELSE r

\* A retryable failure goes back to waiting, or stays cancelling when a
\* cancellation is outstanding; any other failure is final.
FailClaimed(r, w, g, retryable) ==
  IF r.status \in {"running", "cancelling"} /\ Fenced(r, w, g)
    THEN [r EXCEPT !.status = IF ~retryable THEN "failed"
                              ELSE IF r.cancel THEN "cancelling" ELSE "waiting",
                   !.due = FALSE, !.owner = None, !.lease = "none"]
    ELSE r

CancelClaimed(r, w, g) ==
  IF r.status \in {"running", "cancelling"} /\ Fenced(r, w, g)
    THEN [r EXCEPT !.status = "cancelled", !.owner = None, !.lease = "none"]
    ELSE r

\* RequestOperationCancel: only a row no worker ever claimed is cancelled on
\* the spot; a waiting row is made claimable at once.
CancelRequested(r) ==
  [r EXCEPT !.cancel = TRUE,
            !.status = IF r.status = "pending" THEN "cancelled" ELSE "cancelling",
            !.lease  = IF r.status = "waiting" THEN "expired" ELSE @]

(***************************************************************************)
(* EnqueueOperation: three round trips to the database, between which      *)
(* other calls, workers and cancellations take steps.                      *)
(***************************************************************************)
SameIntent(o, c) ==
  ResourceOf[o] = ResourceOf[c] /\ RequestOf[o] = RequestOf[c]

ByKey(k) == {o \in Calls : Present(o) /\ KeyOf[o] = k}

\* What the caller is told when a row already has its key.
MutAnswerAnyIntent(o, c) == o

AnswerExisting(o, c) == IF SameIntent(o, c) THEN o ELSE "conflict"

Return(c, a) == calls' = [calls EXCEPT ![c] = [pc |-> "done", ans |-> a]]

Lookup(c) ==
  /\ calls[c].pc = "lookup"
  /\ IF KeyOf[c] = None \/ ByKey(KeyOf[c]) = {}
       THEN calls' = [calls EXCEPT ![c].pc = "insert"]
       ELSE \E o \in ByKey(KeyOf[c]) : Return(c, AnswerExisting(o, c))
  /\ UNCHANGED ops

\* The unique indexes operations_idempotency and
\* one_unresolved_deployment_operation.
ViolatesUnique(c) ==
  \/ KeyOf[c] # None /\ ByKey(KeyOf[c]) # {}
  \/ /\ ResourceOf[c] \in Deployments
     /\ \E o \in Calls : Open(o) /\ ResourceOf[o] = ResourceOf[c]

Insert(c) ==
  /\ calls[c].pc = "insert"
  /\ \/ /\ ~ViolatesUnique(c)
        /\ ops' = [ops EXCEPT ![c] = PendingRow]
        /\ Return(c, c)
     \/ /\ ViolatesUnique(c)
        /\ IF KeyOf[c] = None
             THEN Return(c, "conflict")
             ELSE calls' = [calls EXCEPT ![c].pc = "relookup"]
        /\ UNCHANGED ops

Relookup(c) ==
  /\ calls[c].pc = "relookup"
  /\ IF ByKey(KeyOf[c]) = {}
       THEN Return(c, "conflict")
       ELSE \E o \in ByKey(KeyOf[c]) : Return(c, AnswerExisting(o, c))
  /\ UNCHANGED ops

RequestOperationCancel(o) ==
  /\ Open(o)
  /\ ops' = [ops EXCEPT ![o] = CancelRequested(@)]
  /\ UNCHANGED calls

\* The clock reaches next_attempt_at.
BackoffElapses(o) ==
  /\ ops[o].status = "waiting" /\ ~ops[o].due
  /\ ops' = [ops EXCEPT ![o].due = TRUE]
  /\ UNCHANGED calls

QueueInit ==
  /\ ops = [o \in Calls |-> AbsentRow]
  /\ calls = [c \in Calls |-> [pc |-> "lookup", ans |-> None]]

Enqueue(c) == Lookup(c) \/ Insert(c) \/ Relookup(c)

(***************************************************************************)
(* What EnqueueOperation promises.                                         *)
(***************************************************************************)
Accepted(c) == calls[c].ans \in Calls

\* EnqueueOperation is idempotent: two accepted calls with one idempotency key
\* were told of one row, and every accepted call's row exists and was created
\* for exactly the intent the call asked for.
IdempotentEnqueue ==
  \A c \in Calls : Accepted(c) =>
    /\ Present(calls[c].ans)
    /\ SameIntent(calls[c].ans, c)
    /\ \A d \in Calls :
         Accepted(d) /\ KeyOf[c] # None /\ KeyOf[c] = KeyOf[d] => calls[c].ans = calls[d].ans

\* No deployment ever has two unresolved lifecycle operations: the index is
\* enforced at insertion, and no later update of a claimed row, cancellation or
\* retry brings a resolved row back among the unresolved ones.
OneUnresolvedPerDeployment ==
  \A o1, o2 \in Calls :
    Open(o1) /\ Open(o2) /\ ResourceOf[o1] = ResourceOf[o2] /\ ResourceOf[o1] \in Deployments
      => o1 = o2
=============================================================================
