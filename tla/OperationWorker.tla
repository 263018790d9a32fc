--------------------------- MODULE OperationWorker --------------------------
(***************************************************************************)
(* The leased workers of internal/operations/worker.go running against the *)
(* operation table.  A worker's Once is split at every call it makes to    *)
(* the database or to a handler, so that other workers, cancellation       *)
(* requests and the clock can take steps between any two of them.  The     *)
(* goroutine that maintains the lease while a handler runs is the field    *)
(* beat of its worker.                                                     *)
(***************************************************************************)
EXTENDS OperationQueue, Sequences

CONSTANTS
  Handled,     \* the operations whose kind has a handler
  Cleanable,   \* the operations whose kind has a ".cancel" handler
  Steps,       \* workflow steps; a step is its progress value
  Payloads,    \* (status, checkpoint) pairs a handler records for a step
  MaxFaults,   \* bound on crashes, database errors and missed heartbeats
  MaxEvents    \* bound on the event log of one operation

ASSUME WorkerAssumption ==
  /\ Handled \subseteq Calls
  /\ Cleanable \subseteq Calls
  /\ Steps \subseteq 0 .. MaxProgress - 1
  /\ None \notin Payloads
  /\ MaxFaults \in Nat
  /\ MaxEvents \in Nat

VARIABLES
  worker,    \* what each worker's Once is doing
  steps,     \* operation_steps: the last payload of each step
  events,    \* operation_events, in sequence order
  journal,   \* history: what handlers did, by operation and generation
  faults     \* how much of MaxFaults is spent

vars == <<ops, calls, worker, steps, events, journal, faults>>

Results == {"ok", "retry", "perm"}

Worker == [pc      : {"idle", "claimed", "read", "handling", "returned",
                      "finishing", "cleaning", "cancelling"},
           op      : Calls \cup {None},
           gen     : Nat,
           attempt : 0 .. MaxAttempts,
           cancel  : BOOLEAN,
           beat    : {"off", "on", "busy", "seen", "lost"},
           result  : Results \cup {None}]

Idle == [pc |-> "idle", op |-> None, gen |-> 0, attempt |-> 0,
         cancel |-> FALSE, beat |-> "off", result |-> None]

\* The states of Once in which this worker acts on a lease it started.
Executing == {"handling", "returned", "finishing", "cleaning", "cancelling"}

Init ==
  /\ QueueInit
  /\ worker = [w \in Workers |-> Idle]
  /\ steps = [o \in Calls |-> [s \in Steps |-> None]]
  /\ events = [o \in Calls |-> <<>>]
  /\ journal = {}
  /\ faults = 0

Log(o, g, what) == journal' = journal \cup {<<o, g, what>>}

(***************************************************************************)
(* Worker.Once up to the handler.                                          *)
(***************************************************************************)

\* The transaction of ClaimOperation.
Claim(w) ==
  /\ worker[w].pc = "idle"
  /\ \E o \in Calls :
       /\ Claimable(ops[o])
       /\ ops' = [ops EXCEPT ![o] = LeaseTo(@, w)]
       /\ worker' = [worker EXCEPT ![w] = [Idle EXCEPT !.pc = "claimed", !.op = o]]
  /\ UNCHANGED <<calls, steps, events, journal, faults>>

\* ClaimOperation reads the row back after its commit, so the snapshot Once
\* works from may already be that of a later owner.
ReadSnapshot(w) ==
  /\ worker[w].pc = "claimed"
  /\ LET r == ops[worker[w].op]
     IN  worker' = [worker EXCEPT ![w] =
                     [@ EXCEPT !.pc = "read", !.gen = r.gen,
                               !.attempt = r.attempt, !.cancel = r.cancel]]
  /\ UNCHANGED <<ops, calls, steps, events, journal, faults>>

\* StartClaimedOperation and the branch Once takes after it: cancellation
\* cleanup, a missing handler, or the handler with its lease maintenance.
Start(w) ==
  /\ worker[w].pc = "read"
  /\ LET o == worker[w].op
         g == worker[w].gen
         started == ops[o].status = "leased" /\ Fenced(ops[o], w, g)
     IN  /\ ops' = [ops EXCEPT ![o] = StartClaimed(@, w, g)]
         /\ \/ /\ ~started
               /\ worker' = [worker EXCEPT ![w] = Idle]
               /\ UNCHANGED journal
            \/ /\ started /\ worker[w].cancel
               /\ worker' = [worker EXCEPT ![w].pc =
                                IF o \in Cleanable THEN "cleaning" ELSE "cancelling"]
               /\ UNCHANGED journal
            \/ /\ started /\ ~worker[w].cancel /\ o \notin Handled
               /\ worker' = [worker EXCEPT ![w].pc = "finishing", ![w].result = "perm"]
               /\ UNCHANGED journal
            \/ /\ started /\ ~worker[w].cancel /\ o \in Handled
               /\ worker' = [worker EXCEPT ![w].pc = "handling", ![w].beat = "on"]
               /\ Log(o, g, "began")
  /\ UNCHANGED <<calls, steps, events, faults>>

(***************************************************************************)
(* While the handler runs.                                                 *)
(***************************************************************************)

\* maintainLease's HeartbeatOperation: the lease is extended, or known lost.
HeartbeatOperation(w) ==
  /\ worker[w].pc = "handling" /\ worker[w].beat = "on"
  /\ LET r == ops[worker[w].op]
     IN  worker' = [worker EXCEPT ![w].beat =
            IF r.status \in {"leased", "running", "cancelling"} /\ Fenced(r, w, worker[w].gen)
              THEN "busy" ELSE "lost"]
  /\ UNCHANGED <<ops, calls, steps, events, journal, faults>>

\* maintainLease's read after a heartbeat: a requested cancellation cancels the
\* handler's context and ends the maintenance without an error.
ObserveCancellation(w) ==
  /\ worker[w].pc = "handling" /\ worker[w].beat = "busy"
  /\ worker' = [worker EXCEPT ![w].beat = IF ops[worker[w].op].cancel THEN "seen" ELSE "on"]
  /\ UNCHANGED <<ops, calls, steps, events, journal, faults>>

\* CheckpointClaimedOperation, called by the handler: one transaction for the
\* progress high-water mark, the step and, unless the step is replayed
\* unchanged, the event.
MaxOf(a, b) == IF a >= b THEN a ELSE b

Recorded(r, s) == [r EXCEPT !.progress = MaxOf(@, s)]

\* Mutant: any earlier write of the step counts as the replay.
MutDuplicateByStep(o, s, p) == steps[o][s] # None

Duplicate(o, s, p) == steps[o][s] = p

CheckpointClaimedOperation(w, s, p) ==
  /\ worker[w].pc = "handling"
  /\ LET o == worker[w].op
     IN  /\ ops[o].status \in {"running", "cancelling"}
         /\ Fenced(ops[o], w, worker[w].gen)
         /\ ops' = [ops EXCEPT ![o] = Recorded(@, s)]
         /\ steps' = [steps EXCEPT ![o][s] = p]
         /\ IF Duplicate(o, s, p)
              THEN UNCHANGED events
              ELSE /\ Len(events[o]) < MaxEvents
                   /\ events' = [events EXCEPT ![o] = Append(@, <<s, p>>)]
  /\ UNCHANGED <<calls, worker, journal, faults>>

\* The handler returns.  Once its lease maintenance has failed, or fails because
\* the handler's context is cancelled in the middle of a tick, Once gives the
\* operation up without a write.
HandlerReturns(w) ==
  /\ worker[w].pc = "handling"
  /\ \E res \in Results :
       /\ worker' = [worker EXCEPT ![w] =
             IF worker[w].beat \in {"lost", "busy"} THEN Idle
             ELSE [@ EXCEPT !.pc = "returned", !.beat = "off", !.result = res]]
       /\ IF res = "ok" THEN Log(worker[w].op, worker[w].gen, "ok") ELSE UNCHANGED journal
  /\ UNCHANGED <<ops, calls, steps, events, faults>>

(***************************************************************************)
(* Worker.Once after the handler.                                          *)
(***************************************************************************)

\* The row is read again: a cancellation takes precedence over the result.
Reread(w) ==
  /\ worker[w].pc = "returned"
  /\ worker' = [worker EXCEPT ![w].pc =
         IF ~ops[worker[w].op].cancel THEN "finishing"
         ELSE IF worker[w].op \in Cleanable THEN "cleaning" ELSE "cancelling"]
  /\ UNCHANGED <<ops, calls, steps, events, journal, faults>>

\* The ".cancel" handler; no heartbeat runs beside it.
CleanupReturns(w) ==
  /\ worker[w].pc = "cleaning"
  /\ \E res \in Results :
       IF res = "ok"
         THEN /\ worker' = [worker EXCEPT ![w].pc = "cancelling"]
              /\ Log(worker[w].op, worker[w].gen, "cleaned")
         ELSE /\ worker' = [worker EXCEPT ![w].pc = "finishing", ![w].result = res]
              /\ UNCHANGED journal
  /\ UNCHANGED <<ops, calls, steps, events, faults>>

\* The last attempt is never retried.
MayRetry(v) == v.result = "retry" /\ v.attempt < MaxAttempts

\* CompleteClaimedOperation, or FailClaimedOperation.
Finish(w) ==
  /\ worker[w].pc = "finishing"
  /\ LET v == worker[w]
     IN  ops' = [ops EXCEPT ![v.op] =
                   IF v.result = "ok" THEN CompleteClaimed(@, w, v.gen)
                                      ELSE FailClaimed(@, w, v.gen, MayRetry(v))]
  /\ worker' = [worker EXCEPT ![w] = Idle]
  /\ UNCHANGED <<calls, steps, events, journal, faults>>

FinishCancel(w) ==
  /\ worker[w].pc = "cancelling"
  /\ ops' = [ops EXCEPT ![worker[w].op] = CancelClaimed(@, w, worker[w].gen)]
  /\ worker' = [worker EXCEPT ![w] = Idle]
  /\ UNCHANGED <<calls, steps, events, journal, faults>>

(***************************************************************************)
(* Faults and the clock.                                                   *)
(***************************************************************************)
Fault == faults < MaxFaults /\ faults' = faults + 1

\* The process crashes and restarts, or a database call fails so that Once
\* returns its error: the worker forgets the operation and writes nothing.
Abandon(w) ==
  /\ worker[w].pc # "idle"
  /\ worker' = [worker EXCEPT ![w] = Idle]
  /\ Fault
  /\ UNCHANGED <<ops, calls, steps, events, journal>>

\* A heartbeat, or the read after it, fails in the database.
HeartbeatFails(w) ==
  /\ worker[w].pc = "handling" /\ worker[w].beat \in {"on", "busy"}
  /\ worker' = [worker EXCEPT ![w].beat = "lost"]
  /\ Fault
  /\ UNCHANGED <<ops, calls, steps, events, journal>>

\* The second read of the row fails: Once carries on with the handler's result.
RereadFails(w) ==
  /\ worker[w].pc = "returned"
  /\ worker' = [worker EXCEPT ![w].pc = "finishing"]
  /\ Fault
  /\ UNCHANGED <<ops, calls, steps, events, journal>>

\* A worker that is, in time, to renew or release the lease of o.  Cleanup runs
\* without heartbeats, so a lease is not kept alive through it.
KeptAlive(o) ==
  \E w \in Workers :
    /\ worker[w].op = o /\ ops[o].owner = w
    /\ worker[w].pc # "cleaning"
    /\ worker[w].beat \notin {"seen", "lost"}

LeaseExpires(o) ==
  /\ ops[o].lease = "live"
  /\ ops' = [ops EXCEPT ![o].lease = "expired"]
  /\ IF KeptAlive(o) THEN Fault ELSE UNCHANGED faults
  /\ UNCHANGED <<calls, worker, steps, events, journal>>

Table(A) == A /\ UNCHANGED <<worker, steps, events, journal, faults>>

WorkerStep(w) ==
  \/ Claim(w) \/ ReadSnapshot(w) \/ Start(w) \/ HandlerReturns(w)
  \/ Reread(w) \/ CleanupReturns(w) \/ Finish(w) \/ FinishCancel(w)

Maintenance(w) ==
  \/ HeartbeatOperation(w)
  \/ ObserveCancellation(w)
  \/ \E s \in Steps, p \in Payloads : CheckpointClaimedOperation(w, s, p)

WorkerFault(w) == Abandon(w) \/ HeartbeatFails(w) \/ RereadFails(w)

Next ==
  \/ \E c \in Calls : Table(Enqueue(c))
  \/ \E o \in Calls : Table(RequestOperationCancel(o))
  \/ \E o \in Calls : Table(BackoffElapses(o))
  \/ \E o \in Calls : LeaseExpires(o)
  \/ \E w \in Workers : WorkerStep(w) \/ Maintenance(w) \/ WorkerFault(w)

Spec == Init /\ [][Next]_vars

\* Handlers return, workers poll, clocks advance.
Fairness ==
  /\ \A w \in Workers : WF_vars(WorkerStep(w))
  /\ \A o \in Calls : WF_vars(LeaseExpires(o) /\ ~KeptAlive(o))
  /\ \A o \in Calls : WF_vars(Table(BackoffElapses(o)))

FairSpec == Spec /\ Fairness

(***************************************************************************)
(* Properties.                                                             *)
(***************************************************************************)
TypeOK ==
  /\ ops \in [Calls -> Row]
  /\ calls \in [Calls -> Call]
  /\ worker \in [Workers -> Worker]
  /\ \A w \in Workers : worker[w].pc # "idle" => worker[w].op \in Calls
  /\ steps \in [Calls -> [Steps -> Payloads \cup {None}]]
  /\ events \in [Calls -> Seq(Steps \X Payloads)]
  /\ journal \subseteq Calls \X Nat \X {"began", "ok", "cleaned"}
  /\ faults \in 0 .. MaxFaults

\* Two workers never execute one operation under one lease generation, although
\* ClaimOperation reads the generation back after its commit, when another
\* replica may already have taken the expired lease over.
OneExecutorPerGeneration ==
  \A v, w \in Workers :
    /\ v # w
    /\ worker[v].pc \in Executing /\ worker[w].pc \in Executing
    /\ worker[v].op = worker[w].op
    => worker[v].gen # worker[w].gen

\* An operation reported succeeded was completed by the execution that last
\* claimed it, whose handler did return success, and nobody had asked for its
\* cancellation: a result computed under a lost lease or overtaken by a
\* cancellation is never published.
SuccessIsEarned ==
  \A o \in Calls : ops[o].status = "succeeded" =>
    /\ <<o, ops[o].gen, "ok">> \in journal
    /\ ~ops[o].cancel
    /\ ops[o].progress = MaxProgress

\* An operation reported cancelled after its handler began was cleaned up by the
\* generation that reported it, so nothing the handler did up to its last
\* claim is left behind (for a kind that registers a ".cancel" handler).
CancelledIsCleaned ==
  \A o \in Cleanable :
    /\ ops[o].status = "cancelled"
    /\ \E g \in 1 .. MaxAttempts : <<o, g, "began">> \in journal
    => <<o, ops[o].gen, "cleaned">> \in journal

\* "bounded attempts": whatever crashes, lost leases and retries happen, the
\* handlers of an operation run under at most MaxAttempts generations, and a
\* retry is scheduled only while an attempt is left to take it.
BoundedAttempts ==
  /\ \A e \in journal : e[2] \in 1 .. MaxAttempts
  /\ \A o \in Calls : ops[o].status = "waiting" => ops[o].attempt < MaxAttempts

\* A resolved operation is never touched again by a late worker, a retry, a
\* checkpoint or a cancellation.
TerminalIsFinal == [][\A o \in Calls : Terminal(o) => ops'[o] = ops[o]]_vars

\* Progress shown to clients never moves backwards, although a retry replays
\* its checkpoints from the first step.
ProgressNeverRegresses ==
  [][\A o \in Calls : ops'[o].progress >= ops[o].progress]_vars

\* A requested cancellation is never forgotten, whoever holds the lease.
CancellationSticks ==
  [][\A o \in Calls : ops[o].cancel =>
        ops'[o].cancel /\ ops'[o].status \notin {"waiting", "pending", "succeeded"}]_vars

\* A handler that is retried replays its checkpoints, and an older worker's may
\* land among them: progress never moves back, a step's row is its latest event,
\* and a replayed checkpoint leaves no second event behind.
ReplayIsHarmless ==
  /\ ProgressNeverRegresses
  /\ [](\A o \in Calls : \A s \in Steps :
         LET mine == SelectSeq(events[o], LAMBDA e : e[1] = s)
         IN  /\ steps[o][s] = IF mine = <<>> THEN None ELSE mine[Len(mine)][2]
             /\ \A i \in 1 .. Len(mine) - 1 : mine[i] # mine[i + 1])

\* What a client can see of a row.
PhaseOf(r) == IF r.status \in OpenStatuses THEN "open" ELSE r.status

Lifecycle == INSTANCE OperationLifecycle
  WITH Operations <- Calls,
       phase <- [o \in Calls |-> PhaseOf(ops[o])],
       wanted <- [o \in Calls |-> ops[o].cancel]

\* The workers and the table implement the client-visible lifecycle: every step,
\* of however many workers in whatever order, is one of its steps or invisible.
ImplementsLifecycle == Lifecycle!Spec

(***************************************************************************)
(* The inductive invariant behind the safety properties.                   *)
(***************************************************************************)

\* Columns that move together, and where a lease may be.
RowShape ==
  \A o \in Calls :
    /\ ops[o].gen = ops[o].attempt
    /\ ops[o].status \in {"absent", "pending"} => ops[o].gen = 0
    /\ ops[o].status = "absent" => ops[o].progress = 0
    /\ ops[o].status \notin {"leased", "running", "cancelling"} => ops[o].lease = "none"
    /\ ops[o].cancel => ops[o].status \notin {"absent", "pending", "waiting", "succeeded"}
    /\ ops[o].status \in {"cancelling", "cancelled"} => ops[o].cancel
    /\ Present(o) => calls[o].pc = "done"

\* What a worker remembers is never ahead of the row, and one that has started
\* under the row's current generation is still its owner.
SnapshotOK(w) ==
  /\ worker[w].pc # "idle" => ops[worker[w].op].gen >= 1
  /\ worker[w].pc \notin {"idle", "claimed"} =>
       /\ 1 <= worker[w].gen /\ worker[w].gen <= ops[worker[w].op].gen
       /\ worker[w].attempt = worker[w].gen
  /\ worker[w].pc \in Executing /\ worker[w].gen = ops[worker[w].op].gen =>
       ops[worker[w].op].owner = w

\* A worker knows of every cancellation that has not changed the row's status.
CancelKnown(w) ==
  /\ /\ worker[w].pc = "read" /\ ops[worker[w].op].status = "leased"
     /\ Fenced(ops[worker[w].op], w, worker[w].gen)
     => worker[w].cancel = ops[worker[w].op].cancel
  /\ /\ worker[w].pc \in Executing /\ worker[w].gen = ops[worker[w].op].gen
     /\ ops[worker[w].op].status = "running" /\ ops[worker[w].op].cancel
     => worker[w].cancel

\* What a worker is about to publish has happened.
Backed(w) ==
  /\ worker[w].pc \in {"handling", "returned"} => ~worker[w].cancel
  /\ worker[w].pc \in {"returned", "finishing"} /\ worker[w].result = "ok" =>
       ~worker[w].cancel /\ <<worker[w].op, worker[w].gen, "ok">> \in journal
  /\ worker[w].pc \in {"cleaning", "cancelling"} => ops[worker[w].op].cancel
  /\ worker[w].pc = "cancelling" /\ worker[w].op \in Cleanable =>
       <<worker[w].op, worker[w].gen, "cleaned">> \in journal

WorkerShape == \A w \in Workers : SnapshotOK(w) /\ CancelKnown(w) /\ Backed(w)

JournalShape == \A e \in journal : 1 <= e[2] /\ e[2] <= ops[e[1]].gen

\* Answers name rows with the caller's key, and a key names at most one row.
KeyShape ==
  /\ \A c \in Calls : Accepted(c) =>
       Present(calls[c].ans) /\ SameIntent(calls[c].ans, c) /\ KeyOf[calls[c].ans] = KeyOf[c]
  /\ \A o1, o2 \in Calls :
       Present(o1) /\ Present(o2) /\ KeyOf[o1] # None /\ KeyOf[o1] = KeyOf[o2] => o1 = o2

IndInv ==
  /\ TypeOK /\ RowShape /\ WorkerShape /\ JournalShape /\ KeyShape
  /\ OneExecutorPerGeneration /\ SuccessIsEarned /\ CancelledIsCleaned
  /\ BoundedAttempts /\ OneUnresolvedPerDeployment

\* The two states from which no worker will take an unresolved row: its lease ran
\* out on the last attempt, or ran out while a cancellation was being worked on.
Stranded(o) ==
  /\ Open(o) /\ ops[o].lease = "expired"
  /\ \/ ops[o].attempt = MaxAttempts
     \/ ops[o].status \in {"leased", "running"} /\ ops[o].cancel

\* Every accepted operation is eventually resolved unless it is stranded: there
\* is no third way for work to be lost, whatever crashes, missed heartbeats,
\* retries and cancellations happen.
ResolvedOrStranded == \A o \in Calls : Open(o) ~> (Terminal(o) \/ Stranded(o))

\* docs/architecture/data-flows.md: "An expired lease can be recovered by another
\* replica"; docs/features/lifecycle.md: "A leased worker resumes incomplete steps".
ExpiredLeaseRecovered ==
  \A o \in Calls :
    (Open(o) /\ ops[o].lease = "expired") ~> (ops[o].lease = "live" \/ Terminal(o))
=============================================================================
