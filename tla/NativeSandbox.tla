---------------------------- MODULE NativeSandbox ----------------------------
(***************************************************************************)
(* One managed sandbox: its row (store/native_sandboxes.go), the wallet    *)
(* hold that pays for it (store/sandbox_billing.go), the API handlers that *)
(* create, pause, resume, observe and delete it                            *)
(* (controlapi/native_sandboxes.go), and the background reconciler that    *)
(* cleans it up and closes its hold (managedsandbox/reconciler.go).        *)
(*                                                                         *)
(* Every store transaction and every provider call is one step: the        *)
(* creation, one customer call and one reconciler job interleave between   *)
(* any two of them, each on its own copy of the row.                       *)
(***************************************************************************)
EXTENDS Integers, FiniteSetsExt

CONSTANTS
  Lifetime,    \* the paid maximum lifetime, in ticks
  Grace,       \* the five minutes after which provisioning counts as interrupted
  LastCreate,  \* a creation request is over by this time
  MaxClock,    \* bound on time
  MaxCreates,  \* bound on create requests (the first and its replays)
  MaxCalls,    \* bound on customer calls
  MaxSandboxFaults    \* bound on failed calls and crashes

ASSUME NativeSandboxConstants ==
  /\ {Lifetime, Grace, LastCreate, MaxClock} \subseteq Nat \ {0}
  /\ {MaxCreates, MaxCalls, MaxSandboxFaults} \subseteq Nat
  /\ LastCreate + Lifetime <= MaxClock

VARIABLES
  sandbox,   \* the row: status, recorded provider identities, deleted_at, billing_state_since
  hold,      \* the spend reservation
  metered,   \* the sum of running_milliseconds of the usage events
  brezel,    \* the provider's workspace and sandbox
  clock,
  creator,   \* the createSandbox request
  customer,  \* the customer's other request
  sweeper,   \* the reconciler's job
  used       \* how many creates, calls and faults there have been

sandboxVars == <<sandbox, hold, metered, brezel, clock, creator, customer, sweeper, used>>

SandboxStatuses == {"absent", "creating_workspace", "creating", "running", "standby", "deleting", "deleted",
             "expired", "failed", "unknown", "cleanup_pending"}
Live == {"running", "standby", "deleting"}
Ended == {"deleted", "expired"}

IdleCreator == [pc |-> "idle", ws |-> FALSE, state |-> "absent", from |-> "none", pending |-> FALSE]
IdleCustomer == [pc |-> "idle", action |-> "none", status |-> "absent", ws |-> FALSE,
                 since |-> 0, result |-> "absent", at |-> 0]
IdleSweeper == [pc |-> "idle", job |-> "none", status |-> "absent", ws |-> FALSE, sb |-> FALSE,
                since |-> 0, seen |-> "absent", now |-> 0, expires |-> 0, at |-> 0]

SandboxRows == [status: SandboxStatuses, ws: BOOLEAN, sb: BOOLEAN, deleted: BOOLEAN, since: 0..MaxClock]
SandboxHolds == [state: {"none", "reserved", "released", "settled"}, activated: BOOLEAN,
                 created: 0..MaxClock, expires: 0..MaxClock, charged: 0..Lifetime]
Providers == [ws: {"none", "present", "gone"}, sb: {"none"} \union Live \union Ended,
              since: 0..MaxClock, ends: 0..MaxClock]
Creators == [pc: {"idle", "reserve", "workspace", "refs", "compute", "track", "activate",
                  "undo_compute", "undo_workspace", "undo_status", "undo_hold"},
             ws: BOOLEAN, state: {"absent"} \union Live \union Ended,
             from: {"none", "reserve", "workspace", "refs", "compute", "track", "activate"},
             pending: BOOLEAN]
Customers == [pc: {"idle", "call", "workspace", "record", "close"},
              action: {"none", "pause", "resume", "delete", "remove", "observe"},
              status: SandboxStatuses, ws: BOOLEAN, since: 0..MaxClock,
              result: SandboxStatuses, at: 0..MaxClock]
Sweepers == [pc: {"idle", "get", "observed", "pending", "recover", "delete", "workspace", "deleted", "close"},
             job: {"none", "unactivated", "activated", "orphan", "interrupted", "unreserved"},
             status: SandboxStatuses, ws: BOOLEAN, sb: BOOLEAN, since: 0..MaxClock, seen: SandboxStatuses,
             now: 0..MaxClock, expires: 0..MaxClock, at: 0..MaxClock]
Uses == [creates: 0..MaxCreates, calls: 0..MaxCalls, faults: 0..MaxSandboxFaults]

SandboxTypeOK ==
  /\ sandbox \in SandboxRows
  /\ hold \in SandboxHolds
  /\ metered \in Nat
  /\ brezel \in Providers
  /\ clock \in 0..MaxClock
  /\ creator \in Creators
  /\ customer \in Customers
  /\ sweeper \in Sweepers
  /\ used \in Uses

SandboxInit ==
  /\ sandbox = [status |-> "absent", ws |-> FALSE, sb |-> FALSE, deleted |-> FALSE, since |-> 0]
  /\ hold = [state |-> "none", activated |-> FALSE, created |-> 0, expires |-> 0, charged |-> 0]
  /\ metered = 0
  /\ brezel = [ws |-> "none", sb |-> "none", since |-> 0, ends |-> 0]
  /\ clock = 0
  /\ creator = IdleCreator
  /\ customer = IdleCustomer
  /\ sweeper = IdleSweeper
  /\ used = [creates |-> 0, calls |-> 0, faults |-> 0]

\* A call that fails, or a process that stops.
SandboxFault == used.faults < MaxSandboxFaults /\ used' = [used EXCEPT !.faults = @ + 1]

(***************************************************************************)
(* The store.                                                              *)
(***************************************************************************)

\* SetNativeSandboxProviderRefs; an identity not given is kept.
SetNativeSandboxProviderRefs(ws, sb, status) ==
  sandbox' = [sandbox EXCEPT !.ws = @ \/ ws, !.sb = @ \/ sb, !.status = status,
                             !.since = IF sandbox.status # status THEN clock ELSE @]
RefsRefused == sandbox.deleted

SetNativeSandboxStatus(status) ==
  sandbox' = [sandbox EXCEPT !.status = status,
                             !.since = IF sandbox.status # status THEN clock ELSE @,
                             !.deleted = @ \/ status = "deleted"]

\* Mutant: an interval is metered whatever the sandbox did in it.
MutElapsedAnyStatus(status, at) == Max({at, sandbox.since}) - sandbox.since

\* RecordNativeSandboxTransition: the interval since the last transition is
\* metered if it was spent running, and never starts before it.
OccurredAt(at) == Max({at, sandbox.since})
Elapsed(status, at) ==
  IF sandbox.status # status /\ sandbox.status = "running" THEN OccurredAt(at) - sandbox.since ELSE 0
TransitionRefused(status) == sandbox.status = "deleted" /\ status # "deleted"

RecordNativeSandboxTransition(status, at) ==
  /\ ~TransitionRefused(status)
  /\ metered' = metered + Elapsed(status, at)
  /\ sandbox' = [sandbox EXCEPT !.status = status,
                                !.since = IF sandbox.status # status THEN OccurredAt(at) ELSE @,
                                !.deleted = @ \/ status = "deleted"]

\* boundedTransitionTime and sandboxTransitionAt.
TransitionAt(updated, since, now) ==
  IF updated > now THEN now ELSE Max({updated, since})

\* finalizeManagedSandboxSpend: closing a hold twice changes nothing.
Finalize(state) ==
  hold' = IF hold.state # "reserved" THEN hold
          ELSE [hold EXCEPT !.state = state,
                            !.charged = IF state = "settled" THEN Min({metered, Lifetime}) ELSE 0]

(***************************************************************************)
(* The provider.                                                           *)
(***************************************************************************)

\* Creation is idempotent: a replay returns the first resource, whatever has
\* become of it.
WorkspaceCreated == [brezel EXCEPT !.ws = IF @ = "none" THEN "present" ELSE @]
CanCompute == brezel.sb # "none" \/ brezel.ws = "present"
ComputeCreated ==
  IF brezel.sb # "none" THEN brezel
  ELSE [brezel EXCEPT !.sb = "running", !.since = clock, !.ends = clock + Lifetime]

\* A live sandbox is deleted at once or in the background; of one that is not
\* live the answer is that it is absent or terminal.
ComputeDeletions ==
  IF brezel.sb \in Live
  THEN {[brezel EXCEPT !.sb = s, !.since = clock] : s \in {"deleting", "deleted"}}
  ELSE {brezel}

\* A workspace with a live sandbox attached is not deleted.
Attached == brezel.ws = "present" /\ brezel.sb \in Live
WorkspaceDeleted == [brezel EXCEPT !.ws = IF @ = "present" /\ ~Attached THEN "gone" ELSE @]

\* What Get may report: a deleted sandbox is reported for a while.
Reports == CASE brezel.sb = "none" -> {"absent"}
             [] brezel.sb = "deleted" -> {"absent", "deleted"}
             [] OTHER -> {brezel.sb}

FinishDeletion ==
  /\ brezel.sb = "deleting"
  /\ brezel' = [brezel EXCEPT !.sb = "deleted", !.since = clock]
  /\ UNCHANGED <<sandbox, hold, metered, clock, creator, customer, sweeper, used>>

Expire ==
  /\ brezel.sb \in {"running", "standby"}
  /\ clock >= brezel.ends
  /\ brezel' = [brezel EXCEPT !.sb = "expired", !.since = clock]
  /\ UNCHANGED <<sandbox, hold, metered, clock, creator, customer, sweeper, used>>

Tick ==
  /\ clock < MaxClock
  /\ creator.pc # "idle" => clock < LastCreate
  /\ clock' = clock + 1
  /\ UNCHANGED <<sandbox, hold, metered, brezel, creator, customer, sweeper, used>>

(***************************************************************************)
(* createSandbox.                                                          *)
(***************************************************************************)

CreatorAt(pc) == creator' = [creator EXCEPT !.pc = pc]
Undo(pc) == creator' = [creator EXCEPT !.pc = pc, !.from = creator.pc]

\* CreateNativeSandbox, or the replay of an unfinished creation.
CreateNativeSandbox ==
  /\ creator.pc = "idle"
  /\ used.creates < MaxCreates
  /\ clock < LastCreate
  /\ ~sandbox.sb
  /\ sandbox' = IF sandbox.status # "absent" THEN sandbox
                ELSE [sandbox EXCEPT !.status = "creating_workspace", !.since = clock]
  /\ creator' = [IdleCreator EXCEPT !.pc = "reserve", !.ws = sandbox.ws]
  /\ used' = [used EXCEPT !.creates = @ + 1]
  /\ UNCHANGED <<hold, metered, brezel, clock, customer, sweeper>>

ReserveManagedSandboxSpend ==
  /\ creator.pc = "reserve"
  /\ \/ /\ hold.state \in {"reserved", "settled"}
        /\ CreatorAt(IF creator.ws THEN "compute" ELSE "workspace")
        /\ UNCHANGED <<hold, used>>
     \/ /\ hold.state = "none"
        /\ ~sandbox.deleted
        /\ hold' = [hold EXCEPT !.state = "reserved", !.created = clock, !.expires = clock + Lifetime]
        /\ CreatorAt(IF creator.ws THEN "compute" ELSE "workspace")
        /\ UNCHANGED used
     \/ /\ hold.state = "released" \/ (hold.state = "none" /\ sandbox.deleted)
        /\ Undo("undo_status")
        /\ UNCHANGED <<hold, used>>
     \/ /\ hold.state = "none"      \* no credit, no capacity, or no answer
        /\ SandboxFault
        /\ Undo("undo_status")
        /\ UNCHANGED hold
  /\ UNCHANGED <<sandbox, metered, brezel, clock, customer, sweeper>>

CreateWorkspace ==
  /\ creator.pc = "workspace"
  /\ \/ brezel' = WorkspaceCreated /\ CreatorAt("refs") /\ UNCHANGED used
     \/ brezel' \in {brezel, WorkspaceCreated} /\ SandboxFault /\ Undo("undo_status")
  /\ UNCHANGED <<sandbox, hold, metered, clock, customer, sweeper>>

\* When an identity cannot be recorded the handler has lost the row.
RecordWorkspace ==
  /\ creator.pc = "refs"
  /\ \/ /\ ~RefsRefused
        /\ SetNativeSandboxProviderRefs(TRUE, FALSE, "creating")
        /\ creator' = [creator EXCEPT !.pc = "compute", !.ws = TRUE]
        /\ UNCHANGED used
     \/ /\ RefsRefused
        /\ Undo("undo_workspace")
        /\ UNCHANGED <<sandbox, used>>
     \/ /\ SandboxFault
        /\ Undo("undo_workspace")
        /\ UNCHANGED sandbox
  /\ UNCHANGED <<hold, metered, brezel, clock, customer, sweeper>>

CreateCompute ==
  /\ creator.pc = "compute"
  /\ \/ /\ CanCompute
        /\ brezel' = ComputeCreated
        /\ creator' = [creator EXCEPT !.pc = "track", !.state = ComputeCreated.sb]
        /\ UNCHANGED used
     \/ /\ ~CanCompute
        /\ Undo("undo_workspace")
        /\ UNCHANGED <<brezel, used>>
     \/ /\ CanCompute
        /\ SandboxFault
        /\ brezel' \in {brezel, ComputeCreated}
        /\ Undo("undo_workspace")
  /\ UNCHANGED <<sandbox, hold, metered, clock, customer, sweeper>>

RecordCompute ==
  /\ creator.pc = "track"
  /\ \/ /\ ~RefsRefused
        /\ SetNativeSandboxProviderRefs(TRUE, TRUE, creator.state)
        /\ CreatorAt("activate")
        /\ UNCHANGED used
     \/ /\ RefsRefused
        /\ Undo("undo_compute")
        /\ UNCHANGED <<sandbox, used>>
     \/ /\ SandboxFault
        /\ Undo("undo_compute")
        /\ UNCHANGED sandbox
  /\ UNCHANGED <<hold, metered, brezel, clock, customer, sweeper>>

ActivateManagedSandboxSpend ==
  /\ creator.pc = "activate"
  /\ \/ /\ hold.state = "reserved"
        /\ hold' = IF hold.activated THEN hold
                   ELSE [hold EXCEPT !.activated = TRUE, !.expires = clock + Lifetime]
        /\ creator' = IdleCreator
        /\ UNCHANGED used
     \/ /\ hold.state # "reserved"
        /\ Undo("undo_compute")
        /\ UNCHANGED <<hold, used>>
     \/ /\ SandboxFault
        /\ Undo("undo_compute")
        /\ UNCHANGED hold
  /\ UNCHANGED <<sandbox, metered, brezel, clock, customer, sweeper>>

\* Compensation.  A handler that has lost the row stops after the resource it
\* had just created: the other identities it would use are empty.
UndoCompute ==
  /\ creator.pc = "undo_compute"
  /\ brezel' \in ComputeDeletions
  /\ creator' = IF creator.from = "track" THEN IdleCreator
                ELSE [creator EXCEPT !.pc = "undo_workspace"]
  /\ UNCHANGED <<sandbox, hold, metered, clock, customer, sweeper, used>>

UndoWorkspace ==
  /\ creator.pc = "undo_workspace"
  /\ brezel' = WorkspaceDeleted
  /\ \E absent \in BOOLEAN :
       LET failed == Attached \/ (brezel.ws # "present" /\ (creator.from # "activate" \/ ~absent)) IN
       creator' = CASE creator.from = "refs" -> IdleCreator
                    [] creator.from = "activate" /\ ~failed -> [creator EXCEPT !.pc = "undo_hold"]
                    [] OTHER -> [creator EXCEPT !.pc = "undo_status", !.pending = failed]
  /\ UNCHANGED <<sandbox, hold, metered, clock, customer, sweeper, used>>

UndoStatus ==
  /\ creator.pc = "undo_status"
  /\ SetNativeSandboxStatus(IF creator.pending THEN "cleanup_pending" ELSE "failed")
  /\ creator' = IF creator.pending \/ creator.from \in {"reserve", "activate"} THEN IdleCreator
                ELSE [creator EXCEPT !.pc = "undo_hold"]
  /\ UNCHANGED <<hold, metered, brezel, clock, customer, sweeper, used>>

UndoHold ==
  /\ creator.pc = "undo_hold"
  /\ Finalize("released")
  /\ creator' = IF creator.from = "activate" THEN [creator EXCEPT !.pc = "undo_status"] ELSE IdleCreator
  /\ UNCHANGED <<sandbox, metered, brezel, clock, customer, sweeper, used>>

(***************************************************************************)
(* The customer's other calls: mutateSandboxLifecycle, deleting a row that *)
(* has no sandbox, and the observation every read of a row makes.          *)
(***************************************************************************)

OwnedSandbox(action) ==
  /\ customer.pc = "idle"
  /\ used.calls < MaxCalls
  /\ sandbox.status \notin {"absent", "deleted"}
  /\ ~sandbox.deleted
  /\ sandbox.sb <=> action # "remove"
  /\ customer' = [IdleCustomer EXCEPT !.pc = IF action # "remove" THEN "call"
                                             ELSE IF sandbox.ws THEN "workspace" ELSE "record",
                                      !.action = action, !.ws = sandbox.ws, !.result = "deleted",
                                      !.status = IF action = "observe" THEN sandbox.status ELSE @,
                                      !.since = IF action = "observe" THEN sandbox.since ELSE @]
  /\ used' = [used EXCEPT !.calls = @ + 1]
  /\ UNCHANGED <<sandbox, hold, metered, brezel, clock, creator, sweeper>>

\* A confirmed deletion goes on to the workspace, anything else is recorded.
NextStep(result) ==
  IF customer.action = "delete" /\ result = "deleted" /\ customer.ws THEN "workspace" ELSE "record"

\* Pause and resume of a sandbox that cannot are refused, which ends the call.
MutateLifecycle ==
  /\ customer.pc = "call"
  /\ \/ /\ customer.action = "pause" /\ brezel.sb \in {"running", "standby"}
        /\ brezel' = [brezel EXCEPT !.sb = "standby", !.since = clock]
     \/ /\ customer.action = "resume" /\ brezel.sb \in {"running", "standby"}
        /\ brezel' = [brezel EXCEPT !.sb = "running", !.since = clock]
     \/ /\ customer.action = "delete"
        /\ brezel' \in ComputeDeletions
  /\ LET result == IF customer.action = "delete" /\ brezel'.sb # "deleting" THEN "deleted" ELSE brezel'.sb IN
     customer' = [customer EXCEPT !.result = result, !.pc = NextStep(result)]
  /\ UNCHANGED <<sandbox, hold, metered, clock, creator, sweeper, used>>

LifecycleRefused ==
  /\ customer.pc = "call"
  /\ customer.action \in {"pause", "resume"}
  /\ brezel.sb \notin {"running", "standby"}
  /\ customer' = IdleCustomer
  /\ UNCHANGED <<sandbox, hold, metered, brezel, clock, creator, sweeper, used>>

\* reconcileNativeSandbox: a terminal sandbox whose workspace is recorded is to
\* be cleaned up, an answer that says nothing makes the row unknown, and a row
\* that is to be cleaned up is left alone.
Interpreted(seen) == IF seen \in Ended \union {"absent"} /\ customer.ws THEN "cleanup_pending"
                     ELSE IF seen = "absent" THEN "deleted" ELSE seen

ObserveSandbox ==
  /\ customer.pc = "call"
  /\ customer.action = "observe"
  /\ \/ /\ \E seen \in Reports :
             customer' = IF customer.status \in {"cleanup_pending", Interpreted(seen)} THEN IdleCustomer
                         ELSE [customer EXCEPT !.pc = "record", !.result = Interpreted(seen),
                                 !.at = IF seen = "absent" THEN clock
                                        ELSE TransitionAt(brezel.since, customer.since, clock)]
        /\ UNCHANGED used
     \/ /\ SandboxFault
        /\ customer' = IF customer.status = "cleanup_pending" THEN IdleCustomer
                       ELSE [customer EXCEPT !.pc = "record", !.result = "unknown", !.at = clock]
  /\ UNCHANGED <<sandbox, hold, metered, brezel, clock, creator, sweeper>>

\* The workspace is still there, or the provider's answer does not say it is gone.
WorkspaceLeft(absent) == Attached \/ (brezel.ws # "present" /\ ~absent)

CustomerDeletesWorkspace ==
  /\ customer.pc = "workspace"
  /\ brezel' = WorkspaceDeleted
  /\ \E absent \in BOOLEAN :
       customer' = [customer EXCEPT !.pc = "record",
                      !.result = IF WorkspaceLeft(absent) THEN "cleanup_pending" ELSE "deleted"]
  /\ UNCHANGED <<sandbox, hold, metered, clock, creator, sweeper, used>>

\* An observation that repeats the status it was read with is written without
\* the transition's guard.
CustomerRecords ==
  /\ customer.pc = "record"
  /\ LET at == IF customer.action = "observe" THEN customer.at ELSE clock IN
     \/ /\ customer.action = "observe" /\ customer.result = customer.status
        /\ SetNativeSandboxStatus(customer.result)
        /\ customer' = IdleCustomer
        /\ UNCHANGED metered
     \/ /\ ~(customer.action = "observe" /\ customer.result = customer.status)
        /\ RecordNativeSandboxTransition(customer.result, at)
        /\ customer' = IF customer.action \in {"delete", "remove"} /\ customer.result = "deleted"
                       THEN [IdleCustomer EXCEPT !.pc = "close", !.action = customer.action] ELSE IdleCustomer
     \/ /\ ~(customer.action = "observe" /\ customer.result = customer.status)
        /\ TransitionRefused(customer.result)
        /\ customer' = IdleCustomer
        /\ UNCHANGED <<sandbox, metered>>
  /\ UNCHANGED <<hold, brezel, clock, creator, sweeper, used>>

CustomerCloses ==
  /\ customer.pc = "close"
  /\ Finalize(IF customer.action = "remove" THEN "released" ELSE "settled")
  /\ customer' = IdleCustomer
  /\ UNCHANGED <<sandbox, metered, brezel, clock, creator, sweeper, used>>

(***************************************************************************)
(* The reconciler.                                                         *)
(***************************************************************************)

OpenHold == hold.state = "reserved"

\* Mutant: only creations that reported their failure are looked for.
MutInterruptedNever == FALSE

\* A reservation whose creation should be over by now.
Interrupted == clock >= hold.created + Grace

\* What the three queries find, and the early returns of the jobs they start.
Job(job) ==
  CASE job = "unactivated" -> /\ OpenHold /\ ~hold.activated
                              /\ \/ sandbox.status \in {"failed", "deleted", "expired", "cleanup_pending"}
                                 \/ Interrupted
    [] job = "activated"   -> OpenHold /\ hold.activated
    [] job = "orphan"      -> ~OpenHold /\ sandbox.status = "cleanup_pending" /\ ~sandbox.deleted
    [] job = "unreserved"  -> /\ ~OpenHold /\ ~sandbox.deleted /\ sandbox.sb
                              /\ sandbox.status \notin {"deleted", "cleanup_pending"}
    [] job = "interrupted" -> /\ ~OpenHold /\ ~sandbox.deleted /\ ~sandbox.sb
                              /\ sandbox.status \in {"creating_workspace", "creating"}
                              /\ clock >= Grace

FirstStep(job) == CASE job \in {"activated", "unreserved"} -> "get"
                    [] job = "orphan" \/ sandbox.status = "cleanup_pending" -> "recover"
                    [] OTHER -> "pending"

StartJob(job) ==
  /\ sweeper.pc = "idle"
  /\ Job(job)
  /\ sweeper' = [IdleSweeper EXCEPT !.pc = FirstStep(job), !.job = job, !.status = sandbox.status,
                   !.ws = sandbox.ws, !.sb = sandbox.sb, !.since = sandbox.since,
                   !.now = clock, !.at = clock, !.expires = IF job = "activated" THEN hold.expires ELSE 0]
  /\ UNCHANGED <<sandbox, hold, metered, brezel, clock, creator, customer, used>>

\* The provider's report of an activated or unreserved sandbox; an error ends
\* an activated job and marks an unreserved row unknown.
SweeperGets ==
  /\ sweeper.pc = "get"
  /\ \/ /\ \E seen \in Reports :
             sweeper' = [sweeper EXCEPT !.pc = "observed", !.seen = seen,
                           !.at = IF seen = "absent" THEN sweeper.now
                                  ELSE TransitionAt(brezel.since, sweeper.since, sweeper.now)]
        /\ UNCHANGED used
     \/ /\ SandboxFault
        /\ sweeper' = IF sweeper.job = "unreserved" /\ sweeper.status # "unknown"
                      THEN [sweeper EXCEPT !.pc = "observed", !.seen = "unknown"] ELSE IdleSweeper
  /\ UNCHANGED <<sandbox, hold, metered, brezel, clock, creator, customer>>

\* The transition the report is recorded by, if any.
Records ==
  /\ sweeper.seen \notin {"absent", sweeper.status}
  /\ IF sweeper.job = "activated" THEN sweeper.status # "cleanup_pending" ELSE sweeper.seen \notin Ended

SandboxIsOver == sweeper.seen \in Ended \union {"absent"}
Expired == sweeper.job = "activated" /\ sweeper.expires <= sweeper.now

\* The time the paid lifetime ended.
EndedAt(since) == Max({since, IF Expired THEN sweeper.expires ELSE sweeper.now})

SweeperObserves ==
  /\ sweeper.pc = "observed"
  /\ \/ /\ Records
        /\ TransitionRefused(sweeper.seen)
        /\ sweeper' = IdleSweeper
        /\ UNCHANGED <<sandbox, metered>>
     \/ /\ IF Records THEN RecordNativeSandboxTransition(sweeper.seen, sweeper.at)
           ELSE UNCHANGED <<sandbox, metered>>
        /\ LET status == IF Records THEN sweeper.seen ELSE sweeper.status
               since == IF Records THEN sandbox'.since ELSE sweeper.since IN
           sweeper' = IF ~SandboxIsOver /\ ~Expired THEN IdleSweeper
                      ELSE [sweeper EXCEPT !.pc = IF status = "cleanup_pending" THEN "delete" ELSE "pending",
                              !.status = status, !.since = 0, !.seen = "absent", !.expires = 0,
                              !.at = IF sweeper.job = "activated" THEN EndedAt(since) ELSE @]
  /\ UNCHANGED <<hold, brezel, clock, creator, customer, used>>

\* The intent to clean up becomes durable before anything is deleted.
SweeperMarksPending ==
  /\ sweeper.pc = "pending"
  /\ \/ /\ RecordNativeSandboxTransition("cleanup_pending", sweeper.at)
        /\ sweeper' = [sweeper EXCEPT !.pc = "recover", !.status = "cleanup_pending",
                         !.ws = sandbox.ws, !.sb = sandbox.sb, !.since = 0]
     \/ /\ TransitionRefused("cleanup_pending")
        /\ sweeper' = IdleSweeper
        /\ UNCHANGED <<sandbox, metered>>
  /\ UNCHANGED <<hold, brezel, clock, creator, customer, used>>

\* recoverWorkspaceForCleanup: replaying the create key finds the workspace of
\* a creation that stopped before it recorded it.
RecoverWorkspace ==
  /\ sweeper.pc = "recover"
  /\ \/ /\ sweeper.ws \/ sweeper.sb
        /\ sweeper' = [sweeper EXCEPT !.pc = "delete"]
        /\ UNCHANGED <<sandbox, brezel>>
     \/ /\ ~sweeper.ws /\ ~sweeper.sb
        /\ brezel' = WorkspaceCreated
        /\ IF RefsRefused THEN sweeper' = IdleSweeper /\ UNCHANGED sandbox
           ELSE /\ SetNativeSandboxProviderRefs(TRUE, FALSE, "cleanup_pending")
                /\ sweeper' = [sweeper EXCEPT !.pc = "delete", !.ws = TRUE, !.sb = sandbox.sb]
  /\ UNCHANGED <<hold, metered, clock, creator, customer, used>>

\* cleanup.
SweeperDeletesCompute ==
  /\ sweeper.pc = "delete"
  /\ brezel' \in IF sweeper.sb THEN ComputeDeletions ELSE {brezel}
  /\ sweeper' = [sweeper EXCEPT !.pc = "workspace"]
  /\ UNCHANGED <<sandbox, hold, metered, clock, creator, customer, used>>

\* Mutant: the workspace's deletion is not confirmed.
MutSweeperUnconfirmed ==
  /\ sweeper.pc = "workspace"
  /\ brezel' = IF sweeper.ws THEN WorkspaceDeleted ELSE brezel
  /\ sweeper' = [sweeper EXCEPT !.pc = "deleted"]
  /\ UNCHANGED <<sandbox, hold, metered, clock, creator, customer, used>>

SweeperDeletesWorkspace ==
  /\ sweeper.pc = "workspace"
  /\ brezel' = IF sweeper.ws THEN WorkspaceDeleted ELSE brezel
  /\ sweeper' = IF sweeper.ws /\ Attached THEN IdleSweeper ELSE [sweeper EXCEPT !.pc = "deleted"]
  /\ UNCHANGED <<sandbox, hold, metered, clock, creator, customer, used>>

SweeperMarksDeleted ==
  /\ sweeper.pc = "deleted"
  /\ RecordNativeSandboxTransition("deleted", IF sweeper.job = "activated" THEN sweeper.at ELSE sweeper.now)
  /\ sweeper' = IF sweeper.job \in {"unactivated", "activated"} THEN [IdleSweeper EXCEPT !.pc = "close", !.job = sweeper.job] ELSE IdleSweeper
  /\ UNCHANGED <<hold, brezel, clock, creator, customer, used>>

SweeperCloses ==
  /\ sweeper.pc = "close"
  /\ Finalize(IF sweeper.job = "activated" THEN "settled" ELSE "released")
  /\ sweeper' = IdleSweeper
  /\ UNCHANGED <<sandbox, metered, brezel, clock, creator, customer, used>>

\* A process stops, or a call whose failure only ends the handler fails.
Stops ==
  /\ SandboxFault
  /\ \/ creator.pc # "idle" /\ creator' = IdleCreator /\ UNCHANGED <<customer, sweeper>>
     \/ customer.pc # "idle" /\ customer' = IdleCustomer /\ UNCHANGED <<creator, sweeper>>
     \/ sweeper.pc # "idle" /\ sweeper' = IdleSweeper /\ UNCHANGED <<creator, customer>>
  /\ UNCHANGED <<sandbox, hold, metered, brezel, clock>>

CreatorStep ==
  \/ ReserveManagedSandboxSpend \/ CreateWorkspace \/ RecordWorkspace \/ CreateCompute \/ RecordCompute
  \/ ActivateManagedSandboxSpend \/ UndoCompute \/ UndoWorkspace \/ UndoStatus \/ UndoHold
CustomerStep ==
  \/ MutateLifecycle \/ LifecycleRefused \/ ObserveSandbox \/ CustomerDeletesWorkspace \/ CustomerRecords
  \/ CustomerCloses
SweeperStep ==
  \/ \E job \in {"unactivated", "activated", "orphan", "unreserved", "interrupted"} : StartJob(job)
  \/ SweeperGets \/ SweeperObserves \/ SweeperMarksPending \/ RecoverWorkspace
  \/ SweeperDeletesCompute \/ SweeperDeletesWorkspace \/ SweeperMarksDeleted \/ SweeperCloses
ProviderStep == FinishDeletion \/ Expire

SandboxNext ==
  \/ CreateNativeSandbox \/ CreatorStep
  \/ \E action \in {"pause", "resume", "delete", "remove", "observe"} : OwnedSandbox(action)
  \/ CustomerStep
  \/ SweeperStep
  \/ ProviderStep
  \/ Tick
  \/ Stops

\* Handlers run to their end, the reconciler is a ticker, the provider finishes
\* what it began and time passes.
SandboxFairness ==
  /\ WF_sandboxVars(CreatorStep)
  /\ WF_sandboxVars(CustomerStep)
  /\ WF_sandboxVars(SweeperStep)
  /\ WF_sandboxVars(ProviderStep)
  /\ WF_sandboxVars(Tick)

SandboxSpec == SandboxInit /\ [][SandboxNext]_sandboxVars /\ SandboxFairness

(***************************************************************************)
(* Properties.                                                             *)
(***************************************************************************)

\* "Concurrent API and background reconciliation attempts therefore cannot
\* meter the same interval twice" (store/native_sandboxes.go): what is metered
\* never exceeds the time from the creation of the row to its last transition,
\* and nothing is metered after the settlement has read the meter.
BillIsExact ==
  /\ metered <= sandbox.since
  /\ hold.state = "settled" => hold.charged = Min({metered, Lifetime})

\* The reconciler closes a hold, and anybody settles one, only when the
\* provider runs nothing for it and keeps no workspace; nothing is started
\* there afterwards.
ClosedAfterCleanup ==
  /\ [][OpenHold /\ ~OpenHold' /\ (hold'.state = "settled" \/ sweeper.pc = "close") =>
          brezel.sb \notin Live /\ brezel.ws # "present"]_sandboxVars
  /\ [](hold.state = "settled" => brezel.sb \notin Live /\ brezel.ws # "present")

\* "the fail-safe that expires compute, confirms provider cleanup, and releases
\* or settles wallet holds" (managedsandbox/reconciler.go).
HoldsAreClosed == [](OpenHold => <>~OpenHold)

\* The part of it that holds: an open hold is closed, unless its row was made
\* terminal before that.
HoldsAreClosedUnlessDeleted == [](OpenHold => <>(~OpenHold \/ sandbox.status = "deleted"))
=============================================================================
