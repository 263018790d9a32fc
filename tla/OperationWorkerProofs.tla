----------------------- MODULE OperationWorkerProofs ------------------------
(***************************************************************************)
(* Machine-checked proofs about OperationWorker, for any number of calls   *)
(* and workers and any bounds.                                             *)
(***************************************************************************)
EXTENDS OperationWorker, TLAPS

\* The bounds are natural numbers, and their ends lie within them.
LEMMA Bounds ==
  /\ MaxAttempts \in Nat /\ MaxProgress \in Nat /\ MaxFaults \in Nat
  /\ MaxProgress \in 0 .. MaxProgress
  /\ 0 \in 0 .. MaxAttempts /\ 0 \in 0 .. MaxProgress
  /\ Steps \subseteq 0 .. MaxProgress
  BY QueueAssumption, WorkerAssumption

\* The initial state has the declared types.
LEMMA InitTypeOK == Init => TypeOK
  BY Bounds DEF Init, QueueInit, AbsentRow, Idle, TypeOK, Row, Call, Worker, Statuses,
         Leases, OpenStatuses, TerminalStatuses, Results

\* A freshly inserted row has the row type.
LEMMA PendingRowType == PendingRow \in Row
<1>1. AbsentRow \in Row
  BY Bounds DEF AbsentRow, Row, Statuses, OpenStatuses, TerminalStatuses, Leases
<1> QED
  BY <1>1 DEF PendingRow, Row, Statuses, OpenStatuses, TerminalStatuses, Leases

\* Appending an element keeps the type of a log.
LEMMA AppendType ==
  ASSUME NEW S, NEW q \in Seq(S), NEW e \in S PROVE Append(q, e) \in Seq(S)
  OBVIOUS

\* The guarded updates of a claimed row keep its type.
LEMMA RowTypes ==
  ASSUME NEW r \in Row, NEW w \in Workers, NEW g
  PROVE  /\ Claimable(r) => LeaseTo(r, w) \in Row
         /\ StartClaimed(r, w, g) \in Row
         /\ CompleteClaimed(r, w, g) \in Row
         /\ \A b \in BOOLEAN : FailClaimed(r, w, g, b) \in Row
         /\ CancelClaimed(r, w, g) \in Row
         /\ CancelRequested(r) \in Row
         /\ \A s \in Steps : Recorded(r, s) \in Row
  <1> USE DEF Row, Statuses, OpenStatuses, TerminalStatuses, Leases
  <1>2. Claimable(r) => LeaseTo(r, w) \in Row
    <2>1. Claimable(r) => r.attempt + 1 \in 0 .. MaxAttempts
      BY Bounds DEF Claimable
    <2>2. r.gen + 1 \in Nat
      OBVIOUS
    <2> QED
      BY <2>1, <2>2 DEF LeaseTo
  <1>3. StartClaimed(r, w, g) \in Row
    BY DEF StartClaimed
  <1>4. CompleteClaimed(r, w, g) \in Row
    BY Bounds DEF CompleteClaimed
  <1>5. \A b \in BOOLEAN : FailClaimed(r, w, g, b) \in Row
    BY DEF FailClaimed
  <1>6. CancelClaimed(r, w, g) \in Row
    BY DEF CancelClaimed
  <1>7. CancelRequested(r) \in Row
    BY DEF CancelRequested
  <1>8. \A s \in Steps : Recorded(r, s) \in Row
    BY Bounds DEF Recorded, MaxOf
  <1> QED
    BY <1>2, <1>3, <1>4, <1>5, <1>6, <1>7, <1>8

\* A step of the table, a worker or the clock keeps the types.
LEMMA NextTypeOK == TypeOK /\ [Next]_vars => TypeOK'
<1> SUFFICES ASSUME TypeOK, [Next]_vars PROVE TypeOK'
  OBVIOUS
<1>o. ops \in [Calls -> Row]
  BY DEF TypeOK
<1>w. worker \in [Workers -> Worker]
  BY DEF TypeOK
<1>p. \A w \in Workers : worker[w].pc # "idle" => worker[w].op \in Calls
  BY DEF TypeOK
<1>i. Idle \in Worker
  BY Bounds DEF Idle, Worker
<1>1. ASSUME NEW c \in Calls, Table(Enqueue(c)) PROVE TypeOK'
  <2>c. calls \in [Calls -> Call]
    BY DEF TypeOK
  <2>1. CASE Lookup(c)
    <3>1. calls' \in [Calls -> Call]
      BY <2>c, <2>1 DEF Lookup, Return, AnswerExisting, Call, ByKey
    <3> QED
      BY <1>1, <2>1, <3>1 DEF TypeOK, Table, Lookup
  <2>2. CASE Insert(c)
    <3>1. calls' \in [Calls -> Call]
      BY <2>c, <2>2 DEF Insert, Return, Call
    <3>2. ops' \in [Calls -> Row]
      BY <1>o, <2>2, PendingRowType DEF Insert
    <3> QED
      BY <1>1, <3>1, <3>2 DEF TypeOK, Table
  <2>3. CASE Relookup(c)
    <3>1. calls' \in [Calls -> Call]
      BY <2>c, <2>3 DEF Relookup, Return, AnswerExisting, Call, ByKey
    <3> QED
      BY <1>1, <2>3, <3>1 DEF TypeOK, Table, Relookup
  <2> QED
    BY <1>1, <2>1, <2>2, <2>3 DEF Table, Enqueue
<1>2. ASSUME NEW o \in Calls, Table(RequestOperationCancel(o)) PROVE TypeOK'
  <2>1. CancelRequested(ops[o]) \in Row
    BY <1>o DEF CancelRequested, Row, Statuses, OpenStatuses, TerminalStatuses, Leases
  <2> QED
    BY <1>2, <2>1 DEF TypeOK, Table, RequestOperationCancel
<1>3. ASSUME NEW o \in Calls, Table(BackoffElapses(o)) PROVE TypeOK'
  <2>1. ops' \in [Calls -> Row]
    BY <1>o, <1>3 DEF Table, BackoffElapses, Row
  <2> QED
    BY <1>3, <2>1 DEF TypeOK, Table, BackoffElapses
<1>4. ASSUME NEW o \in Calls, LeaseExpires(o) PROVE TypeOK'
  <2>1. ops' \in [Calls -> Row]
    BY <1>o, <1>4 DEF LeaseExpires, Row, Leases
  <2> QED
    BY <1>4, <2>1, Bounds DEF TypeOK, LeaseExpires, Fault
<1>5. ASSUME NEW w \in Workers, Claim(w) PROVE TypeOK'
  <2>1. PICK o \in Calls :
          /\ Claimable(ops[o])
          /\ ops' = [ops EXCEPT ![o] = LeaseTo(@, w)]
          /\ worker' = [worker EXCEPT ![w] = [Idle EXCEPT !.pc = "claimed", !.op = o]]
    BY <1>5 DEF Claim
  <2>2. [Idle EXCEPT !.pc = "claimed", !.op = o] \in Worker
    BY <1>i DEF Worker
  <2>3. LeaseTo(ops[o], w) \in Row
    BY <1>o, <2>1, RowTypes
  <2>4. [Idle EXCEPT !.pc = "claimed", !.op = o].op \in Calls
    BY DEF Idle
  <2> QED
    BY <1>5, <2>1, <2>2, <2>3, <2>4 DEF TypeOK, Claim
<1>6. ASSUME NEW w \in Workers, ReadSnapshot(w) PROVE TypeOK'
  <2>1. ops[worker[w].op] \in Row
    BY <1>6, <1>o, <1>p DEF ReadSnapshot
  <2>r. /\ ops[worker[w].op].gen \in Nat
        /\ ops[worker[w].op].attempt \in 0 .. MaxAttempts
        /\ ops[worker[w].op].cancel \in BOOLEAN
    BY <2>1 DEF Row
  <2>v. [worker[w] EXCEPT !.pc = "read", !.gen = ops[worker[w].op].gen,
                          !.attempt = ops[worker[w].op].attempt,
                          !.cancel = ops[worker[w].op].cancel] \in Worker
    BY <1>w, <2>r DEF Worker
  <2>2. worker' \in [Workers -> Worker]
    BY <1>6, <1>w, <2>v DEF ReadSnapshot
  <2> QED
    BY <1>6, <2>2 DEF TypeOK, ReadSnapshot
<1>7. ASSUME NEW w \in Workers, Start(w) PROVE TypeOK'
  <2>1. ops' \in [Calls -> Row]
    BY <1>7, <1>o, <1>p, RowTypes DEF Start
  <2>2. worker' \in [Workers -> Worker]
    BY <1>7, <1>w, <1>i DEF Start, Worker, Results
  <2>3. \A v \in Workers : worker'[v].pc # "idle" => worker'[v].op \in Calls
    BY <1>7, <1>w, <1>p DEF Start, Worker, Idle
  <2>4. worker[w].gen \in Nat /\ worker[w].op \in Calls
    BY <1>7, <1>w, <1>p DEF Start, Worker
  <2>5. journal' \subseteq Calls \X Nat \X {"began", "ok", "cleaned"}
    BY <1>7, <2>4 DEF Start, Log, TypeOK
  <2> QED
    BY <1>7, <2>1, <2>2, <2>3, <2>5 DEF TypeOK, Start
<1>8. ASSUME NEW w \in Workers, Maintenance(w) PROVE TypeOK'
  <2>1. CASE HeartbeatOperation(w)
    <3>1. worker' \in [Workers -> Worker]
      BY <1>w, <2>1 DEF HeartbeatOperation, Worker
    <3> QED
      BY <2>1, <3>1 DEF TypeOK, HeartbeatOperation
  <2>2. CASE ObserveCancellation(w)
    <3>1. worker' \in [Workers -> Worker]
      BY <1>w, <2>2 DEF ObserveCancellation, Worker
    <3> QED
      BY <2>2, <3>1 DEF TypeOK, ObserveCancellation
  <2>3. ASSUME NEW s \in Steps, NEW p \in Payloads, CheckpointClaimedOperation(w, s, p)
        PROVE  TypeOK'
    <3>1. worker[w].op \in Calls
      BY <1>p, <2>3 DEF CheckpointClaimedOperation
    <3>2. Recorded(ops[worker[w].op], s) \in Row
      BY <1>o, <3>1, RowTypes
    <3>3. <<s, p>> \in Steps \X Payloads
      OBVIOUS
    <3>e. events \in [Calls -> Seq(Steps \X Payloads)]
      BY DEF TypeOK
    <3>a. Append(events[worker[w].op], <<s, p>>) \in Seq(Steps \X Payloads)
      BY <3>1, <3>3, <3>e, AppendType
    <3>4. events' \in [Calls -> Seq(Steps \X Payloads)]
      BY <2>3, <3>1, <3>a, <3>e DEF CheckpointClaimedOperation
    <3> QED
      BY <2>3, <3>1, <3>2, <3>4 DEF CheckpointClaimedOperation, TypeOK
  <2> QED
    BY <1>8, <2>1, <2>2, <2>3 DEF Maintenance
<1>9. ASSUME NEW w \in Workers, HandlerReturns(w) PROVE TypeOK'
  <2>r. PICK res \in Results : worker' = [worker EXCEPT ![w] =
             IF worker[w].beat \in {"lost", "busy"} THEN Idle
             ELSE [@ EXCEPT !.pc = "returned", !.beat = "off", !.result = res]]
    BY <1>9 DEF HandlerReturns
  <2>v. [worker[w] EXCEPT !.pc = "returned", !.beat = "off", !.result = res] \in Worker
    BY <1>w DEF Worker
  <2>1. worker' \in [Workers -> Worker]
    BY <1>w, <1>i, <2>r, <2>v
  <2>2. worker[w].gen \in Nat /\ worker[w].op \in Calls
    BY <1>9, <1>w, <1>p DEF HandlerReturns, Worker
  <2>3. journal' \subseteq Calls \X Nat \X {"began", "ok", "cleaned"}
    BY <1>9, <2>2 DEF HandlerReturns, Log, TypeOK
  <2>4. \A v \in Workers : worker'[v].pc # "idle" => worker'[v].op \in Calls
    BY <1>9, <1>w, <1>p DEF HandlerReturns, Worker, Idle
  <2> QED
    BY <1>9, <2>1, <2>3, <2>4 DEF TypeOK, HandlerReturns
<1>10. ASSUME NEW w \in Workers, Reread(w) PROVE TypeOK'
  <2>1. worker' \in [Workers -> Worker]
    BY <1>10, <1>w DEF Reread, Worker
  <2> QED
    BY <1>10, <2>1 DEF TypeOK, Reread
<1>11. ASSUME NEW w \in Workers, CleanupReturns(w) PROVE TypeOK'
  <2>1. worker' \in [Workers -> Worker]
    BY <1>11, <1>w DEF CleanupReturns, Worker, Results
  <2>2. worker[w].gen \in Nat /\ worker[w].op \in Calls
    BY <1>11, <1>w, <1>p DEF CleanupReturns, Worker
  <2>3. journal' \subseteq Calls \X Nat \X {"began", "ok", "cleaned"}
    BY <1>11, <2>2 DEF CleanupReturns, Log, TypeOK
  <2>4. \A v \in Workers : worker'[v].pc # "idle" => worker'[v].op \in Calls
    BY <1>11, <1>w, <1>p DEF CleanupReturns, Worker
  <2> QED
    BY <1>11, <2>1, <2>3, <2>4 DEF TypeOK, CleanupReturns
<1>12. ASSUME NEW w \in Workers, Finish(w) PROVE TypeOK'
  <2>1. worker[w].op \in Calls
    BY <1>12, <1>p DEF Finish
  <2>2. ops'[worker[w].op] \in Row
    BY <1>12, <1>o, <2>1, RowTypes DEF Finish, MayRetry
  <2>3. ops' = [ops EXCEPT ![worker[w].op] = ops'[worker[w].op]]
    BY <1>12, <1>o, <2>1 DEF Finish
  <2>4. ops' \in [Calls -> Row]
    BY <1>o, <2>1, <2>2, <2>3
  <2> QED
    BY <1>12, <1>i, <2>4 DEF Finish, TypeOK, Idle
<1>13. ASSUME NEW w \in Workers, FinishCancel(w) PROVE TypeOK'
  <2>1. worker[w].op \in Calls
    BY <1>13, <1>p DEF FinishCancel
  <2>2. CancelClaimed(ops[worker[w].op], w, worker[w].gen) \in Row
    BY <1>o, <2>1, RowTypes
  <2> QED
    BY <1>13, <1>i, <2>1, <2>2 DEF FinishCancel, TypeOK, Idle
<1>14. ASSUME NEW w \in Workers, WorkerFault(w) PROVE TypeOK'
  <2>1. worker' \in [Workers -> Worker]
    BY <1>14, <1>w, <1>i DEF WorkerFault, Abandon, HeartbeatFails, RereadFails, Worker
  <2>2. \A v \in Workers : worker'[v].pc # "idle" => worker'[v].op \in Calls
    BY <1>14, <1>w, <1>p DEF WorkerFault, Abandon, HeartbeatFails, RereadFails, Worker, Idle
  <2> QED
    BY <1>14, <2>1, <2>2, Bounds
       DEF WorkerFault, Abandon, HeartbeatFails, RereadFails, Fault, TypeOK
<1>15. CASE UNCHANGED vars
  BY <1>15 DEF vars, TypeOK
<1> QED
  BY <1>1, <1>2, <1>3, <1>4, <1>5, <1>6, <1>7, <1>8, <1>9, <1>10, <1>11, <1>12,
     <1>13, <1>14, <1>15 DEF Next, WorkerStep

\* The table, the workers and the logs always have the types declared for them.
THEOREM TypeCorrect == Spec => []TypeOK
<1>1. Init => TypeOK
  BY InitTypeOK
<1>2. TypeOK /\ [Next]_vars => TypeOK'
  BY NextTypeOK
<1> QED
  BY <1>1, <1>2, PTL DEF Spec

-----------------------------------------------------------------------------
\* The initial state satisfies the inductive invariant.
LEMMA InitIndInv == Init => IndInv
<1> SUFFICES ASSUME Init PROVE IndInv
  OBVIOUS
<1>1. TypeOK
  BY InitTypeOK
<1>2. /\ \A o \in Calls : ops[o] = AbsentRow
      /\ \A c \in Calls : calls[c] = [pc |-> "lookup", ans |-> None]
      /\ \A w \in Workers : worker[w] = Idle
      /\ journal = {}
  BY DEF Init, QueueInit
<1>3. \A o \in Calls : ~Accepted(o) /\ ~Present(o) /\ ~Open(o)
  <2>1. AbsentRow.status = "absent"
    BY DEF AbsentRow
  <2>2. None \notin Calls
    BY QueueAssumption
  <2>3. \A o \in Calls : calls[o].ans = None
    BY DEF Init, QueueInit
  <2> QED
    BY <1>2, <2>1, <2>2, <2>3 DEF Accepted, Present, Open, OpenStatuses
<1>4. RowShape /\ SuccessIsEarned /\ CancelledIsCleaned
  BY <1>2, <1>3, WorkerAssumption DEF RowShape, SuccessIsEarned, CancelledIsCleaned, AbsentRow
<1>5. WorkerShape /\ OneExecutorPerGeneration
  BY <1>2 DEF WorkerShape, SnapshotOK, CancelKnown, Backed, OneExecutorPerGeneration,
              Idle, Executing
<1>6. JournalShape /\ BoundedAttempts
  BY <1>2 DEF JournalShape, BoundedAttempts, AbsentRow
<1>7. KeyShape /\ OneUnresolvedPerDeployment
  BY <1>3 DEF KeyShape, OneUnresolvedPerDeployment
<1> QED
  BY <1>1, <1>4, <1>5, <1>6, <1>7 DEF IndInv

\* The type facts most steps below need.
LEMMA Facts ==
  ASSUME IndInv
  PROVE  /\ ops \in [Calls -> Row]
         /\ \A o \in Calls : /\ ops[o].gen \in Nat /\ ops[o].attempt \in Nat
                             /\ ops[o].status \in Statuses
         /\ worker \in [Workers -> Worker]
         /\ \A w \in Workers : worker[w].gen \in Nat /\ worker[w].attempt \in Nat
         /\ \A w \in Workers : worker[w].pc # "idle" => worker[w].op \in Calls
         /\ \A e \in journal : e[1] \in Calls /\ e[2] \in Nat
         /\ Cleanable \subseteq Calls
  <1>1. ops \in [Calls -> Row] /\ worker \in [Workers -> Worker]
    BY DEF IndInv, TypeOK
  <1>2. \A o \in Calls : /\ ops[o].gen \in Nat /\ ops[o].attempt \in Nat
                         /\ ops[o].status \in Statuses
    BY <1>1, Bounds DEF Row
  <1>3. \A w \in Workers : worker[w].gen \in Nat /\ worker[w].attempt \in Nat
    BY <1>1, Bounds DEF Worker
  <1>4. \A w \in Workers : worker[w].pc # "idle" => worker[w].op \in Calls
    BY DEF IndInv, TypeOK
  <1>5. \A e \in journal : e[1] \in Calls /\ e[2] \in Nat
    BY DEF IndInv, TypeOK
  <1> QED
    BY <1>1, <1>2, <1>3, <1>4, <1>5, WorkerAssumption

\* What ClaimOperation preserves.
LEMMA ClaimIndInv ==
  ASSUME IndInv, TypeOK', NEW w \in Workers, Claim(w) PROVE IndInv'
<1>1. PICK o \in Calls :
        /\ Claimable(ops[o])
        /\ ops' = [ops EXCEPT ![o] = LeaseTo(@, w)]
        /\ worker' = [worker EXCEPT ![w] = [Idle EXCEPT !.pc = "claimed", !.op = o]]
  BY DEF Claim
<1>2. UNCHANGED <<calls, journal>>
  BY DEF Claim
<1>3. /\ ops'[o].status = "leased" /\ ops'[o].gen = ops[o].gen + 1
      /\ ops'[o].attempt = ops[o].attempt + 1 /\ ops'[o].owner = w
      /\ ops'[o].lease = "live" /\ ops'[o].cancel = ops[o].cancel
  BY Facts, <1>1 DEF LeaseTo, Row
<1>4. \A x \in Calls \ {o} : ops'[x] = ops[x]
  BY Facts, <1>1
<1>5. /\ worker'[w].pc = "claimed" /\ worker'[w].op = o
      /\ \A v \in Workers \ {w} : worker'[v] = worker[v]
  BY Facts, <1>1 DEF Idle
<1>7. ops[o].status \in OpenStatuses /\ ops[o].attempt < MaxAttempts
  BY <1>1 DEF Claimable, OpenStatuses
<1>8. RowShape'
  BY Facts, <1>2, <1>3, <1>4, <1>7 DEF IndInv, RowShape, Present, OpenStatuses
<1>9. ASSUME NEW v \in Workers PROVE (SnapshotOK(v) /\ CancelKnown(v) /\ Backed(v))'
  <2>1. CASE v = w
    BY Facts, <2>1, <1>3, <1>5 DEF SnapshotOK, CancelKnown, Backed, Executing
  <2>2. CASE v # w /\ worker[v].pc = "idle"
    BY <2>2, <1>5 DEF SnapshotOK, CancelKnown, Backed, Executing
  <2>3. CASE v # w /\ worker[v].pc # "idle"
    <3>1. SnapshotOK(v)'
      BY Facts, <2>3, <1>3, <1>4, <1>5 DEF IndInv, WorkerShape, SnapshotOK, Executing
    <3>2. CancelKnown(v)'
      BY Facts, <2>3, <1>3, <1>4, <1>5
         DEF IndInv, WorkerShape, SnapshotOK, CancelKnown, Executing, Fenced
    <3>3. Backed(v)'
      BY Facts, <2>3, <1>2, <1>3, <1>4, <1>5 DEF IndInv, WorkerShape, Backed
    <3> QED
      BY <3>1, <3>2, <3>3
  <2> QED
    BY <2>1, <2>2, <2>3
<1>10. JournalShape'
  BY Facts, <1>2, <1>3, <1>4 DEF IndInv, JournalShape
<1>11. KeyShape'
  BY <1>2, <1>3, <1>4, <1>7 DEF IndInv, KeyShape, Accepted, Present, OpenStatuses
<1>12. OneExecutorPerGeneration'
  BY <1>5 DEF IndInv, OneExecutorPerGeneration, Executing
<1>13. SuccessIsEarned' /\ CancelledIsCleaned'
  BY Facts, <1>2, <1>3, <1>4 DEF IndInv, SuccessIsEarned, CancelledIsCleaned
<1>14. BoundedAttempts'
  BY <1>2, <1>3, <1>4 DEF IndInv, BoundedAttempts
<1>15. OneUnresolvedPerDeployment'
  BY <1>3, <1>4, <1>7 DEF IndInv, OneUnresolvedPerDeployment, Open
<1> QED
  BY <1>8, <1>9, <1>10, <1>11, <1>12, <1>13, <1>14, <1>15 DEF IndInv, WorkerShape

\* A step that changes one row outside any worker's own transition: a requested
\* cancellation, the clock, or a checkpoint.  The generation and its owner stay,
\* and the status either stays or records the cancellation.
LEMMA RowStepIndInv ==
  ASSUME IndInv, TypeOK', NEW o \in Calls,
         UNCHANGED <<calls, worker, journal>>,
         \A x \in Calls \ {o} : ops'[x] = ops[x],
         ops'[o].gen = ops[o].gen, ops'[o].attempt = ops[o].attempt,
         ops'[o].owner = ops[o].owner, ops[o].status \in OpenStatuses,
         \/ /\ ops'[o].status = ops[o].status /\ ops'[o].cancel = ops[o].cancel
            /\ ops'[o].lease = ops[o].lease
               \/ (ops[o].lease = "live" /\ ops'[o].lease = "expired")
         \/ /\ ops'[o].cancel
            /\ ops[o].status = "pending" =>
                 ops'[o].status = "cancelled" /\ ops'[o].lease = ops[o].lease
            /\ ops[o].status # "pending" => ops'[o].status = "cancelling"
  PROVE  IndInv'
<1>1. RowShape'
  BY Facts DEF IndInv, RowShape, Present, OpenStatuses
<1>2. ASSUME NEW v \in Workers PROVE (SnapshotOK(v) /\ CancelKnown(v) /\ Backed(v))'
  <2>1. CASE worker[v].pc = "idle"
    BY <2>1 DEF SnapshotOK, CancelKnown, Backed, Executing
  <2>2. CASE worker[v].pc # "idle"
    <3>1. SnapshotOK(v)'
      BY Facts, <2>2 DEF IndInv, WorkerShape, SnapshotOK
    <3>2. CancelKnown(v)'
      BY Facts, <2>2 DEF IndInv, WorkerShape, CancelKnown, Fenced
    <3>3. Backed(v)'
      BY Facts, <2>2 DEF IndInv, WorkerShape, Backed
    <3> QED
      BY <3>1, <3>2, <3>3
  <2> QED
    BY <2>1, <2>2
<1>3. JournalShape'
  BY Facts DEF IndInv, JournalShape
<1>4. KeyShape'
  BY DEF IndInv, KeyShape, Accepted, Present, OpenStatuses
<1>5. OneExecutorPerGeneration'
  BY DEF IndInv, OneExecutorPerGeneration
<1>6. SuccessIsEarned'
  BY Facts DEF IndInv, SuccessIsEarned, OpenStatuses
<1>7. CancelledIsCleaned'
  <2>1. CASE ops[o].status = "pending"
    <3>1. \A g \in 1 .. MaxAttempts : <<o, g, "began">> \notin journal
      BY Facts, <2>1 DEF IndInv, RowShape, JournalShape
    <3> QED
      BY Facts, <3>1 DEF IndInv, CancelledIsCleaned
  <2>2. CASE ops[o].status # "pending"
    BY Facts, <2>2 DEF IndInv, CancelledIsCleaned, OpenStatuses
  <2> QED
    BY <2>1, <2>2
<1>8. BoundedAttempts'
  BY DEF IndInv, BoundedAttempts
<1>9. OneUnresolvedPerDeployment'
  BY DEF IndInv, OneUnresolvedPerDeployment, Open
<1> QED
  BY <1>1, <1>2, <1>3, <1>4, <1>5, <1>6, <1>7, <1>8, <1>9 DEF IndInv, WorkerShape

\* A step of one worker that leaves the table alone: reading a row, a handler or
\* a cleanup returning, lease maintenance, a fault.
LEMMA WorkerStepIndInv ==
  ASSUME IndInv, TypeOK', NEW w \in Workers,
         UNCHANGED <<ops, calls>>,
         \A v \in Workers \ {w} : worker'[v] = worker[v],
         (SnapshotOK(w) /\ CancelKnown(w) /\ Backed(w))',
         worker'[w].pc \in Executing =>
           /\ worker[w].pc \in Executing
           /\ worker'[w].op = worker[w].op /\ worker'[w].gen = worker[w].gen,
         journal \subseteq journal',
         \A e \in journal' \ journal :
           /\ e[1] = worker[w].op /\ e[2] = worker[w].gen /\ e[3] # "began"
           /\ worker[w].pc \in Executing
  PROVE  IndInv'
<1>1. RowShape'
  BY DEF IndInv, RowShape, Present
<1>2. ASSUME NEW v \in Workers PROVE (SnapshotOK(v) /\ CancelKnown(v) /\ Backed(v))'
  <2>1. CASE v # w
    BY <2>1 DEF IndInv, WorkerShape, SnapshotOK, CancelKnown, Backed
  <2> QED
    BY <2>1
<1>3. JournalShape'
  BY Facts DEF IndInv, JournalShape, WorkerShape, SnapshotOK, Executing
<1>4. KeyShape'
  BY DEF IndInv, KeyShape, Accepted, Present
<1>5. OneExecutorPerGeneration'
  BY DEF IndInv, OneExecutorPerGeneration
<1>6. SuccessIsEarned'
  BY DEF IndInv, SuccessIsEarned
<1>7. CancelledIsCleaned'
  <2>1. \A o \in Calls, g \in 1 .. MaxAttempts :
          <<o, g, "began">> \in journal' => <<o, g, "began">> \in journal
    OBVIOUS
  <2> QED
    BY Facts, <2>1 DEF IndInv, CancelledIsCleaned
<1>8. BoundedAttempts'
  <2>1. \A e \in journal' : e[2] \in 1 .. MaxAttempts
    <3>1. worker[w].pc \in Executing => worker[w].gen \in 1 .. MaxAttempts
      <4>1. worker[w].pc \in Executing => worker[w].attempt \in 0 .. MaxAttempts
        BY Facts DEF Worker
      <4> QED
        BY Facts, Bounds, <4>1 DEF IndInv, WorkerShape, SnapshotOK, Executing
    <3> QED
      BY <3>1 DEF IndInv, BoundedAttempts
  <2> QED
    BY <2>1 DEF IndInv, BoundedAttempts
<1>9. OneUnresolvedPerDeployment'
  BY DEF IndInv, OneUnresolvedPerDeployment, Open
<1> QED
  BY <1>1, <1>2, <1>3, <1>4, <1>5, <1>6, <1>7, <1>8, <1>9 DEF IndInv, WorkerShape

\* StartClaimedOperation and the branches after it.
LEMMA StartIndInv ==
  ASSUME IndInv, TypeOK', NEW w \in Workers, Start(w) PROVE IndInv'
<1> DEFINE o == worker[w].op
           g == worker[w].gen
           started == ops[o].status = "leased" /\ Fenced(ops[o], w, g)
<1>0. worker[w].pc = "read" /\ o \in Calls /\ UNCHANGED calls
  BY Facts DEF Start
<1>1. \A v \in Workers \ {w} : worker'[v] = worker[v]
  BY Facts DEF Start
<1>2. CASE ~started
  <2>1. ops' = ops
    BY Facts, <1>0, <1>2 DEF Start, StartClaimed
  <2>2. worker'[w].pc = "idle" /\ UNCHANGED journal
    BY Facts, <1>2 DEF Start, Idle
  <2>3. (SnapshotOK(w) /\ CancelKnown(w) /\ Backed(w))'
    BY <2>2 DEF SnapshotOK, CancelKnown, Backed, Executing
  <2> QED
    BY <1>0, <1>1, <2>1, <2>2, <2>3, WorkerStepIndInv DEF Executing
<1>3. CASE started
  <2>1. /\ ops'[o].status = "running" /\ ops'[o].gen = ops[o].gen
        /\ ops'[o].attempt = ops[o].attempt /\ ops'[o].owner = w
        /\ ops'[o].lease = "live" /\ ops'[o].cancel = ops[o].cancel
        /\ \A x \in Calls \ {o} : ops'[x] = ops[x]
    BY Facts, <1>0, <1>3 DEF Start, StartClaimed, Row, Fenced
  <2>2. /\ ops[o].status = "leased" /\ ops[o].gen = g
        /\ worker[w].cancel = ops[o].cancel
    BY <1>0, <1>3 DEF IndInv, WorkerShape, CancelKnown, Fenced
  <2>3. /\ worker'[w].op = o /\ worker'[w].gen = g
        /\ worker'[w].attempt = worker[w].attempt
        /\ worker'[w].cancel = worker[w].cancel
    BY Facts, <1>3 DEF Start, Worker
  <2>4. \/ /\ worker'[w].pc = "cleaning" \/ (worker'[w].pc = "cancelling" /\ o \notin Cleanable)
           /\ worker[w].cancel /\ UNCHANGED journal
        \/ /\ worker'[w].pc = "finishing" /\ worker'[w].result = "perm"
           /\ UNCHANGED journal
        \/ /\ worker'[w].pc = "handling" /\ ~worker[w].cancel
           /\ journal' = journal \cup {<<o, g, "began">>}
    BY Facts, <1>3 DEF Start, Worker, Log
  <2>5. RowShape'
    BY Facts, <1>0, <2>1, <2>2 DEF IndInv, RowShape, Present
  <2>6. ASSUME NEW v \in Workers PROVE (SnapshotOK(v) /\ CancelKnown(v) /\ Backed(v))'
    <3>1. CASE v = w
      <4>1. SnapshotOK(w)'
        BY Facts, <1>0, <2>1, <2>2, <2>3 DEF IndInv, WorkerShape, SnapshotOK
      <4>2. CancelKnown(w)'
        BY <1>0, <2>1, <2>2, <2>3, <2>4 DEF CancelKnown
      <4>3. Backed(w)'
        BY <1>0, <2>1, <2>2, <2>3, <2>4 DEF Backed
      <4> QED
        BY <3>1, <4>1, <4>2, <4>3
    <3>2. CASE v # w /\ worker[v].pc = "idle"
      BY <3>2, <1>1 DEF SnapshotOK, CancelKnown, Backed, Executing
    <3>3. CASE v # w /\ worker[v].pc # "idle"
      <4>1. SnapshotOK(v)'
        BY Facts, <1>0, <1>1, <3>3, <2>1, <2>2
           DEF IndInv, WorkerShape, SnapshotOK, Executing, Fenced, Start, StartClaimed
      <4>2. CancelKnown(v)'
        <5>1. worker[v].pc \in Executing /\ worker[v].op = o => worker[v].gen # g
          BY <1>3, <2>2, <3>3 DEF IndInv, WorkerShape, SnapshotOK, Fenced
        <5> QED
          BY Facts, <1>0, <1>1, <3>3, <2>1, <2>2, <5>1
             DEF IndInv, WorkerShape, CancelKnown, Fenced
      <4>3. Backed(v)'
        <5>1. journal \subseteq journal'
          BY <2>4
        <5>2. ops'[worker[v].op].cancel = ops[worker[v].op].cancel
          BY Facts, <3>3, <2>1
        <5> QED
          BY <1>1, <3>3, <5>1, <5>2 DEF IndInv, WorkerShape, Backed
      <4> QED
        BY <4>1, <4>2, <4>3
    <3> QED
      BY <3>1, <3>2, <3>3
  <2>7. JournalShape'
    BY Facts, <1>0, <2>1, <2>4 DEF IndInv, JournalShape, WorkerShape, SnapshotOK
  <2>8. KeyShape'
    BY <1>0, <2>1, <2>2 DEF IndInv, KeyShape, Accepted, Present
  <2>9. OneExecutorPerGeneration'
    <3>1. \A v \in Workers \ {w} :
            worker[v].pc \in Executing /\ worker[v].op = o => worker[v].gen # g
      BY <1>3, <2>2 DEF IndInv, WorkerShape, SnapshotOK, Fenced
    <3> QED
      BY <1>1, <2>3, <3>1 DEF IndInv, OneExecutorPerGeneration
  <2>10. SuccessIsEarned' /\ CancelledIsCleaned'
    BY Facts, <1>0, <2>1, <2>2, <2>4 DEF IndInv, SuccessIsEarned, CancelledIsCleaned
  <2>11. BoundedAttempts'
    <3>1. worker[w].attempt \in 0 .. MaxAttempts
      BY Facts DEF Worker
    <3>2. g \in 1 .. MaxAttempts
      BY Facts, Bounds, <1>0, <3>1 DEF IndInv, WorkerShape, SnapshotOK
    <3> QED
      BY <2>1, <2>2, <2>4, <3>2 DEF IndInv, BoundedAttempts
  <2>12. OneUnresolvedPerDeployment'
    BY <1>0, <2>1, <2>2 DEF IndInv, OneUnresolvedPerDeployment, Open, OpenStatuses
  <2> QED
    BY <2>5, <2>6, <2>7, <2>8, <2>9, <2>10, <2>11, <2>12 DEF IndInv, WorkerShape
<1> QED
  BY <1>2, <1>3

\* CompleteClaimedOperation, FailClaimedOperation and CancelClaimedOperation: the
\* worker forgets the operation; its row, if the fence held, is resolved or
\* rescheduled.
LEMMA FinishIndInv ==
  ASSUME IndInv, TypeOK', NEW w \in Workers, Finish(w) \/ FinishCancel(w) PROVE IndInv'
<1> DEFINE o == worker[w].op
           g == worker[w].gen
<1>0. /\ worker[w].pc \in {"finishing", "cancelling"} /\ o \in Calls
      /\ UNCHANGED <<calls, journal>> /\ worker'[w].pc = "idle"
      /\ \A v \in Workers \ {w} : worker'[v] = worker[v]
  BY Facts DEF Finish, FinishCancel, Idle
<1>1. \A x \in Calls \ {o} : ops'[x] = ops[x]
  BY Facts DEF Finish, FinishCancel
<1>2. CASE ops' = ops
  <2>1. (SnapshotOK(w) /\ CancelKnown(w) /\ Backed(w))'
    BY <1>0 DEF SnapshotOK, CancelKnown, Backed, Executing
  <2> QED
    BY <1>0, <1>2, <2>1, WorkerStepIndInv DEF Executing
<1>3. CASE ops' # ops
  <2>1. /\ ops[o].status \in {"running", "cancelling"}
        /\ Fenced(ops[o], w, g)
        /\ worker[w].pc = "finishing" /\ worker[w].result = "ok" => ops[o].status = "running"
    <3>1. ops'[o] # ops[o]
      BY Facts, <1>0, <1>1, <1>3 DEF Finish, FinishCancel
    <3> QED
      BY Facts, <1>0, <3>1
         DEF Finish, FinishCancel, CompleteClaimed, FailClaimed, CancelClaimed
  <2> DEFINE Kept == /\ ops'[o].gen = ops[o].gen /\ ops'[o].attempt = ops[o].attempt
                     /\ ops'[o].cancel = ops[o].cancel /\ ops'[o].lease = "none"
             Written ==
               \/ /\ worker[w].pc = "finishing" /\ worker[w].result = "ok"
                  /\ ops'[o].status = "succeeded" /\ ops'[o].progress = MaxProgress
               \/ ops'[o].status = "failed"
               \/ /\ MayRetry(worker[w])
                  /\ ops'[o].status = IF ops[o].cancel THEN "cancelling" ELSE "waiting"
               \/ worker[w].pc = "cancelling" /\ ops'[o].status = "cancelled"
  <2>r. ops[o] \in Row
    BY Facts, <1>0
  <2>a. ASSUME Finish(w), worker[w].result = "ok" PROVE Kept /\ Written
    <3>1. /\ worker[w].pc = "finishing"
          /\ ops'[o] = [ops[o] EXCEPT !.status = "succeeded", !.progress = MaxProgress,
                                      !.owner = None, !.lease = "none"]
      BY Facts, <1>0, <2>1, <2>a DEF Finish, CompleteClaimed
    <3> QED
      BY <2>r, <2>a, <3>1 DEF Row
  <2>b. ASSUME Finish(w), worker[w].result # "ok" PROVE Kept /\ Written
    <3>1. ops'[o] = [ops[o] EXCEPT !.status = IF ~MayRetry(worker[w]) THEN "failed"
                                     ELSE IF ops[o].cancel THEN "cancelling" ELSE "waiting",
                                   !.due = FALSE, !.owner = None, !.lease = "none"]
      BY Facts, <1>0, <2>1, <2>b DEF Finish, FailClaimed
    <3> QED
      BY <2>r, <3>1 DEF Row
  <2>c. ASSUME FinishCancel(w) PROVE Kept /\ Written
    <3>1. /\ worker[w].pc = "cancelling"
          /\ ops'[o] = [ops[o] EXCEPT !.status = "cancelled", !.owner = None, !.lease = "none"]
      BY Facts, <1>0, <2>1, <2>c DEF FinishCancel, CancelClaimed
    <3> QED
      BY <2>r, <3>1 DEF Row
  <2>2. Kept
    BY <2>a, <2>b, <2>c
  <2>3. Written
    BY <2>a, <2>b, <2>c
  <2>4. ops[o].gen = g /\ worker[w].attempt = g /\ ops[o].attempt = g
    BY <1>0, <2>1 DEF IndInv, WorkerShape, SnapshotOK, RowShape, Fenced
  <2>5. ops'[o].status = "succeeded" => ~ops[o].cancel /\ <<o, g, "ok">> \in journal
    <3>1. ASSUME worker[w].pc = "finishing", worker[w].result = "ok"
          PROVE  ~ops[o].cancel /\ <<o, g, "ok">> \in journal
      <4>1. ~worker[w].cancel /\ <<o, g, "ok">> \in journal
        BY <3>1 DEF IndInv, WorkerShape, Backed
      <4>2. ops[o].cancel => worker[w].cancel
        BY <2>1, <2>4, <3>1 DEF IndInv, WorkerShape, CancelKnown, Executing
      <4> QED
        BY <4>1, <4>2
    <3> QED
      BY <2>3, <3>1
  <2>6. ops'[o].status = "cancelled" =>
          ops[o].cancel /\ (o \in Cleanable => <<o, g, "cleaned">> \in journal)
    BY <2>3 DEF IndInv, WorkerShape, Backed
  <2>7. RowShape'
    BY Facts, <1>0, <1>1, <2>1, <2>2, <2>3, <2>4, <2>5, <2>6 DEF IndInv, RowShape, Present
  <2>8. ASSUME NEW v \in Workers PROVE (SnapshotOK(v) /\ CancelKnown(v) /\ Backed(v))'
    <3>1. CASE v = w \/ worker[v].pc = "idle"
      BY <3>1, <1>0 DEF SnapshotOK, CancelKnown, Backed, Executing
    <3>2. CASE v # w /\ worker[v].pc # "idle"
      <4>0. worker[v].pc \in Executing /\ worker[v].op = o => worker[v].gen # ops[o].gen
        BY <3>2, <2>1 DEF IndInv, WorkerShape, SnapshotOK, Fenced
      <4>1. SnapshotOK(v)'
        BY Facts, <1>0, <1>1, <3>2, <2>2, <4>0 DEF IndInv, WorkerShape, SnapshotOK
      <4>2. CancelKnown(v)'
        BY Facts, <1>0, <1>1, <3>2, <2>2, <4>0 DEF IndInv, WorkerShape, CancelKnown, Fenced
      <4>3. Backed(v)'
        <5>1. ops'[worker[v].op].cancel = ops[worker[v].op].cancel
          BY Facts, <3>2, <1>1, <2>2
        <5> QED
          BY <1>0, <3>2, <5>1 DEF IndInv, WorkerShape, Backed
      <4> QED
        BY <4>1, <4>2, <4>3
    <3> QED
      BY <3>1, <3>2
  <2>9. JournalShape'
    BY Facts, <1>0, <1>1, <2>2 DEF IndInv, JournalShape
  <2>10. KeyShape'
    BY <1>0, <1>1, <2>1, <2>3 DEF IndInv, KeyShape, Accepted, Present
  <2>11. OneExecutorPerGeneration'
    BY <1>0 DEF IndInv, OneExecutorPerGeneration, Executing
  <2>12. SuccessIsEarned'
    BY <1>0, <1>1, <2>2, <2>3, <2>4, <2>5 DEF IndInv, SuccessIsEarned
  <2>13. CancelledIsCleaned'
    BY Facts, <1>0, <1>1, <2>2, <2>4, <2>6 DEF IndInv, CancelledIsCleaned
  <2>14. BoundedAttempts'
    <3>1. MayRetry(worker[w]) => ops[o].attempt < MaxAttempts
      BY <2>4 DEF MayRetry
    <3> QED
      BY <1>0, <1>1, <2>2, <2>3, <3>1 DEF IndInv, BoundedAttempts
  <2>15. OneUnresolvedPerDeployment'
    BY <1>0, <1>1, <2>1, <2>3 DEF IndInv, OneUnresolvedPerDeployment, Open, OpenStatuses
  <2> QED
    BY <2>7, <2>8, <2>9, <2>10, <2>11, <2>12, <2>13, <2>14, <2>15 DEF IndInv, WorkerShape
<1> QED
  BY <1>2, <1>3

\* The three steps of EnqueueOperation.
LEMMA EnqueueIndInv ==
  ASSUME IndInv, TypeOK', NEW c \in Calls, Table(Enqueue(c)) PROVE IndInv'
<1>0. UNCHANGED <<worker, journal>>
  BY DEF Table
<1>t. calls \in [Calls -> Call]
  BY DEF IndInv, TypeOK
<1>n. None \notin Calls /\ "conflict" \notin Calls
  BY QueueAssumption
<1>1. ASSUME UNCHANGED ops, \A d \in Calls \ {c} : calls'[d] = calls[d],
             calls[c].pc # "done",
             \/ calls'[c].ans \in Calls =>
                  /\ Present(calls'[c].ans) /\ KeyOf[calls'[c].ans] = KeyOf[c]
                  /\ SameIntent(calls'[c].ans, c)
             \/ calls'[c].ans = calls[c].ans
      PROVE  IndInv'
  <2>1. RowShape'
    BY <1>1 DEF IndInv, RowShape, Present
  <2>2. WorkerShape'
    BY <1>0, <1>1 DEF IndInv, WorkerShape, SnapshotOK, CancelKnown, Backed
  <2>3. KeyShape'
    BY <1>1 DEF IndInv, KeyShape, Accepted, Present, SameIntent
  <2>4. (JournalShape /\ OneExecutorPerGeneration /\ SuccessIsEarned /\ CancelledIsCleaned
          /\ BoundedAttempts /\ OneUnresolvedPerDeployment)'
    BY <1>0, <1>1 DEF IndInv, JournalShape, OneExecutorPerGeneration, SuccessIsEarned,
                      CancelledIsCleaned, BoundedAttempts, OneUnresolvedPerDeployment, Open
  <2> QED
    BY <2>1, <2>2, <2>3, <2>4 DEF IndInv
<1>2. CASE Lookup(c)
  <2>1. UNCHANGED ops /\ calls[c].pc = "lookup" /\ \A d \in Calls \ {c} : calls'[d] = calls[d]
    BY <1>2, <1>t DEF Lookup, Return
  <2>2. \/ calls'[c].ans \in Calls =>
             /\ Present(calls'[c].ans) /\ KeyOf[calls'[c].ans] = KeyOf[c]
             /\ SameIntent(calls'[c].ans, c)
        \/ calls'[c].ans = calls[c].ans
    BY <1>2, <1>t, <1>n DEF Lookup, Return, AnswerExisting, ByKey, Call
  <2> QED
    BY <1>1, <2>1, <2>2
<1>3. CASE Relookup(c)
  <2>1. UNCHANGED ops /\ calls[c].pc = "relookup" /\ \A d \in Calls \ {c} : calls'[d] = calls[d]
    BY <1>3, <1>t DEF Relookup, Return
  <2>2. calls'[c].ans \in Calls =>
             /\ Present(calls'[c].ans) /\ KeyOf[calls'[c].ans] = KeyOf[c]
             /\ SameIntent(calls'[c].ans, c)
    BY <1>3, <1>t, <1>n DEF Relookup, Return, AnswerExisting, ByKey, Call
  <2> QED
    BY <1>1, <2>1, <2>2
<1>4. CASE Insert(c) /\ ViolatesUnique(c)
  <2>1. UNCHANGED ops /\ calls[c].pc = "insert" /\ \A d \in Calls \ {c} : calls'[d] = calls[d]
    BY <1>4, <1>t DEF Insert, Return
  <2>2. calls'[c].ans = "conflict" \/ calls'[c].ans = calls[c].ans
    BY <1>4, <1>t DEF Insert, Return, Call
  <2> QED
    BY <1>1, <1>n, <2>1, <2>2
<1>5. CASE Insert(c) /\ ~ViolatesUnique(c)
  <2>1. /\ calls[c].pc = "insert" /\ \A d \in Calls \ {c} : calls'[d] = calls[d]
        /\ calls'[c].pc = "done" /\ calls'[c].ans = c
        /\ \A x \in Calls \ {c} : ops'[x] = ops[x]
        /\ ops'[c] = PendingRow
    BY Facts, <1>5, <1>t DEF Insert, Return
  <2>2. ops[c].status = "absent" /\ ops[c].gen = 0
    BY <2>1 DEF IndInv, RowShape, Present
  <2>3. /\ ops'[c].status = "pending" /\ ops'[c].gen = 0 /\ ops'[c].attempt = 0
        /\ ops'[c].lease = "none" /\ ~ops'[c].cancel
    BY <2>1 DEF PendingRow, AbsentRow
  <2>4. RowShape'
    BY <2>1, <2>3 DEF IndInv, RowShape, Present
  <2>5. ASSUME NEW v \in Workers PROVE (SnapshotOK(v) /\ CancelKnown(v) /\ Backed(v))'
    <3>1. CASE worker[v].pc = "idle"
      BY <1>0, <3>1 DEF SnapshotOK, CancelKnown, Backed, Executing
    <3>2. CASE worker[v].pc # "idle"
      <4>1. worker[v].op \in Calls \ {c}
        BY Facts, <3>2, <2>2 DEF IndInv, WorkerShape, SnapshotOK
      <4> QED
        BY <1>0, <3>2, <4>1, <2>1 DEF IndInv, WorkerShape, SnapshotOK, CancelKnown, Backed
    <3> QED
      BY <3>1, <3>2
  <2>6. JournalShape'
    BY Facts, <1>0, <2>1, <2>2, <2>3 DEF IndInv, JournalShape
  <2>7. KeyShape'
    <3>1. \A x \in Calls : Present(x)' <=> (Present(x) \/ x = c)
      BY <2>1, <2>3 DEF Present
    <3>2. KeyOf[c] # None => \A x \in Calls : Present(x) => KeyOf[x] # KeyOf[c]
      BY <1>5 DEF ViolatesUnique, ByKey
    <3>3. SameIntent(c, c)
      BY DEF SameIntent
    <3> QED
      BY <2>1, <3>1, <3>2, <3>3 DEF IndInv, KeyShape, Accepted, SameIntent
  <2>8. (OneExecutorPerGeneration /\ BoundedAttempts)'
    BY <1>0, <2>1, <2>3 DEF IndInv, OneExecutorPerGeneration, BoundedAttempts
  <2>9. (SuccessIsEarned /\ CancelledIsCleaned)'
    BY Facts, <1>0, <2>1, <2>3 DEF IndInv, SuccessIsEarned, CancelledIsCleaned
  <2>10. OneUnresolvedPerDeployment'
    <3>1. \A x \in Calls : Open(x)' <=> (Open(x) \/ x = c)
      BY <2>1, <2>3 DEF Open, OpenStatuses
    <3>2. ResourceOf[c] \in Deployments =>
            \A x \in Calls : Open(x) => ResourceOf[x] # ResourceOf[c]
      BY <1>5 DEF ViolatesUnique
    <3> QED
      BY <3>1, <3>2 DEF IndInv, OneUnresolvedPerDeployment
  <2> QED
    BY <2>4, <2>5, <2>6, <2>7, <2>8, <2>9, <2>10 DEF IndInv, WorkerShape
<1> QED
  BY <1>2, <1>3, <1>4, <1>5 DEF Table, Enqueue

\* The steps of a worker that write nothing to the operations table.
LEMMA PrivateStepIndInv ==
  ASSUME IndInv, TypeOK', NEW w \in Workers,
         \/ ReadSnapshot(w) \/ HeartbeatOperation(w) \/ ObserveCancellation(w)
         \/ HandlerReturns(w) \/ Reread(w) \/ CleanupReturns(w) \/ WorkerFault(w)
  PROVE  IndInv'
<1> DEFINE v == worker[w]
           W == worker'[w]
<1>0. /\ UNCHANGED <<ops, calls>> /\ v.pc # "idle" /\ v.op \in Calls /\ v \in Worker
      /\ \A u \in Workers \ {w} : worker'[u] = worker[u]
  BY Facts DEF ReadSnapshot, HeartbeatOperation, ObserveCancellation, HandlerReturns, Reread,
               CleanupReturns, WorkerFault, Abandon, HeartbeatFails, RereadFails
<1>s. SnapshotOK(w) /\ CancelKnown(w) /\ Backed(w)
  BY DEF IndInv, WorkerShape
<1>r. /\ 1 <= ops[v.op].gen /\ ops[v.op].attempt = ops[v.op].gen
  BY <1>0, <1>s DEF SnapshotOK, IndInv, RowShape
<1> SUFFICES /\ (SnapshotOK(w) /\ CancelKnown(w) /\ Backed(w))'
             /\ W.pc \in Executing => v.pc \in Executing /\ W.op = v.op /\ W.gen = v.gen
             /\ journal \subseteq journal'
             /\ \A e \in journal' \ journal :
                  e[1] = v.op /\ e[2] = v.gen /\ e[3] # "began" /\ v.pc \in Executing
  BY <1>0, WorkerStepIndInv
<1> USE DEF SnapshotOK, CancelKnown, Backed
<1>1. CASE W.pc = "idle" /\ journal' = journal
  BY <1>1 DEF Executing
<1>2. CASE ReadSnapshot(w)
  <2>1. /\ W.pc = "read" /\ W.op = v.op /\ W.gen = ops[v.op].gen
        /\ W.attempt = ops[v.op].attempt /\ W.cancel = ops[v.op].cancel
        /\ journal' = journal
    BY Facts, <1>0, <1>2 DEF ReadSnapshot, Worker
  <2> QED
    BY Facts, <1>0, <1>r, <2>1 DEF Executing
<1>3. CASE HeartbeatOperation(w) \/ ObserveCancellation(w) \/ HeartbeatFails(w)
  <2>1. /\ W.pc = v.pc /\ W.op = v.op /\ W.gen = v.gen /\ W.attempt = v.attempt
        /\ W.cancel = v.cancel /\ W.result = v.result /\ v.pc = "handling"
        /\ journal' = journal
    BY Facts, <1>0, <1>3 DEF HeartbeatOperation, ObserveCancellation, HeartbeatFails, Worker
  <2> QED
    BY <1>0, <1>s, <2>1 DEF Executing
<1>4. CASE HandlerReturns(w)
  <2>1. PICK res \in Results :
          /\ worker' = [worker EXCEPT ![w] =
               IF v.beat \in {"lost", "busy"} THEN Idle
               ELSE [@ EXCEPT !.pc = "returned", !.beat = "off", !.result = res]]
          /\ IF res = "ok" THEN Log(v.op, v.gen, "ok") ELSE UNCHANGED journal
    BY <1>4 DEF HandlerReturns
  <2>2. v.pc = "handling"
    BY <1>4 DEF HandlerReturns
  <2>3. \/ W.pc = "idle"
        \/ /\ W.pc = "returned" /\ W.op = v.op /\ W.gen = v.gen /\ W.attempt = v.attempt
           /\ W.cancel = v.cancel /\ W.result = res
    BY Facts, <1>0, <2>1 DEF Idle, Worker
  <2>4. journal' = IF res = "ok" THEN journal \cup {<<v.op, v.gen, "ok">>} ELSE journal
    BY <2>1 DEF Log
  <2> QED
    BY <1>0, <1>s, <2>2, <2>3, <2>4 DEF Executing
<1>5. CASE Reread(w)
  <2>1. /\ v.pc = "returned" /\ W.op = v.op /\ W.gen = v.gen /\ W.attempt = v.attempt
        /\ W.cancel = v.cancel /\ W.result = v.result /\ journal' = journal
        /\ W.pc = IF ~ops[v.op].cancel THEN "finishing"
                  ELSE IF v.op \in Cleanable THEN "cleaning" ELSE "cancelling"
    BY Facts, <1>0, <1>5 DEF Reread, Worker
  <2> QED
    BY <1>0, <1>s, <2>1 DEF Executing
<1>6. CASE CleanupReturns(w)
  <2>1. /\ v.pc = "cleaning" /\ W.op = v.op /\ W.gen = v.gen /\ W.attempt = v.attempt
        /\ W.cancel = v.cancel
        /\ \/ /\ W.pc = "cancelling" /\ journal' = journal \cup {<<v.op, v.gen, "cleaned">>}
           \/ W.pc = "finishing" /\ W.result # "ok" /\ journal' = journal
    BY Facts, <1>0, <1>6 DEF CleanupReturns, Log, Worker
  <2> QED
    BY <1>0, <1>s, <2>1 DEF Executing
<1>7. CASE Abandon(w)
  BY Facts, <1>1, <1>7 DEF Abandon, Idle
<1>8. CASE RereadFails(w)
  <2>1. /\ v.pc = "returned" /\ W.op = v.op /\ W.gen = v.gen /\ W.attempt = v.attempt
        /\ W.cancel = v.cancel /\ W.result = v.result /\ journal' = journal
        /\ W.pc = "finishing"
    BY Facts, <1>0, <1>8 DEF RereadFails, Worker
  <2> QED
    BY <1>0, <1>s, <2>1 DEF Executing
<1> QED
  BY <1>2, <1>3, <1>4, <1>5, <1>6, <1>7, <1>8 DEF WorkerFault

\* Every step keeps the inductive invariant.
LEMMA NextIndInv == IndInv /\ [Next]_vars => IndInv'
<1> SUFFICES ASSUME IndInv, [Next]_vars PROVE IndInv'
  OBVIOUS
<1>t. TypeOK'
  BY NextTypeOK DEF IndInv
<1>1. ASSUME NEW c \in Calls, Table(Enqueue(c)) PROVE IndInv'
  BY <1>t, <1>1, EnqueueIndInv
<1>2. ASSUME NEW o \in Calls, Table(RequestOperationCancel(o)) PROVE IndInv'
  <2>1. ops[o].status \in OpenStatuses /\ UNCHANGED <<calls, worker, journal>>
    BY <1>2 DEF Table, RequestOperationCancel, Open
  <2>2. ops'[o] = CancelRequested(ops[o]) /\ \A x \in Calls \ {o} : ops'[x] = ops[x]
    BY Facts, <1>2 DEF Table, RequestOperationCancel
  <2>3. ops[o] \in Row
    BY Facts
  <2>4. /\ ops'[o].gen = ops[o].gen /\ ops'[o].attempt = ops[o].attempt
        /\ ops'[o].owner = ops[o].owner /\ ops'[o].cancel
        /\ ops[o].status = "pending" =>
             ops'[o].status = "cancelled" /\ ops'[o].lease = ops[o].lease
        /\ ops[o].status # "pending" => ops'[o].status = "cancelling"
    BY <2>2, <2>3 DEF CancelRequested, Row
  <2> QED
    BY <1>t, <2>1, <2>2, <2>4, RowStepIndInv
<1>3. ASSUME NEW o \in Calls, Table(BackoffElapses(o)) PROVE IndInv'
  <2>1. ops[o].status \in OpenStatuses /\ UNCHANGED <<calls, worker, journal>>
    BY <1>3 DEF Table, BackoffElapses, OpenStatuses
  <2>2. /\ ops'[o].gen = ops[o].gen /\ ops'[o].attempt = ops[o].attempt
        /\ ops'[o].owner = ops[o].owner /\ ops'[o].cancel = ops[o].cancel
        /\ ops'[o].status = ops[o].status /\ ops'[o].lease = ops[o].lease
        /\ \A x \in Calls \ {o} : ops'[x] = ops[x]
    BY Facts, <1>3 DEF Table, BackoffElapses, Row
  <2> QED
    BY <1>t, <2>1, <2>2, RowStepIndInv
<1>4. ASSUME NEW o \in Calls, LeaseExpires(o) PROVE IndInv'
  <2>1. UNCHANGED <<calls, worker, journal>> /\ ops[o].lease = "live"
    BY <1>4 DEF LeaseExpires
  <2>2. ops[o].status \in OpenStatuses
    BY <2>1 DEF IndInv, RowShape, OpenStatuses
  <2>3. /\ ops'[o].gen = ops[o].gen /\ ops'[o].attempt = ops[o].attempt
        /\ ops'[o].owner = ops[o].owner /\ ops'[o].cancel = ops[o].cancel
        /\ ops'[o].status = ops[o].status /\ ops'[o].lease = "expired"
        /\ \A x \in Calls \ {o} : ops'[x] = ops[x]
    BY Facts, <1>4 DEF LeaseExpires, Row
  <2> QED
    BY <1>t, <2>1, <2>2, <2>3, RowStepIndInv
<1>5. ASSUME NEW w \in Workers, NEW s \in Steps, NEW p \in Payloads,
             CheckpointClaimedOperation(w, s, p)
      PROVE  IndInv'
  <2> DEFINE o == worker[w].op
  <2>1. /\ UNCHANGED <<calls, worker, journal>> /\ ops[o].status \in OpenStatuses
        /\ o \in Calls
    BY Facts, <1>5 DEF CheckpointClaimedOperation, OpenStatuses
  <2>2. ops'[o] = [ops[o] EXCEPT !.progress = MaxOf(@, s)]
    BY Facts, <1>5, <2>1 DEF CheckpointClaimedOperation, Recorded
  <2>3. ops[o] \in Row /\ \A x \in Calls \ {o} : ops'[x] = ops[x]
    BY Facts, <1>5, <2>1 DEF CheckpointClaimedOperation
  <2>4. /\ ops'[o].gen = ops[o].gen /\ ops'[o].attempt = ops[o].attempt
        /\ ops'[o].owner = ops[o].owner /\ ops'[o].cancel = ops[o].cancel
        /\ ops'[o].status = ops[o].status /\ ops'[o].lease = ops[o].lease
    BY <2>2, <2>3 DEF Row
  <2> QED
    BY <1>t, <2>1, <2>3, <2>4, RowStepIndInv
<1>6. ASSUME NEW w \in Workers, WorkerStep(w) PROVE IndInv'
  BY <1>t, <1>6, ClaimIndInv, StartIndInv, FinishIndInv, PrivateStepIndInv DEF WorkerStep
<1>7. ASSUME NEW w \in Workers, Maintenance(w) \/ WorkerFault(w) PROVE IndInv'
  BY <1>t, <1>5, <1>7, PrivateStepIndInv DEF Maintenance
<1>8. CASE UNCHANGED vars
  <2>1. (RowShape /\ WorkerShape /\ JournalShape /\ KeyShape)'
    BY <1>8 DEF vars, IndInv, RowShape, WorkerShape, JournalShape, KeyShape, SnapshotOK,
                CancelKnown, Backed, Accepted, Present, SameIntent
  <2>2. (OneExecutorPerGeneration /\ SuccessIsEarned /\ CancelledIsCleaned
          /\ BoundedAttempts /\ OneUnresolvedPerDeployment)'
    BY <1>8 DEF vars, IndInv, OneExecutorPerGeneration, SuccessIsEarned,
                CancelledIsCleaned, BoundedAttempts, OneUnresolvedPerDeployment, Open
  <2> QED
    BY <1>t, <2>1, <2>2 DEF IndInv
<1> QED
  BY <1>1, <1>2, <1>3, <1>4, <1>6, <1>7, <1>8 DEF Next

\* The inductive invariant holds in every reachable state.
THEOREM Invariance == Spec => []IndInv
<1>1. Init => IndInv
  BY InitIndInv
<1>2. IndInv /\ [Next]_vars => IndInv'
  BY NextIndInv
<1> QED
  BY <1>1, <1>2, PTL DEF Spec

\* No two workers execute an operation under one lease generation.
THEOREM ExclusiveGenerations == Spec => []OneExecutorPerGeneration
<1>1. IndInv => OneExecutorPerGeneration
  BY DEF IndInv
<1> QED
  BY <1>1, Invariance, PTL

\* Only the last claimant's successful, uncancelled execution is published.
THEOREM EarnedSuccess == Spec => []SuccessIsEarned
<1>1. IndInv => SuccessIsEarned
  BY DEF IndInv
<1> QED
  BY <1>1, Invariance, PTL

\* A cancelled operation that began has been cleaned up by its last claimant.
THEOREM CleanCancellation == Spec => []CancelledIsCleaned
<1>1. IndInv => CancelledIsCleaned
  BY DEF IndInv
<1> QED
  BY <1>1, Invariance, PTL

\* Handlers run under at most MaxAttempts generations of an operation.
THEOREM AttemptsBounded == Spec => []BoundedAttempts
<1>1. IndInv => BoundedAttempts
  BY DEF IndInv
<1> QED
  BY <1>1, Invariance, PTL

\* EnqueueOperation is idempotent, however its calls interleave.
THEOREM EnqueueIdempotent == Spec => []IdempotentEnqueue
<1>1. IndInv => IdempotentEnqueue
  BY DEF IndInv, KeyShape, IdempotentEnqueue, Accepted
<1> QED
  BY <1>1, Invariance, PTL

\* A deployment never has two unresolved lifecycle operations.
THEOREM LifecycleSerialized == Spec => []OneUnresolvedPerDeployment
<1>1. IndInv => OneUnresolvedPerDeployment
  BY DEF IndInv
<1> QED
  BY <1>1, Invariance, PTL

-----------------------------------------------------------------------------
\* One step changes at most one row: it inserts it where the unique indexes allow,
\* or moves an unresolved row without forgetting a cancellation or progress.
Moved(o) ==
  /\ \A x \in Calls \ {o} : ops'[x] = ops[x]
  /\ \/ ops[o].status = "absent" /\ ops'[o] = PendingRow /\ ~ViolatesUnique(o)
     \/ /\ ops[o].status \in OpenStatuses
        /\ ops[o].cancel => ops'[o].cancel
        /\ ops[o].cancel # ops'[o].cancel => ops'[o].status \in {"cancelling", "cancelled"}
        /\ ops'[o].progress >= ops[o].progress
        /\ ops'[o].status # "absent"

\* Every step of the system moves one row as described, or none.
LEMMA RowMoves ==
  ASSUME IndInv, [Next]_vars PROVE ops' = ops \/ \E o \in Calls : Moved(o)
<1>0. \A o \in Calls : ops[o] \in Row /\ ops[o].progress \in 0 .. MaxProgress
  BY Facts DEF Row
<1>1. ASSUME NEW c \in Calls, Table(Enqueue(c)) PROVE ops' = ops \/ \E o \in Calls : Moved(o)
  <2>1. CASE Insert(c) /\ ~ViolatesUnique(c)
    <3>1. ops[c].status = "absent"
      BY <2>1 DEF IndInv, RowShape, Present, Insert
    <3>2. ops' = [ops EXCEPT ![c] = PendingRow]
      BY <2>1 DEF Insert
    <3> QED
      BY Facts, <2>1, <3>1, <3>2 DEF Moved
  <2> QED
    BY <1>1, <2>1 DEF Table, Enqueue, Lookup, Relookup, Insert
<1>2. ASSUME NEW o \in Calls, Table(RequestOperationCancel(o)) PROVE Moved(o)
  <2>1. /\ ops[o].status \in OpenStatuses /\ ops'[o] = CancelRequested(ops[o])
        /\ \A x \in Calls \ {o} : ops'[x] = ops[x]
    BY Facts, <1>2 DEF Table, RequestOperationCancel, Open
  <2>2. /\ ops'[o].cancel /\ ops'[o].progress = ops[o].progress
        /\ ops'[o].status \in {"cancelling", "cancelled"}
    BY <1>0, <2>1 DEF CancelRequested, Row
  <2>3. ops'[o].progress >= ops[o].progress /\ ops'[o].status # "absent"
    BY <1>0, <2>2, Bounds
  <2> QED
    BY <2>1, <2>2, <2>3 DEF Moved
<1>3. ASSUME NEW o \in Calls, Table(BackoffElapses(o)) PROVE Moved(o)
  BY Facts, <1>0, <1>3, Bounds DEF Table, BackoffElapses, Moved, OpenStatuses, Row
<1>4. ASSUME NEW o \in Calls, LeaseExpires(o) PROVE Moved(o)
  <2>1. ops[o].status \in OpenStatuses
    BY <1>4 DEF LeaseExpires, IndInv, RowShape, OpenStatuses
  <2> QED
    BY Facts, <1>0, <1>4, <2>1, Bounds DEF LeaseExpires, Moved, OpenStatuses, Row
<1>5. ASSUME NEW w \in Workers, NEW s \in Steps, NEW p \in Payloads,
             CheckpointClaimedOperation(w, s, p)
      PROVE  \E o \in Calls : Moved(o)
  <2> DEFINE o == worker[w].op
  <2>1. ops[o].status \in OpenStatuses /\ o \in Calls
    BY Facts, <1>5 DEF CheckpointClaimedOperation, OpenStatuses
  <2>2. /\ ops'[o] = [ops[o] EXCEPT !.progress = MaxOf(@, s)]
        /\ \A x \in Calls \ {o} : ops'[x] = ops[x]
    BY Facts, <1>5, <2>1 DEF CheckpointClaimedOperation, Recorded
  <2>3. MaxOf(ops[o].progress, s) >= ops[o].progress
    BY <1>0, <2>1, Bounds DEF MaxOf
  <2>4. /\ ops'[o].status = ops[o].status /\ ops'[o].cancel = ops[o].cancel
        /\ ops'[o].progress >= ops[o].progress
    BY <1>0, <2>1, <2>2, <2>3 DEF Row
  <2> QED
    BY <2>1, <2>2, <2>4 DEF Moved, OpenStatuses
<1>6. ASSUME NEW w \in Workers, Claim(w) PROVE \E o \in Calls : Moved(o)
  <2>1. PICK o \in Calls : Claimable(ops[o]) /\ ops' = [ops EXCEPT ![o] = LeaseTo(@, w)]
    BY <1>6 DEF Claim
  <2>2. ops'[o] = LeaseTo(ops[o], w) /\ \A x \in Calls \ {o} : ops'[x] = ops[x]
    BY Facts, <2>1
  <2>3. /\ ops'[o].status = "leased" /\ ops'[o].cancel = ops[o].cancel
        /\ ops'[o].progress = ops[o].progress
    BY <1>0, <2>2 DEF LeaseTo, Row
  <2>4. ops[o].status \in OpenStatuses
    BY <2>1 DEF Claimable, OpenStatuses
  <2> QED
    BY <1>0, <2>2, <2>3, <2>4, Bounds DEF Moved
<1>7. ASSUME NEW w \in Workers, Start(w) PROVE ops' = ops \/ \E o \in Calls : Moved(o)
  <2> DEFINE o == worker[w].op
  <2>1. o \in Calls /\ ops' = [ops EXCEPT ![o] = StartClaimed(@, w, worker[w].gen)]
    BY Facts, <1>7 DEF Start
  <2>2. CASE StartClaimed(ops[o], w, worker[w].gen) = ops[o]
    BY Facts, <2>1, <2>2
  <2>3. CASE StartClaimed(ops[o], w, worker[w].gen) # ops[o]
    <3>1. ops[o].status = "leased" /\ ops'[o] = [ops[o] EXCEPT !.status = "running"]
      BY Facts, <2>1, <2>3 DEF StartClaimed
    <3>2. /\ ops'[o].status = "running" /\ ops'[o].cancel = ops[o].cancel
          /\ ops'[o].progress = ops[o].progress /\ \A x \in Calls \ {o} : ops'[x] = ops[x]
      BY Facts, <1>0, <2>1, <3>1 DEF Row
    <3> QED
      BY <1>0, <2>1, <3>1, <3>2, Bounds DEF Moved, OpenStatuses
  <2> QED
    BY <2>2, <2>3
<1>8. ASSUME NEW w \in Workers, Finish(w) \/ FinishCancel(w)
      PROVE  ops' = ops \/ \E o \in Calls : Moved(o)
  <2> DEFINE o == worker[w].op
             g == worker[w].gen
  <2>1. o \in Calls /\ \A x \in Calls \ {o} : ops'[x] = ops[x]
    BY Facts, <1>8 DEF Finish, FinishCancel
  <2>2. \/ ops'[o] = CompleteClaimed(ops[o], w, g)
        \/ ops'[o] = FailClaimed(ops[o], w, g, MayRetry(worker[w]))
        \/ ops'[o] = CancelClaimed(ops[o], w, g)
    BY Facts, <1>8, <2>1 DEF Finish, FinishCancel
  <2>3. CASE ops'[o] = ops[o]
    BY Facts, <1>8, <2>1, <2>3 DEF Finish, FinishCancel
  <2>4. CASE ops'[o] # ops[o]
    <3>1. /\ ops'[o].cancel = ops[o].cancel /\ ops'[o].progress >= ops[o].progress
          /\ ops'[o].status # "absent" /\ ops[o].status \in OpenStatuses
      <4>1. CASE ops'[o] = CompleteClaimed(ops[o], w, g)
        BY <1>0, <2>1, <2>4, <4>1, Bounds DEF CompleteClaimed, Row, OpenStatuses
      <4>2. CASE ops'[o] = FailClaimed(ops[o], w, g, MayRetry(worker[w]))
        BY <1>0, <2>1, <2>4, <4>2, Bounds DEF FailClaimed, Row, OpenStatuses
      <4>3. CASE ops'[o] = CancelClaimed(ops[o], w, g)
        BY <1>0, <2>1, <2>4, <4>3, Bounds DEF CancelClaimed, Row, OpenStatuses
      <4> QED
        BY <2>2, <4>1, <4>2, <4>3
    <3> QED
      BY <2>1, <3>1 DEF Moved
  <2> QED
    BY <2>3, <2>4
<1>9. ASSUME NEW w \in Workers,
             \/ ReadSnapshot(w) \/ HeartbeatOperation(w) \/ ObserveCancellation(w)
             \/ HandlerReturns(w) \/ Reread(w) \/ CleanupReturns(w) \/ WorkerFault(w)
      PROVE  ops' = ops
  BY <1>9 DEF ReadSnapshot, HeartbeatOperation, ObserveCancellation, HandlerReturns, Reread,
              CleanupReturns, WorkerFault, Abandon, HeartbeatFails, RereadFails
<1> QED
  BY <1>1, <1>2, <1>3, <1>4, <1>5, <1>6, <1>7, <1>8, <1>9
     DEF Next, WorkerStep, Maintenance, vars

\* A resolved operation is final.
THEOREM FinalResolution == Spec => TerminalIsFinal
<1>1. ASSUME IndInv, [Next]_vars, NEW o \in Calls, Terminal(o) PROVE ops'[o] = ops[o]
  BY <1>1, RowMoves DEF Moved, Terminal, TerminalStatuses, OpenStatuses
<1>2. IndInv /\ [Next]_vars => [\A o \in Calls : Terminal(o) => ops'[o] = ops[o]]_vars
  BY <1>1
<1> QED
  BY <1>2, Invariance, PTL DEF Spec, TerminalIsFinal

\* Progress never moves backwards.
THEOREM ProgressMonotone == Spec => ProgressNeverRegresses
<1>1. ASSUME IndInv, [Next]_vars, NEW o \in Calls PROVE ops'[o].progress >= ops[o].progress
  <2>1. ops[o].progress \in Nat /\ PendingRow.progress = 0
    BY <1>1, Facts, Bounds DEF Row, PendingRow, AbsentRow
  <2>2. ops[o].status = "absent" => ops[o].progress = 0
    BY <1>1 DEF IndInv, RowShape
  <2> QED
    BY <1>1, <2>1, <2>2, RowMoves DEF Moved
<1>2. IndInv /\ [Next]_vars => [\A o \in Calls : ops'[o].progress >= ops[o].progress]_vars
  BY <1>1
<1> QED
  BY <1>2, Invariance, PTL DEF Spec, ProgressNeverRegresses

\* A requested cancellation is never forgotten.
THEOREM StickyCancellation == Spec => CancellationSticks
<1> DEFINE Sticks(o) == ops[o].cancel =>
             ops'[o].cancel /\ ops'[o].status \notin {"waiting", "pending", "succeeded"}
<1>1. ASSUME IndInv, IndInv', [Next]_vars, NEW o \in Calls PROVE Sticks(o)
  <2>1. ops[o].cancel => ops[o].status \notin {"absent", "pending", "waiting", "succeeded"}
    BY <1>1 DEF IndInv, RowShape
  <2>2. ops'[o].cancel => ops'[o].status \notin {"absent", "pending", "waiting", "succeeded"}
    BY <1>1 DEF IndInv, RowShape
  <2> QED
    BY <1>1, <2>1, <2>2, RowMoves DEF Moved
<1>2. IndInv /\ IndInv' /\ [Next]_vars => [\A o \in Calls : Sticks(o)]_vars
  BY <1>1
<1> QED
  BY <1>2, Invariance, PTL DEF Spec, CancellationSticks

\* Leases, workers, retries and crashes implement the client-visible lifecycle.
THEOREM LifecycleImplemented == Spec => ImplementsLifecycle
<1> DEFINE ph == [o \in Calls |-> PhaseOf(ops[o])]
           wa == [o \in Calls |-> ops[o].cancel]
<1>1. Init => Lifecycle!Init
  BY DEF Init, QueueInit, AbsentRow, Lifecycle!Init, PhaseOf, OpenStatuses
<1>2. ASSUME IndInv, IndInv', [Next]_vars PROVE [Lifecycle!Next]_(Lifecycle!lifecycleVars)
  <2>1. CASE ops' = ops
    BY <2>1 DEF Lifecycle!lifecycleVars, PhaseOf
  <2>2. ASSUME NEW o \in Calls, Moved(o) PROVE [Lifecycle!Next]_(Lifecycle!lifecycleVars)
    <3>0. \A x \in Calls : ops[x].cancel \in BOOLEAN /\ ops'[x].cancel \in BOOLEAN
      BY <1>2 DEF IndInv, TypeOK, Row
    <3>1. /\ ph' = [ph EXCEPT ![o] = PhaseOf(ops'[o])]
          /\ wa' = [wa EXCEPT ![o] = ops'[o].cancel]
      BY <2>2 DEF Moved
    <3>2. CASE ops[o].status = "absent" /\ ops'[o] = PendingRow /\ ~ViolatesUnique(o)
      <4>1. PhaseOf(ops[o]) = "absent" /\ PhaseOf(ops'[o]) = "open"
        BY <3>2 DEF PhaseOf, PendingRow, AbsentRow, OpenStatuses
      <4>2. ops[o].cancel = FALSE /\ ops'[o].cancel = FALSE
        BY <3>0, <3>2, <1>2 DEF IndInv, RowShape, PendingRow, AbsentRow
      <4>3. ResourceOf[o] \in Deployments =>
              \A x \in Calls : PhaseOf(ops[x]) = "open" => ResourceOf[x] # ResourceOf[o]
        BY <3>2, <1>2, Facts
           DEF ViolatesUnique, Open, PhaseOf, Statuses, OpenStatuses, TerminalStatuses
      <4>4. Lifecycle!Accept(o)
        BY <3>1, <4>1, <4>2, <4>3 DEF Lifecycle!Accept
      <4> QED
        BY <4>4 DEF Lifecycle!Next
    <3>3. CASE ops[o].status \in OpenStatuses /\ ops'[o].cancel # ops[o].cancel
      <4>1. /\ PhaseOf(ops[o]) = "open" /\ ops'[o].cancel = TRUE
            /\ PhaseOf(ops'[o]) \in {"open", "cancelled"}
        BY <2>2, <3>0, <3>3 DEF Moved, PhaseOf, OpenStatuses
      <4>2. Lifecycle!RequestCancel(o)
        BY <3>1, <4>1 DEF Lifecycle!RequestCancel
      <4> QED
        BY <4>2 DEF Lifecycle!Next
    <3>4. CASE ops[o].status \in OpenStatuses /\ ops'[o].cancel = ops[o].cancel
      <4>0. wa' = wa
        BY <3>1, <3>4
      <4>1. CASE ops'[o].status \in OpenStatuses
        <5>1. ph' = ph
          BY <3>1, <3>4, <4>1 DEF PhaseOf
        <5> QED
          BY <4>0, <5>1 DEF Lifecycle!lifecycleVars
      <4>2. CASE ops'[o].status \notin OpenStatuses
        <5>1. ops'[o].status \in Lifecycle!Resolutions
          BY <2>2, <3>4, <4>2, <1>2
             DEF Moved, IndInv, TypeOK, Row, Statuses, TerminalStatuses, OpenStatuses,
                 Lifecycle!Resolutions
        <5>2. /\ ops'[o].status = "succeeded" => ~ops[o].cancel
              /\ ops'[o].status = "cancelled" => ops[o].cancel
          BY <3>4, <1>2 DEF IndInv, RowShape
        <5>3. PhaseOf(ops[o]) = "open" /\ PhaseOf(ops'[o]) = ops'[o].status
          BY <3>4, <4>2 DEF PhaseOf
        <5>4. Lifecycle!Resolve(o)
          BY <3>1, <4>0, <5>1, <5>2, <5>3 DEF Lifecycle!Resolve
        <5> QED
          BY <5>4 DEF Lifecycle!Next
      <4> QED
        BY <4>1, <4>2
    <3> QED
      BY <2>2, <3>2, <3>3, <3>4 DEF Moved
  <2> QED
    BY <1>2, <2>1, <2>2, RowMoves
<1> QED
  BY <1>1, <1>2, Invariance, PTL DEF Spec, ImplementsLifecycle, Lifecycle!Spec
=============================================================================
