------------------------- MODULE RequestFrontProofs -------------------------
(***************************************************************************)
(* Machine-checked proofs about what a request meets first: AdmissionPool, *)
(* for any number of callers, policies and policy refreshes, and           *)
(* AsyncInference, for any number of jobs and workers and any bounds on    *)
(* attempts, webhooks, claims and faults.                                  *)
(***************************************************************************)
EXTENDS AdmissionPool, AsyncInference, FiniteSetTheorems, TLAPS

-----------------------------------------------------------------------------
(* The admission of requests to an endpoint.                               *)

\* When one caller moves, the callers of a kind on an object grow by one,
\* shrink by one, or stay as many.
LEMMA CountMove ==
  ASSUME NEW r \in Requests, NEW K, NEW o,
         \A x \in Requests : x # r => pc'[x] = pc[x] /\ on'[x] = on[x]
  PROVE  /\ Cardinality(In(K, o)) \in Nat
         /\ ~ (pc[r] \in K /\ on[r] = o) /\ pc'[r] \in K /\ on'[r] = o
              => Cardinality(In(K, o))' = Cardinality(In(K, o)) + 1
         /\ pc[r] \in K /\ on[r] = o /\ ~ (pc'[r] \in K /\ on'[r] = o)
              => /\ Cardinality(In(K, o)) >= 1
                 /\ Cardinality(In(K, o))' = Cardinality(In(K, o)) - 1
         /\ (pc[r] \in K /\ on[r] = o <=> pc'[r] \in K /\ on'[r] = o)
              => Cardinality(In(K, o))' = Cardinality(In(K, o))
<1> DEFINE S == In(K, o)
<1> DEFINE T == {x \in Requests : pc'[x] \in K /\ on'[x] = o}
<1>1. IsFiniteSet(S)
  BY PoolAssumption, FS_Subset DEF In
<1>2. Cardinality(S) \in Nat
  BY <1>1, FS_CardinalityType
<1>3. Cardinality(S)' = Cardinality(T)
  BY DEF In
<1>4. r \in S <=> pc[r] \in K /\ on[r] = o
  BY DEF In
<1>5. r \in T <=> pc'[r] \in K /\ on'[r] = o
  OBVIOUS
<1>6. r \notin S /\ r \in T => T = S \cup {r}
  BY DEF In
<1>7. r \in S /\ r \notin T => T = S \ {r}
  BY DEF In
<1>8. (r \in S <=> r \in T) => T = S
  BY DEF In
<1>9. r \in S => Cardinality(S) >= 1
  BY <1>1, <1>2, FS_EmptySet
<1> HIDE DEF S, T
<1>10. r \notin S /\ r \in T => Cardinality(T) = Cardinality(S) + 1
  BY <1>1, <1>6, FS_AddElement
<1>11. r \in S /\ r \notin T => Cardinality(T) = Cardinality(S) - 1
  BY <1>1, <1>7, FS_RemoveElement
<1> QED
  BY <1>2, <1>3, <1>4, <1>5, <1>8, <1>9, <1>10, <1>11 DEF S

\* The kinds of callers the counters count, when one caller moves.
LEMMA CountsMove ==
  ASSUME NEW r \in Requests,
         \A x \in Requests : x # r => pc'[x] = pc[x] /\ on'[x] = on[x],
         NEW o \in Objects,
         NEW K \in {{"admitted"}, Queueing, {"refused", "timedout"}, {"timedout"}}
  PROVE  /\ Cardinality(In(K, o)) \in Nat
         /\ ~ (pc[r] \in K /\ on[r] = o) /\ pc'[r] \in K /\ on'[r] = o
              => Cardinality(In(K, o))' = Cardinality(In(K, o)) + 1
         /\ pc[r] \in K /\ on[r] = o /\ ~ (pc'[r] \in K /\ on'[r] = o)
              => /\ Cardinality(In(K, o)) >= 1
                 /\ Cardinality(In(K, o))' = Cardinality(In(K, o)) - 1
         /\ (pc[r] \in K /\ on[r] = o <=> pc'[r] \in K /\ on'[r] = o)
              => Cardinality(In(K, o))' = Cardinality(In(K, o))
  BY CountMove

\* A counted caller has an object.
LEMMA Anchored ==
  ASSUME TypeOK, CallersAnchored, NEW x \in Requests,
         pc[x] \in Queueing \cup {"admitted", "counting", "refused", "timedout"}
  PROVE  on[x] \in 1 .. made /\ on[x] \in Objects
<1>1. on[x] # 0 /\ on[x] \in 0 .. made
  BY DEF TypeOK, CallersAnchored
<1>2. made \in Nat /\ made <= MaxReplaces
  BY PoolAssumption DEF TypeOK
<1> QED
  BY <1>1, <1>2, PoolAssumption DEF Objects

\* The initial state satisfies the inductive invariant.
LEMMA InitPool == Init => IndInv
<1> SUFFICES ASSUME Init PROVE IndInv
  OBVIOUS
<1>1. TypeOK
  BY PoolAssumption DEF Init, TypeOK, PolicyType, NoPolicy, States, Objects
<1>2. \A o \in Objects : /\ In({"admitted"}, o) = {} /\ In(Queueing, o) = {}
                        /\ In({"refused", "timedout"}, o) = {} /\ In({"timedout"}, o) = {}
  BY DEF Init, In, Queueing, Objects
<1>3. SlotsAccounted
  BY <1>2, FS_EmptySet DEF SlotsAccounted, Init
<1>4. SleepersHaveAWaker /\ CallersAnchored
  BY DEF Init, SleepersHaveAWaker, CallersAnchored, Queueing
<1> QED
  BY <1>1, <1>3, <1>4 DEF IndInv

\* A refresh moves no caller and touches no counter.
LEMMA ReplaceInv == ASSUME IndInv, Replace PROVE IndInv'
<1>1. TypeOK /\ replaced < MaxReplaces /\ made <= replaced
  BY DEF IndInv, TypeOK, Replace
<1>2. TypeOK'
  <2>1. PICK p \in Policies :
          \/ ~ Valid(p) /\ current' = 0 /\ UNCHANGED <<made, policy>>
          \/ Valid(p) /\ current # 0 /\ policy' = [policy EXCEPT ![current] = p]
             /\ UNCHANGED <<current, made>>
          \/ Valid(p) /\ current = 0 /\ made' = made + 1 /\ current' = made + 1
             /\ policy' = [policy EXCEPT ![made + 1] = p]
    BY DEF Replace
  <2>2. p \in PolicyType /\ p.max \in Nat
    BY PoolAssumption DEF PolicyType
  <2>3. /\ replaced' = replaced + 1
        /\ UNCHANGED <<active, waiting, rejected, queueTimeouts, pc, on, asleep>>
    BY DEF Replace, calls
  <2>4. made \in Nat /\ made + 1 \in Objects /\ made' \in {made, made + 1}
    BY <1>1, <2>1, PoolAssumption DEF TypeOK, Objects
  <2>5. made' \in 0 .. replaced' /\ replaced' \in 0 .. MaxReplaces /\ current' \in 0 .. made'
    BY <1>1, <2>1, <2>3, <2>4, PoolAssumption DEF TypeOK
  <2>6. policy' \in [Objects -> PolicyType]
    BY <1>1, <2>1, <2>2 DEF TypeOK
  <2>7. \A o \in 1 .. made' : policy'[o].max >= 1
    <3> SUFFICES ASSUME NEW o \in 1 .. made' PROVE policy'[o].max >= 1
      OBVIOUS
    <3>1. o \in Objects /\ (o \in 1 .. made \/ o = made + 1)
      <4>1. made' \in Nat /\ made' <= MaxReplaces
        BY <2>4, <2>5, PoolAssumption
      <4>2. o \in Nat /\ o >= 1 /\ o <= made'
        BY <4>1
      <4> QED
        BY <2>4, <4>1, <4>2, PoolAssumption DEF Objects
    <3>2. Valid(p) => p.max >= 1
      BY DEF Valid
    <3>3. policy \in [Objects -> PolicyType] /\ \A q \in 1 .. made : policy[q].max >= 1
      BY <1>1 DEF TypeOK
    <3>4. CASE o \in 1 .. made
      BY <2>1, <3>1, <3>2, <3>3, <3>4
    <3>5. CASE o = made + 1 /\ o \notin 1 .. made
      <4>1. made' = made + 1
        BY <2>4, <3>5
      <4>2. Valid(p) /\ policy' = [policy EXCEPT ![made + 1] = p]
        BY <2>1, <2>4, <4>1
      <4> QED
        BY <3>1, <3>2, <3>3, <3>5, <4>2
    <3> QED
      BY <3>1, <3>4, <3>5
  <2>8. on' \in [Requests -> 0 .. made']
    BY <1>1, <2>3, <2>4 DEF TypeOK
  <2> QED
    BY <1>1, <2>3, <2>5, <2>6, <2>7, <2>8 DEF TypeOK
<1>3. UNCHANGED <<active, waiting, rejected, queueTimeouts, pc, on, asleep>>
  BY DEF Replace, calls
<1>4. SlotsAccounted'
  BY <1>3 DEF IndInv, SlotsAccounted, In
<1>5. SleepersHaveAWaker' /\ CallersAnchored'
  BY <1>3 DEF IndInv, SleepersHaveAWaker, CallersAnchored
<1> QED
  BY <1>2, <1>4, <1>5 DEF IndInv

\* An unlimited call is not counted.
LEMMA AcquireUnlimitedInv == ASSUME IndInv, NEW r \in Requests, AcquireUnlimited(r) PROVE IndInv'
<1>1. TypeOK /\ SlotsAccounted /\ SleepersHaveAWaker /\ CallersAnchored
  BY DEF IndInv
<1>2. /\ pc[r] = "idle"
      /\ pc' = [pc EXCEPT ![r] = "unlimited"]
      /\ on' = [on EXCEPT ![r] = current]
      /\ UNCHANGED <<current, made, replaced, policy, active, waiting, rejected, queueTimeouts, asleep>>
  BY <1>1, PoolAssumption DEF AcquireUnlimited, Arrives, Goes, pool
<1>3. \A x \in Requests : x # r => pc'[x] = pc[x] /\ on'[x] = on[x]
  BY <1>1, <1>2 DEF TypeOK
<1>4. /\ pc[r] = "idle" /\ pc'[r] = "unlimited" /\ on'[r] = current
      /\ current \in 0 .. MaxReplaces
  BY <1>1, <1>2, PoolAssumption DEF TypeOK, Objects
<1>5. SlotsAccounted'
  <2> SUFFICES ASSUME NEW o \in Objects
               PROVE  /\ active'[o] = Cardinality(In({"admitted"}, o))'
                      /\ waiting'[o] = Cardinality(In(Queueing, o))'
                      /\ rejected'[o] = Cardinality(In({"refused", "timedout"}, o))'
                      /\ queueTimeouts'[o] = Cardinality(In({"timedout"}, o))'
    BY DEF SlotsAccounted
  <2>1. /\ active[o] = Cardinality(In({"admitted"}, o))
        /\ waiting[o] = Cardinality(In(Queueing, o))
        /\ rejected[o] = Cardinality(In({"refused", "timedout"}, o))
        /\ queueTimeouts[o] = Cardinality(In({"timedout"}, o))
    BY <1>1 DEF SlotsAccounted
  <2>2. active'[o] = Cardinality(In({"admitted"}, o))'
    BY <1>1, <1>2, <1>3, <1>4, <2>1, CountsMove DEF TypeOK
  <2>3. waiting'[o] = Cardinality(In(Queueing, o))'
    BY <1>1, <1>2, <1>3, <1>4, <2>1, CountsMove DEF TypeOK, Queueing
  <2>4. rejected'[o] = Cardinality(In({"refused", "timedout"}, o))'
    BY <1>1, <1>2, <1>3, <1>4, <2>1, CountsMove DEF TypeOK
  <2>5. queueTimeouts'[o] = Cardinality(In({"timedout"}, o))'
    BY <1>1, <1>2, <1>3, <1>4, <2>1, CountsMove DEF TypeOK
  <2> QED
    BY <2>2, <2>3, <2>4, <2>5
<1>6. TypeOK'
  <2>11. active' \in [Objects -> Nat] /\ waiting' \in [Objects -> Nat]
    BY <1>1, <1>2, <1>4 DEF TypeOK
  <2>12. rejected' \in [Objects -> Nat] /\ queueTimeouts' \in [Objects -> Nat]
    BY <1>1, <1>2, <1>4 DEF TypeOK
  <2>13. asleep' \subseteq Requests
    BY <1>1, <1>2, <1>4 DEF TypeOK
  <2>14. pc' \in [Requests -> States]
    BY <1>1, <1>2 DEF TypeOK, States, Queueing, Answered
  <2>15. on' \in [Requests -> 0 .. made]
    BY <1>1, <1>2 DEF TypeOK
  <2> QED
    BY <1>1, <1>2, <2>11, <2>12, <2>13, <2>14, <2>15 DEF TypeOK
<1>7. SleepersHaveAWaker'
  BY <1>1, <1>2, <1>4 DEF TypeOK, SleepersHaveAWaker, CallersAnchored
<1>8. CallersAnchored'
  BY <1>1, <1>2, <1>4 DEF TypeOK, CallersAnchored, Queueing
<1> QED
  BY <1>5, <1>6, <1>7, <1>8 DEF IndInv

\* A refused call is counted as rejected only.
LEMMA AcquireRefusedInv == ASSUME IndInv, NEW r \in Requests, AcquireRefused(r) PROVE IndInv'
<1>1. TypeOK /\ SlotsAccounted /\ SleepersHaveAWaker /\ CallersAnchored
  BY DEF IndInv
<1>2. /\ pc[r] = "idle"
      /\ pc' = [pc EXCEPT ![r] = "refused"]
      /\ on' = [on EXCEPT ![r] = current]
      /\ current # 0
      /\ rejected' = [rejected EXCEPT ![current] = @ + 1]
      /\ UNCHANGED <<current, made, replaced, policy, active, waiting, queueTimeouts, asleep>>
  BY <1>1, PoolAssumption DEF AcquireRefused, Arrives, Goes, pool, Metered
<1>3. \A x \in Requests : x # r => pc'[x] = pc[x] /\ on'[x] = on[x]
  BY <1>1, <1>2 DEF TypeOK
<1>4. /\ pc[r] = "idle" /\ pc'[r] = "refused" /\ on'[r] = current
      /\ current \in 0 .. MaxReplaces
      /\ current \in Objects /\ current \in 1 .. made
  BY <1>1, <1>2, PoolAssumption DEF TypeOK, Objects
<1>5. SlotsAccounted'
  <2> SUFFICES ASSUME NEW o \in Objects
               PROVE  /\ active'[o] = Cardinality(In({"admitted"}, o))'
                      /\ waiting'[o] = Cardinality(In(Queueing, o))'
                      /\ rejected'[o] = Cardinality(In({"refused", "timedout"}, o))'
                      /\ queueTimeouts'[o] = Cardinality(In({"timedout"}, o))'
    BY DEF SlotsAccounted
  <2>1. /\ active[o] = Cardinality(In({"admitted"}, o))
        /\ waiting[o] = Cardinality(In(Queueing, o))
        /\ rejected[o] = Cardinality(In({"refused", "timedout"}, o))
        /\ queueTimeouts[o] = Cardinality(In({"timedout"}, o))
    BY <1>1 DEF SlotsAccounted
  <2>2. active'[o] = Cardinality(In({"admitted"}, o))'
    BY <1>1, <1>2, <1>3, <1>4, <2>1, CountsMove DEF TypeOK
  <2>3. waiting'[o] = Cardinality(In(Queueing, o))'
    BY <1>1, <1>2, <1>3, <1>4, <2>1, CountsMove DEF TypeOK, Queueing
  <2>4. rejected'[o] = Cardinality(In({"refused", "timedout"}, o))'
    BY <1>1, <1>2, <1>3, <1>4, <2>1, CountsMove DEF TypeOK
  <2>5. queueTimeouts'[o] = Cardinality(In({"timedout"}, o))'
    BY <1>1, <1>2, <1>3, <1>4, <2>1, CountsMove DEF TypeOK
  <2> QED
    BY <2>2, <2>3, <2>4, <2>5
<1>6. TypeOK'
  <2>11. active' \in [Objects -> Nat] /\ waiting' \in [Objects -> Nat]
    BY <1>1, <1>2, <1>4 DEF TypeOK
  <2>12. rejected' \in [Objects -> Nat] /\ queueTimeouts' \in [Objects -> Nat]
    BY <1>1, <1>2, <1>4 DEF TypeOK
  <2>13. asleep' \subseteq Requests
    BY <1>1, <1>2, <1>4 DEF TypeOK
  <2>14. pc' \in [Requests -> States]
    BY <1>1, <1>2 DEF TypeOK, States, Queueing, Answered
  <2>15. on' \in [Requests -> 0 .. made]
    BY <1>1, <1>2 DEF TypeOK
  <2> QED
    BY <1>1, <1>2, <2>11, <2>12, <2>13, <2>14, <2>15 DEF TypeOK
<1>7. SleepersHaveAWaker'
  BY <1>1, <1>2, <1>4 DEF TypeOK, SleepersHaveAWaker, CallersAnchored
<1>8. CallersAnchored'
  BY <1>1, <1>2, <1>4 DEF TypeOK, CallersAnchored, Queueing
<1> QED
  BY <1>5, <1>6, <1>7, <1>8 DEF IndInv

\* An admitted call takes a slot of the object in the map.
LEMMA AcquireAdmittedInv == ASSUME IndInv, NEW r \in Requests, AcquireAdmitted(r) PROVE IndInv'
<1>1. TypeOK /\ SlotsAccounted /\ SleepersHaveAWaker /\ CallersAnchored
  BY DEF IndInv
<1>2. /\ pc[r] = "idle"
      /\ pc' = [pc EXCEPT ![r] = "admitted"]
      /\ on' = [on EXCEPT ![r] = current]
      /\ current # 0
      /\ active' = [active EXCEPT ![current] = @ + 1]
      /\ UNCHANGED <<current, made, replaced, policy, waiting, rejected, queueTimeouts, asleep>>
  BY <1>1, PoolAssumption DEF AcquireAdmitted, Arrives, Goes, pool, Metered
<1>3. \A x \in Requests : x # r => pc'[x] = pc[x] /\ on'[x] = on[x]
  BY <1>1, <1>2 DEF TypeOK
<1>4. /\ pc[r] = "idle" /\ pc'[r] = "admitted" /\ on'[r] = current
      /\ current \in 0 .. MaxReplaces
      /\ current \in Objects /\ current \in 1 .. made
  BY <1>1, <1>2, PoolAssumption DEF TypeOK, Objects
<1>5. SlotsAccounted'
  <2> SUFFICES ASSUME NEW o \in Objects
               PROVE  /\ active'[o] = Cardinality(In({"admitted"}, o))'
                      /\ waiting'[o] = Cardinality(In(Queueing, o))'
                      /\ rejected'[o] = Cardinality(In({"refused", "timedout"}, o))'
                      /\ queueTimeouts'[o] = Cardinality(In({"timedout"}, o))'
    BY DEF SlotsAccounted
  <2>1. /\ active[o] = Cardinality(In({"admitted"}, o))
        /\ waiting[o] = Cardinality(In(Queueing, o))
        /\ rejected[o] = Cardinality(In({"refused", "timedout"}, o))
        /\ queueTimeouts[o] = Cardinality(In({"timedout"}, o))
    BY <1>1 DEF SlotsAccounted
  <2>2. active'[o] = Cardinality(In({"admitted"}, o))'
    BY <1>1, <1>2, <1>3, <1>4, <2>1, CountsMove DEF TypeOK
  <2>3. waiting'[o] = Cardinality(In(Queueing, o))'
    BY <1>1, <1>2, <1>3, <1>4, <2>1, CountsMove DEF TypeOK, Queueing
  <2>4. rejected'[o] = Cardinality(In({"refused", "timedout"}, o))'
    BY <1>1, <1>2, <1>3, <1>4, <2>1, CountsMove DEF TypeOK
  <2>5. queueTimeouts'[o] = Cardinality(In({"timedout"}, o))'
    BY <1>1, <1>2, <1>3, <1>4, <2>1, CountsMove DEF TypeOK
  <2> QED
    BY <2>2, <2>3, <2>4, <2>5
<1>6. TypeOK'
  <2>11. active' \in [Objects -> Nat] /\ waiting' \in [Objects -> Nat]
    BY <1>1, <1>2, <1>4 DEF TypeOK
  <2>12. rejected' \in [Objects -> Nat] /\ queueTimeouts' \in [Objects -> Nat]
    BY <1>1, <1>2, <1>4 DEF TypeOK
  <2>13. asleep' \subseteq Requests
    BY <1>1, <1>2, <1>4 DEF TypeOK
  <2>14. pc' \in [Requests -> States]
    BY <1>1, <1>2 DEF TypeOK, States, Queueing, Answered
  <2>15. on' \in [Requests -> 0 .. made]
    BY <1>1, <1>2 DEF TypeOK
  <2> QED
    BY <1>1, <1>2, <2>11, <2>12, <2>13, <2>14, <2>15 DEF TypeOK
<1>7. SleepersHaveAWaker'
  BY <1>1, <1>2, <1>4 DEF TypeOK, SleepersHaveAWaker
<1>8. CallersAnchored'
  BY <1>1, <1>2, <1>4 DEF TypeOK, CallersAnchored, Queueing
<1> QED
  BY <1>5, <1>6, <1>7, <1>8 DEF IndInv

\* A queued call takes a place in the queue of the object in the map.
LEMMA AcquireQueuedInv == ASSUME IndInv, NEW r \in Requests, AcquireQueued(r) PROVE IndInv'
<1>1. TypeOK /\ SlotsAccounted /\ SleepersHaveAWaker /\ CallersAnchored
  BY DEF IndInv
<1>2. /\ pc[r] = "idle"
      /\ pc' = [pc EXCEPT ![r] = "queued"]
      /\ on' = [on EXCEPT ![r] = current]
      /\ current # 0
      /\ waiting' = [waiting EXCEPT ![current] = @ + 1]
      /\ UNCHANGED <<current, made, replaced, policy, active, rejected, queueTimeouts, asleep>>
  BY <1>1, PoolAssumption DEF AcquireQueued, Arrives, Goes, pool, Metered
<1>3. \A x \in Requests : x # r => pc'[x] = pc[x] /\ on'[x] = on[x]
  BY <1>1, <1>2 DEF TypeOK
<1>4. /\ pc[r] = "idle" /\ pc'[r] = "queued" /\ on'[r] = current
      /\ current \in 0 .. MaxReplaces
      /\ current \in Objects /\ current \in 1 .. made
  BY <1>1, <1>2, PoolAssumption DEF TypeOK, Objects
<1>5. SlotsAccounted'
  <2> SUFFICES ASSUME NEW o \in Objects
               PROVE  /\ active'[o] = Cardinality(In({"admitted"}, o))'
                      /\ waiting'[o] = Cardinality(In(Queueing, o))'
                      /\ rejected'[o] = Cardinality(In({"refused", "timedout"}, o))'
                      /\ queueTimeouts'[o] = Cardinality(In({"timedout"}, o))'
    BY DEF SlotsAccounted
  <2>1. /\ active[o] = Cardinality(In({"admitted"}, o))
        /\ waiting[o] = Cardinality(In(Queueing, o))
        /\ rejected[o] = Cardinality(In({"refused", "timedout"}, o))
        /\ queueTimeouts[o] = Cardinality(In({"timedout"}, o))
    BY <1>1 DEF SlotsAccounted
  <2>2. active'[o] = Cardinality(In({"admitted"}, o))'
    BY <1>1, <1>2, <1>3, <1>4, <2>1, CountsMove DEF TypeOK
  <2>3. waiting'[o] = Cardinality(In(Queueing, o))'
    BY <1>1, <1>2, <1>3, <1>4, <2>1, CountsMove DEF TypeOK, Queueing
  <2>4. rejected'[o] = Cardinality(In({"refused", "timedout"}, o))'
    BY <1>1, <1>2, <1>3, <1>4, <2>1, CountsMove DEF TypeOK
  <2>5. queueTimeouts'[o] = Cardinality(In({"timedout"}, o))'
    BY <1>1, <1>2, <1>3, <1>4, <2>1, CountsMove DEF TypeOK
  <2> QED
    BY <2>2, <2>3, <2>4, <2>5
<1>6. TypeOK'
  <2>11. active' \in [Objects -> Nat] /\ waiting' \in [Objects -> Nat]
    BY <1>1, <1>2, <1>4 DEF TypeOK
  <2>12. rejected' \in [Objects -> Nat] /\ queueTimeouts' \in [Objects -> Nat]
    BY <1>1, <1>2, <1>4 DEF TypeOK
  <2>13. asleep' \subseteq Requests
    BY <1>1, <1>2, <1>4 DEF TypeOK
  <2>14. pc' \in [Requests -> States]
    BY <1>1, <1>2 DEF TypeOK, States, Queueing, Answered
  <2>15. on' \in [Requests -> 0 .. made]
    BY <1>1, <1>2 DEF TypeOK
  <2> QED
    BY <1>1, <1>2, <2>11, <2>12, <2>13, <2>14, <2>15 DEF TypeOK
<1>7. SleepersHaveAWaker'
  BY <1>1, <1>2, <1>4 DEF TypeOK, SleepersHaveAWaker, CallersAnchored
<1>8. CallersAnchored'
  BY <1>1, <1>2, <1>4 DEF TypeOK, CallersAnchored, Queueing
<1> QED
  BY <1>5, <1>6, <1>7, <1>8 DEF IndInv

\* A caller whose object was dropped or disabled leaves the queue uncounted.
LEMMA RecheckUnlimitedInv == ASSUME IndInv, NEW r \in Requests, RecheckUnlimited(r) PROVE IndInv'
<1>1. TypeOK /\ SlotsAccounted /\ SleepersHaveAWaker /\ CallersAnchored
  BY DEF IndInv
<1>2. /\ pc[r] = "queued"
      /\ pc' = [pc EXCEPT ![r] = "unlimited"]
      /\ waiting' = [waiting EXCEPT ![on[r]] = @ - 1]
      /\ UNCHANGED <<current, made, replaced, policy, active, rejected, queueTimeouts, on, asleep>>
  BY <1>1, PoolAssumption DEF RecheckUnlimited, Rechecks, Goes, pool
<1>3. \A x \in Requests : x # r => pc'[x] = pc[x] /\ on'[x] = on[x]
  BY <1>1, <1>2 DEF TypeOK
<1>4. /\ pc[r] = "queued" /\ pc'[r] = "unlimited" /\ on'[r] = on[r]
      /\ on[r] \in Objects /\ on[r] \in 1 .. made
  BY <1>1, <1>2, Anchored DEF TypeOK, Queueing
<1>5. SlotsAccounted'
  <2> SUFFICES ASSUME NEW o \in Objects
               PROVE  /\ active'[o] = Cardinality(In({"admitted"}, o))'
                      /\ waiting'[o] = Cardinality(In(Queueing, o))'
                      /\ rejected'[o] = Cardinality(In({"refused", "timedout"}, o))'
                      /\ queueTimeouts'[o] = Cardinality(In({"timedout"}, o))'
    BY DEF SlotsAccounted
  <2>1. /\ active[o] = Cardinality(In({"admitted"}, o))
        /\ waiting[o] = Cardinality(In(Queueing, o))
        /\ rejected[o] = Cardinality(In({"refused", "timedout"}, o))
        /\ queueTimeouts[o] = Cardinality(In({"timedout"}, o))
    BY <1>1 DEF SlotsAccounted
  <2>2. active'[o] = Cardinality(In({"admitted"}, o))'
    BY <1>1, <1>2, <1>3, <1>4, <2>1, CountsMove DEF TypeOK
  <2>3. waiting'[o] = Cardinality(In(Queueing, o))'
    BY <1>1, <1>2, <1>3, <1>4, <2>1, CountsMove DEF TypeOK, Queueing
  <2>4. rejected'[o] = Cardinality(In({"refused", "timedout"}, o))'
    BY <1>1, <1>2, <1>3, <1>4, <2>1, CountsMove DEF TypeOK
  <2>5. queueTimeouts'[o] = Cardinality(In({"timedout"}, o))'
    BY <1>1, <1>2, <1>3, <1>4, <2>1, CountsMove DEF TypeOK
  <2> QED
    BY <2>2, <2>3, <2>4, <2>5
<1>6. TypeOK'
  <2>1. waiting[on[r]] = Cardinality(In(Queueing, on[r])) /\ waiting[on[r]] \in Nat
    BY <1>1, <1>4 DEF SlotsAccounted, TypeOK
  <2>2. Cardinality(In(Queueing, on[r])) >= 1
    BY <1>3, <1>4, CountsMove DEF Queueing
  <2>3. waiting[on[r]] - 1 \in Nat
    BY <2>1, <2>2
  <2>11. active' \in [Objects -> Nat] /\ waiting' \in [Objects -> Nat]
    BY <1>1, <1>2, <1>4, <2>3 DEF TypeOK
  <2>12. rejected' \in [Objects -> Nat] /\ queueTimeouts' \in [Objects -> Nat]
    BY <1>1, <1>2, <1>4 DEF TypeOK
  <2>13. asleep' \subseteq Requests
    BY <1>1, <1>2, <1>4 DEF TypeOK
  <2>14. pc' \in [Requests -> States]
    BY <1>1, <1>2 DEF TypeOK, States, Queueing, Answered
  <2>15. on' \in [Requests -> 0 .. made]
    BY <1>1, <1>2 DEF TypeOK
  <2> QED
    BY <1>1, <1>2, <2>11, <2>12, <2>13, <2>14, <2>15 DEF TypeOK
<1>7. SleepersHaveAWaker'
  BY <1>1, <1>2, <1>4 DEF TypeOK, SleepersHaveAWaker
<1>8. CallersAnchored'
  BY <1>1, <1>2, <1>4 DEF TypeOK, CallersAnchored, Queueing
<1> QED
  BY <1>5, <1>6, <1>7, <1>8 DEF IndInv

\* A queued caller changes its place in the queue for a slot.
LEMMA RecheckAdmittedInv == ASSUME IndInv, NEW r \in Requests, RecheckAdmitted(r) PROVE IndInv'
<1>1. TypeOK /\ SlotsAccounted /\ SleepersHaveAWaker /\ CallersAnchored
  BY DEF IndInv
<1>2. /\ pc[r] = "queued"
      /\ pc' = [pc EXCEPT ![r] = "admitted"]
      /\ waiting' = [waiting EXCEPT ![on[r]] = @ - 1]
      /\ active' = [active EXCEPT ![on[r]] = @ + 1]
      /\ UNCHANGED <<current, made, replaced, policy, rejected, queueTimeouts, on, asleep>>
  BY <1>1, PoolAssumption DEF RecheckAdmitted, Rechecks, Goes, pool
<1>3. \A x \in Requests : x # r => pc'[x] = pc[x] /\ on'[x] = on[x]
  BY <1>1, <1>2 DEF TypeOK
<1>4. /\ pc[r] = "queued" /\ pc'[r] = "admitted" /\ on'[r] = on[r]
      /\ on[r] \in Objects /\ on[r] \in 1 .. made
  BY <1>1, <1>2, Anchored DEF TypeOK, Queueing
<1>5. SlotsAccounted'
  <2> SUFFICES ASSUME NEW o \in Objects
               PROVE  /\ active'[o] = Cardinality(In({"admitted"}, o))'
                      /\ waiting'[o] = Cardinality(In(Queueing, o))'
                      /\ rejected'[o] = Cardinality(In({"refused", "timedout"}, o))'
                      /\ queueTimeouts'[o] = Cardinality(In({"timedout"}, o))'
    BY DEF SlotsAccounted
  <2>1. /\ active[o] = Cardinality(In({"admitted"}, o))
        /\ waiting[o] = Cardinality(In(Queueing, o))
        /\ rejected[o] = Cardinality(In({"refused", "timedout"}, o))
        /\ queueTimeouts[o] = Cardinality(In({"timedout"}, o))
    BY <1>1 DEF SlotsAccounted
  <2>2. active'[o] = Cardinality(In({"admitted"}, o))'
    BY <1>1, <1>2, <1>3, <1>4, <2>1, CountsMove DEF TypeOK
  <2>3. waiting'[o] = Cardinality(In(Queueing, o))'
    BY <1>1, <1>2, <1>3, <1>4, <2>1, CountsMove DEF TypeOK, Queueing
  <2>4. rejected'[o] = Cardinality(In({"refused", "timedout"}, o))'
    BY <1>1, <1>2, <1>3, <1>4, <2>1, CountsMove DEF TypeOK
  <2>5. queueTimeouts'[o] = Cardinality(In({"timedout"}, o))'
    BY <1>1, <1>2, <1>3, <1>4, <2>1, CountsMove DEF TypeOK
  <2> QED
    BY <2>2, <2>3, <2>4, <2>5
<1>6. TypeOK'
  <2>1. waiting[on[r]] = Cardinality(In(Queueing, on[r])) /\ waiting[on[r]] \in Nat
    BY <1>1, <1>4 DEF SlotsAccounted, TypeOK
  <2>2. Cardinality(In(Queueing, on[r])) >= 1
    BY <1>3, <1>4, CountsMove DEF Queueing
  <2>3. waiting[on[r]] - 1 \in Nat
    BY <2>1, <2>2
  <2>11. active' \in [Objects -> Nat] /\ waiting' \in [Objects -> Nat]
    BY <1>1, <1>2, <1>4, <2>3 DEF TypeOK
  <2>12. rejected' \in [Objects -> Nat] /\ queueTimeouts' \in [Objects -> Nat]
    BY <1>1, <1>2, <1>4 DEF TypeOK
  <2>13. asleep' \subseteq Requests
    BY <1>1, <1>2, <1>4 DEF TypeOK
  <2>14. pc' \in [Requests -> States]
    BY <1>1, <1>2 DEF TypeOK, States, Queueing, Answered
  <2>15. on' \in [Requests -> 0 .. made]
    BY <1>1, <1>2 DEF TypeOK
  <2> QED
    BY <1>1, <1>2, <2>11, <2>12, <2>13, <2>14, <2>15 DEF TypeOK
<1>7. SleepersHaveAWaker'
  BY <1>1, <1>2, <1>4 DEF TypeOK, SleepersHaveAWaker
<1>8. CallersAnchored'
  BY <1>1, <1>2, <1>4 DEF TypeOK, CallersAnchored, Queueing
<1> QED
  BY <1>5, <1>6, <1>7, <1>8 DEF IndInv

\* A caller that finds no slot falls asleep on the channel of that moment: the
\* slots it found taken are held by somebody who will close it.
LEMMA ParkInv == ASSUME IndInv, NEW r \in Requests, Park(r) PROVE IndInv'
<1>1. TypeOK /\ SlotsAccounted /\ SleepersHaveAWaker /\ CallersAnchored
  BY DEF IndInv
<1>2. /\ pc[r] = "queued"
      /\ pc' = [pc EXCEPT ![r] = "parked"]
      /\ ~ (active[on[r]] < policy[on[r]].max)
      /\ asleep' = asleep \cup {r}
      /\ UNCHANGED <<current, made, replaced, policy, active, waiting, rejected, queueTimeouts, on>>
  BY <1>1, PoolAssumption DEF Park, Rechecks, HasCapacity, Goes, pool
<1>3. \A x \in Requests : x # r => pc'[x] = pc[x] /\ on'[x] = on[x]
  BY <1>1, <1>2 DEF TypeOK
<1>4. /\ pc[r] = "queued" /\ pc'[r] = "parked" /\ on'[r] = on[r]
      /\ on[r] \in Objects /\ on[r] \in 1 .. made
  BY <1>1, <1>2, Anchored DEF TypeOK, Queueing
<1>5. SlotsAccounted'
  <2> SUFFICES ASSUME NEW o \in Objects
               PROVE  /\ active'[o] = Cardinality(In({"admitted"}, o))'
                      /\ waiting'[o] = Cardinality(In(Queueing, o))'
                      /\ rejected'[o] = Cardinality(In({"refused", "timedout"}, o))'
                      /\ queueTimeouts'[o] = Cardinality(In({"timedout"}, o))'
    BY DEF SlotsAccounted
  <2>1. /\ active[o] = Cardinality(In({"admitted"}, o))
        /\ waiting[o] = Cardinality(In(Queueing, o))
        /\ rejected[o] = Cardinality(In({"refused", "timedout"}, o))
        /\ queueTimeouts[o] = Cardinality(In({"timedout"}, o))
    BY <1>1 DEF SlotsAccounted
  <2>2. active'[o] = Cardinality(In({"admitted"}, o))'
    BY <1>1, <1>2, <1>3, <1>4, <2>1, CountsMove DEF TypeOK
  <2>3. waiting'[o] = Cardinality(In(Queueing, o))'
    BY <1>1, <1>2, <1>3, <1>4, <2>1, CountsMove DEF TypeOK, Queueing
  <2>4. rejected'[o] = Cardinality(In({"refused", "timedout"}, o))'
    BY <1>1, <1>2, <1>3, <1>4, <2>1, CountsMove DEF TypeOK
  <2>5. queueTimeouts'[o] = Cardinality(In({"timedout"}, o))'
    BY <1>1, <1>2, <1>3, <1>4, <2>1, CountsMove DEF TypeOK
  <2> QED
    BY <2>2, <2>3, <2>4, <2>5
<1>6. TypeOK'
  <2>11. active' \in [Objects -> Nat] /\ waiting' \in [Objects -> Nat]
    BY <1>1, <1>2, <1>4 DEF TypeOK
  <2>12. rejected' \in [Objects -> Nat] /\ queueTimeouts' \in [Objects -> Nat]
    BY <1>1, <1>2, <1>4 DEF TypeOK
  <2>13. asleep' \subseteq Requests
    BY <1>1, <1>2, <1>4 DEF TypeOK
  <2>14. pc' \in [Requests -> States]
    BY <1>1, <1>2 DEF TypeOK, States, Queueing, Answered
  <2>15. on' \in [Requests -> 0 .. made]
    BY <1>1, <1>2 DEF TypeOK
  <2> QED
    BY <1>1, <1>2, <2>11, <2>12, <2>13, <2>14, <2>15 DEF TypeOK
<1>7. SleepersHaveAWaker'
  <2>1. policy[on[r]].max \in Nat /\ policy[on[r]].max >= 1
    BY <1>1, <1>4 DEF TypeOK, PolicyType
  <2>2. active[on[r]] \in Nat /\ active[on[r]] >= 1
    BY <1>1, <1>2, <1>4, <2>1 DEF TypeOK
  <2>3. Cardinality(In({"admitted"}, on[r])) >= 1
    BY <1>1, <1>4, <2>2 DEF SlotsAccounted
  <2>4. PICK h \in Requests : pc[h] = "admitted" /\ on[h] = on[r]
    BY <2>3, FS_EmptySet DEF In
  <2> QED
    BY <1>1, <1>2, <1>4, <2>4 DEF TypeOK, SleepersHaveAWaker
<1>8. CallersAnchored'
  BY <1>1, <1>2, <1>4 DEF TypeOK, CallersAnchored, Queueing
<1> QED
  BY <1>5, <1>6, <1>7, <1>8 DEF IndInv

\* Waking, a done context and a fired timer only move the caller.
LEMMA WakeInv == ASSUME IndInv, NEW r \in Requests, Wake(r) PROVE IndInv'
<1>1. TypeOK /\ SlotsAccounted /\ SleepersHaveAWaker /\ CallersAnchored
  BY DEF IndInv
<1>2. /\ pc[r] = "parked"
      /\ pc' = [pc EXCEPT ![r] = "queued"]
      /\ asleep' = asleep \ {r}
      /\ UNCHANGED <<current, made, replaced, policy, active, waiting, rejected, queueTimeouts, on>>
  BY <1>1, PoolAssumption DEF Wake, Selects, Goes, pool
<1>3. \A x \in Requests : x # r => pc'[x] = pc[x] /\ on'[x] = on[x]
  BY <1>1, <1>2 DEF TypeOK
<1>4. /\ pc[r] = "parked" /\ pc'[r] = "queued" /\ on'[r] = on[r]
      /\ on[r] \in Objects /\ on[r] \in 1 .. made
  BY <1>1, <1>2, Anchored DEF TypeOK, Queueing
<1>5. SlotsAccounted'
  <2> SUFFICES ASSUME NEW o \in Objects
               PROVE  /\ active'[o] = Cardinality(In({"admitted"}, o))'
                      /\ waiting'[o] = Cardinality(In(Queueing, o))'
                      /\ rejected'[o] = Cardinality(In({"refused", "timedout"}, o))'
                      /\ queueTimeouts'[o] = Cardinality(In({"timedout"}, o))'
    BY DEF SlotsAccounted
  <2>1. /\ active[o] = Cardinality(In({"admitted"}, o))
        /\ waiting[o] = Cardinality(In(Queueing, o))
        /\ rejected[o] = Cardinality(In({"refused", "timedout"}, o))
        /\ queueTimeouts[o] = Cardinality(In({"timedout"}, o))
    BY <1>1 DEF SlotsAccounted
  <2>2. active'[o] = Cardinality(In({"admitted"}, o))'
    BY <1>1, <1>2, <1>3, <1>4, <2>1, CountsMove DEF TypeOK
  <2>3. waiting'[o] = Cardinality(In(Queueing, o))'
    BY <1>1, <1>2, <1>3, <1>4, <2>1, CountsMove DEF TypeOK, Queueing
  <2>4. rejected'[o] = Cardinality(In({"refused", "timedout"}, o))'
    BY <1>1, <1>2, <1>3, <1>4, <2>1, CountsMove DEF TypeOK
  <2>5. queueTimeouts'[o] = Cardinality(In({"timedout"}, o))'
    BY <1>1, <1>2, <1>3, <1>4, <2>1, CountsMove DEF TypeOK
  <2> QED
    BY <2>2, <2>3, <2>4, <2>5
<1>6. TypeOK'
  <2>11. active' \in [Objects -> Nat] /\ waiting' \in [Objects -> Nat]
    BY <1>1, <1>2, <1>4 DEF TypeOK
  <2>12. rejected' \in [Objects -> Nat] /\ queueTimeouts' \in [Objects -> Nat]
    BY <1>1, <1>2, <1>4 DEF TypeOK
  <2>13. asleep' \subseteq Requests
    BY <1>1, <1>2, <1>4 DEF TypeOK
  <2>14. pc' \in [Requests -> States]
    BY <1>1, <1>2 DEF TypeOK, States, Queueing, Answered
  <2>15. on' \in [Requests -> 0 .. made]
    BY <1>1, <1>2 DEF TypeOK
  <2> QED
    BY <1>1, <1>2, <2>11, <2>12, <2>13, <2>14, <2>15 DEF TypeOK
<1>7. SleepersHaveAWaker'
  BY <1>1, <1>2, <1>4 DEF TypeOK, SleepersHaveAWaker
<1>8. CallersAnchored'
  BY <1>1, <1>2, <1>4 DEF TypeOK, CallersAnchored, Queueing
<1> QED
  BY <1>5, <1>6, <1>7, <1>8 DEF IndInv

\* A caller whose context is done is still counted until it removes itself.
LEMMA ContextDoneInv == ASSUME IndInv, NEW r \in Requests, ContextDone(r) PROVE IndInv'
<1>1. TypeOK /\ SlotsAccounted /\ SleepersHaveAWaker /\ CallersAnchored
  BY DEF IndInv
<1>2. /\ pc[r] = "parked"
      /\ pc' = [pc EXCEPT ![r] = "leaving"]
      /\ asleep' = asleep \ {r}
      /\ UNCHANGED <<current, made, replaced, policy, active, waiting, rejected, queueTimeouts, on>>
  BY <1>1, PoolAssumption DEF ContextDone, Selects, Goes, pool
<1>3. \A x \in Requests : x # r => pc'[x] = pc[x] /\ on'[x] = on[x]
  BY <1>1, <1>2 DEF TypeOK
<1>4. /\ pc[r] = "parked" /\ pc'[r] = "leaving" /\ on'[r] = on[r]
      /\ on[r] \in Objects /\ on[r] \in 1 .. made
  BY <1>1, <1>2, Anchored DEF TypeOK, Queueing
<1>5. SlotsAccounted'
  <2> SUFFICES ASSUME NEW o \in Objects
               PROVE  /\ active'[o] = Cardinality(In({"admitted"}, o))'
                      /\ waiting'[o] = Cardinality(In(Queueing, o))'
                      /\ rejected'[o] = Cardinality(In({"refused", "timedout"}, o))'
                      /\ queueTimeouts'[o] = Cardinality(In({"timedout"}, o))'
    BY DEF SlotsAccounted
  <2>1. /\ active[o] = Cardinality(In({"admitted"}, o))
        /\ waiting[o] = Cardinality(In(Queueing, o))
        /\ rejected[o] = Cardinality(In({"refused", "timedout"}, o))
        /\ queueTimeouts[o] = Cardinality(In({"timedout"}, o))
    BY <1>1 DEF SlotsAccounted
  <2>2. active'[o] = Cardinality(In({"admitted"}, o))'
    BY <1>1, <1>2, <1>3, <1>4, <2>1, CountsMove DEF TypeOK
  <2>3. waiting'[o] = Cardinality(In(Queueing, o))'
    BY <1>1, <1>2, <1>3, <1>4, <2>1, CountsMove DEF TypeOK, Queueing
  <2>4. rejected'[o] = Cardinality(In({"refused", "timedout"}, o))'
    BY <1>1, <1>2, <1>3, <1>4, <2>1, CountsMove DEF TypeOK
  <2>5. queueTimeouts'[o] = Cardinality(In({"timedout"}, o))'
    BY <1>1, <1>2, <1>3, <1>4, <2>1, CountsMove DEF TypeOK
  <2> QED
    BY <2>2, <2>3, <2>4, <2>5
<1>6. TypeOK'
  <2>11. active' \in [Objects -> Nat] /\ waiting' \in [Objects -> Nat]
    BY <1>1, <1>2, <1>4 DEF TypeOK
  <2>12. rejected' \in [Objects -> Nat] /\ queueTimeouts' \in [Objects -> Nat]
    BY <1>1, <1>2, <1>4 DEF TypeOK
  <2>13. asleep' \subseteq Requests
    BY <1>1, <1>2, <1>4 DEF TypeOK
  <2>14. pc' \in [Requests -> States]
    BY <1>1, <1>2 DEF TypeOK, States, Queueing, Answered
  <2>15. on' \in [Requests -> 0 .. made]
    BY <1>1, <1>2 DEF TypeOK
  <2> QED
    BY <1>1, <1>2, <2>11, <2>12, <2>13, <2>14, <2>15 DEF TypeOK
<1>7. SleepersHaveAWaker'
  BY <1>1, <1>2, <1>4 DEF TypeOK, SleepersHaveAWaker
<1>8. CallersAnchored'
  BY <1>1, <1>2, <1>4 DEF TypeOK, CallersAnchored, Queueing
<1> QED
  BY <1>5, <1>6, <1>7, <1>8 DEF IndInv

\* A caller whose timer fired is still counted until it removes itself.
LEMMA TimerFiresInv == ASSUME IndInv, NEW r \in Requests, TimerFires(r) PROVE IndInv'
<1>1. TypeOK /\ SlotsAccounted /\ SleepersHaveAWaker /\ CallersAnchored
  BY DEF IndInv
<1>2. /\ pc[r] = "parked"
      /\ pc' = [pc EXCEPT ![r] = "expired"]
      /\ asleep' = asleep \ {r}
      /\ UNCHANGED <<current, made, replaced, policy, active, waiting, rejected, queueTimeouts, on>>
  BY <1>1, PoolAssumption DEF TimerFires, Selects, Goes, pool
<1>3. \A x \in Requests : x # r => pc'[x] = pc[x] /\ on'[x] = on[x]
  BY <1>1, <1>2 DEF TypeOK
<1>4. /\ pc[r] = "parked" /\ pc'[r] = "expired" /\ on'[r] = on[r]
      /\ on[r] \in Objects /\ on[r] \in 1 .. made
  BY <1>1, <1>2, Anchored DEF TypeOK, Queueing
<1>5. SlotsAccounted'
  <2> SUFFICES ASSUME NEW o \in Objects
               PROVE  /\ active'[o] = Cardinality(In({"admitted"}, o))'
                      /\ waiting'[o] = Cardinality(In(Queueing, o))'
                      /\ rejected'[o] = Cardinality(In({"refused", "timedout"}, o))'
                      /\ queueTimeouts'[o] = Cardinality(In({"timedout"}, o))'
    BY DEF SlotsAccounted
  <2>1. /\ active[o] = Cardinality(In({"admitted"}, o))
        /\ waiting[o] = Cardinality(In(Queueing, o))
        /\ rejected[o] = Cardinality(In({"refused", "timedout"}, o))
        /\ queueTimeouts[o] = Cardinality(In({"timedout"}, o))
    BY <1>1 DEF SlotsAccounted
  <2>2. active'[o] = Cardinality(In({"admitted"}, o))'
    BY <1>1, <1>2, <1>3, <1>4, <2>1, CountsMove DEF TypeOK
  <2>3. waiting'[o] = Cardinality(In(Queueing, o))'
    BY <1>1, <1>2, <1>3, <1>4, <2>1, CountsMove DEF TypeOK, Queueing
  <2>4. rejected'[o] = Cardinality(In({"refused", "timedout"}, o))'
    BY <1>1, <1>2, <1>3, <1>4, <2>1, CountsMove DEF TypeOK
  <2>5. queueTimeouts'[o] = Cardinality(In({"timedout"}, o))'
    BY <1>1, <1>2, <1>3, <1>4, <2>1, CountsMove DEF TypeOK
  <2> QED
    BY <2>2, <2>3, <2>4, <2>5
<1>6. TypeOK'
  <2>11. active' \in [Objects -> Nat] /\ waiting' \in [Objects -> Nat]
    BY <1>1, <1>2, <1>4 DEF TypeOK
  <2>12. rejected' \in [Objects -> Nat] /\ queueTimeouts' \in [Objects -> Nat]
    BY <1>1, <1>2, <1>4 DEF TypeOK
  <2>13. asleep' \subseteq Requests
    BY <1>1, <1>2, <1>4 DEF TypeOK
  <2>14. pc' \in [Requests -> States]
    BY <1>1, <1>2 DEF TypeOK, States, Queueing, Answered
  <2>15. on' \in [Requests -> 0 .. made]
    BY <1>1, <1>2 DEF TypeOK
  <2> QED
    BY <1>1, <1>2, <2>11, <2>12, <2>13, <2>14, <2>15 DEF TypeOK
<1>7. SleepersHaveAWaker'
  BY <1>1, <1>2, <1>4 DEF TypeOK, SleepersHaveAWaker
<1>8. CallersAnchored'
  BY <1>1, <1>2, <1>4 DEF TypeOK, CallersAnchored, Queueing
<1> QED
  BY <1>5, <1>6, <1>7, <1>8 DEF IndInv

\* The guard of removeWaiter never matters: the caller is in the queue it leaves.
LEMMA RemoveWaiterInv == ASSUME IndInv, NEW r \in Requests, RemoveWaiter(r) PROVE IndInv'
<1>1. TypeOK /\ SlotsAccounted /\ SleepersHaveAWaker /\ CallersAnchored
  BY DEF IndInv
<1>2. /\ pc[r] \in {"leaving", "expired"}
      /\ pc' = [pc EXCEPT ![r] = IF pc[r] = "leaving" THEN "cancelled" ELSE "counting"]
      /\ waiting' = [waiting EXCEPT ![on[r]] = Less(@)]
      /\ UNCHANGED <<current, made, replaced, policy, active, rejected, queueTimeouts, on, asleep>>
  BY <1>1, PoolAssumption DEF RemoveWaiter, Goes, pool
<1>3. \A x \in Requests : x # r => pc'[x] = pc[x] /\ on'[x] = on[x]
  BY <1>1, <1>2 DEF TypeOK
<1>4. /\ pc[r] \in {"leaving", "expired"} /\ pc'[r] \in {"cancelled", "counting"} /\ on'[r] = on[r]
      /\ on[r] \in Objects /\ on[r] \in 1 .. made
  BY <1>1, <1>2, Anchored DEF TypeOK, Queueing
<1>5. SlotsAccounted'
  <2> SUFFICES ASSUME NEW o \in Objects
               PROVE  /\ active'[o] = Cardinality(In({"admitted"}, o))'
                      /\ waiting'[o] = Cardinality(In(Queueing, o))'
                      /\ rejected'[o] = Cardinality(In({"refused", "timedout"}, o))'
                      /\ queueTimeouts'[o] = Cardinality(In({"timedout"}, o))'
    BY DEF SlotsAccounted
  <2>1. /\ active[o] = Cardinality(In({"admitted"}, o))
        /\ waiting[o] = Cardinality(In(Queueing, o))
        /\ rejected[o] = Cardinality(In({"refused", "timedout"}, o))
        /\ queueTimeouts[o] = Cardinality(In({"timedout"}, o))
    BY <1>1 DEF SlotsAccounted
  <2>2. active'[o] = Cardinality(In({"admitted"}, o))'
    BY <1>1, <1>2, <1>3, <1>4, <2>1, CountsMove DEF TypeOK, Less
  <2>3. waiting'[o] = Cardinality(In(Queueing, o))'
    BY <1>1, <1>2, <1>3, <1>4, <2>1, CountsMove DEF TypeOK, Queueing, Less
  <2>4. rejected'[o] = Cardinality(In({"refused", "timedout"}, o))'
    BY <1>1, <1>2, <1>3, <1>4, <2>1, CountsMove DEF TypeOK
  <2>5. queueTimeouts'[o] = Cardinality(In({"timedout"}, o))'
    BY <1>1, <1>2, <1>3, <1>4, <2>1, CountsMove DEF TypeOK
  <2> QED
    BY <2>2, <2>3, <2>4, <2>5
<1>6. TypeOK'
  <2>3. Less(waiting[on[r]]) \in Nat
    BY <1>1, <1>4 DEF TypeOK, Less
  <2>11. active' \in [Objects -> Nat] /\ waiting' \in [Objects -> Nat]
    BY <1>1, <1>2, <1>4, <2>3 DEF TypeOK
  <2>12. rejected' \in [Objects -> Nat] /\ queueTimeouts' \in [Objects -> Nat]
    BY <1>1, <1>2, <1>4 DEF TypeOK
  <2>13. asleep' \subseteq Requests
    BY <1>1, <1>2, <1>4 DEF TypeOK
  <2>14. pc' \in [Requests -> States]
    BY <1>1, <1>2 DEF TypeOK, States, Queueing, Answered
  <2>15. on' \in [Requests -> 0 .. made]
    BY <1>1, <1>2 DEF TypeOK
  <2> QED
    BY <1>1, <1>2, <2>11, <2>12, <2>13, <2>14, <2>15 DEF TypeOK
<1>7. SleepersHaveAWaker'
  BY <1>1, <1>2, <1>4 DEF TypeOK, SleepersHaveAWaker
<1>8. CallersAnchored'
  BY <1>1, <1>2, <1>4 DEF TypeOK, CallersAnchored, Queueing
<1> QED
  BY <1>5, <1>6, <1>7, <1>8 DEF IndInv

\* A timed out caller is counted as rejected and as timed out.
LEMMA CountTimeoutInv == ASSUME IndInv, NEW r \in Requests, CountTimeout(r) PROVE IndInv'
<1>1. TypeOK /\ SlotsAccounted /\ SleepersHaveAWaker /\ CallersAnchored
  BY DEF IndInv
<1>2. /\ pc[r] = "counting"
      /\ pc' = [pc EXCEPT ![r] = "timedout"]
      /\ rejected' = [rejected EXCEPT ![on[r]] = @ + 1]
      /\ queueTimeouts' = [queueTimeouts EXCEPT ![on[r]] = @ + 1]
      /\ UNCHANGED <<current, made, replaced, policy, active, waiting, on, asleep>>
  BY <1>1, PoolAssumption DEF CountTimeout, Goes, pool
<1>3. \A x \in Requests : x # r => pc'[x] = pc[x] /\ on'[x] = on[x]
  BY <1>1, <1>2 DEF TypeOK
<1>4. /\ pc[r] = "counting" /\ pc'[r] = "timedout" /\ on'[r] = on[r]
      /\ on[r] \in Objects /\ on[r] \in 1 .. made
  BY <1>1, <1>2, Anchored DEF TypeOK, Queueing
<1>5. SlotsAccounted'
  <2> SUFFICES ASSUME NEW o \in Objects
               PROVE  /\ active'[o] = Cardinality(In({"admitted"}, o))'
                      /\ waiting'[o] = Cardinality(In(Queueing, o))'
                      /\ rejected'[o] = Cardinality(In({"refused", "timedout"}, o))'
                      /\ queueTimeouts'[o] = Cardinality(In({"timedout"}, o))'
    BY DEF SlotsAccounted
  <2>1. /\ active[o] = Cardinality(In({"admitted"}, o))
        /\ waiting[o] = Cardinality(In(Queueing, o))
        /\ rejected[o] = Cardinality(In({"refused", "timedout"}, o))
        /\ queueTimeouts[o] = Cardinality(In({"timedout"}, o))
    BY <1>1 DEF SlotsAccounted
  <2>2. active'[o] = Cardinality(In({"admitted"}, o))'
    BY <1>1, <1>2, <1>3, <1>4, <2>1, CountsMove DEF TypeOK
  <2>3. waiting'[o] = Cardinality(In(Queueing, o))'
    BY <1>1, <1>2, <1>3, <1>4, <2>1, CountsMove DEF TypeOK, Queueing
  <2>4. rejected'[o] = Cardinality(In({"refused", "timedout"}, o))'
    BY <1>1, <1>2, <1>3, <1>4, <2>1, CountsMove DEF TypeOK
  <2>5. queueTimeouts'[o] = Cardinality(In({"timedout"}, o))'
    BY <1>1, <1>2, <1>3, <1>4, <2>1, CountsMove DEF TypeOK
  <2> QED
    BY <2>2, <2>3, <2>4, <2>5
<1>6. TypeOK'
  <2>11. active' \in [Objects -> Nat] /\ waiting' \in [Objects -> Nat]
    BY <1>1, <1>2, <1>4 DEF TypeOK
  <2>12. rejected' \in [Objects -> Nat] /\ queueTimeouts' \in [Objects -> Nat]
    BY <1>1, <1>2, <1>4 DEF TypeOK
  <2>13. asleep' \subseteq Requests
    BY <1>1, <1>2, <1>4 DEF TypeOK
  <2>14. pc' \in [Requests -> States]
    BY <1>1, <1>2 DEF TypeOK, States, Queueing, Answered
  <2>15. on' \in [Requests -> 0 .. made]
    BY <1>1, <1>2 DEF TypeOK
  <2> QED
    BY <1>1, <1>2, <2>11, <2>12, <2>13, <2>14, <2>15 DEF TypeOK
<1>7. SleepersHaveAWaker'
  BY <1>1, <1>2, <1>4 DEF TypeOK, SleepersHaveAWaker
<1>8. CallersAnchored'
  BY <1>1, <1>2, <1>4 DEF TypeOK, CallersAnchored, Queueing
<1> QED
  BY <1>5, <1>6, <1>7, <1>8 DEF IndInv

\* A release frees the slot it took and closes the channel every sleeper of that
\* object sleeps on.
LEMMA ReleaseInv == ASSUME IndInv, NEW r \in Requests, Release(r) PROVE IndInv'
<1>1. TypeOK /\ SlotsAccounted /\ SleepersHaveAWaker /\ CallersAnchored
  BY DEF IndInv
<1>2. /\ pc[r] = "admitted"
      /\ pc' = [pc EXCEPT ![r] = "done"]
      /\ active' = [active EXCEPT ![on[r]] = Less(@)]
      /\ asleep' = {x \in asleep : on[x] # on[r]}
      /\ UNCHANGED <<current, made, replaced, policy, waiting, rejected, queueTimeouts, on>>
  BY <1>1, PoolAssumption DEF Release, WokenBy, Goes, pool, TypeOK
<1>3. \A x \in Requests : x # r => pc'[x] = pc[x] /\ on'[x] = on[x]
  BY <1>1, <1>2 DEF TypeOK
<1>4. /\ pc[r] = "admitted" /\ pc'[r] = "done" /\ on'[r] = on[r]
      /\ on[r] \in Objects /\ on[r] \in 1 .. made
  BY <1>1, <1>2, Anchored DEF TypeOK, Queueing
<1>5. SlotsAccounted'
  <2> SUFFICES ASSUME NEW o \in Objects
               PROVE  /\ active'[o] = Cardinality(In({"admitted"}, o))'
                      /\ waiting'[o] = Cardinality(In(Queueing, o))'
                      /\ rejected'[o] = Cardinality(In({"refused", "timedout"}, o))'
                      /\ queueTimeouts'[o] = Cardinality(In({"timedout"}, o))'
    BY DEF SlotsAccounted
  <2>1. /\ active[o] = Cardinality(In({"admitted"}, o))
        /\ waiting[o] = Cardinality(In(Queueing, o))
        /\ rejected[o] = Cardinality(In({"refused", "timedout"}, o))
        /\ queueTimeouts[o] = Cardinality(In({"timedout"}, o))
    BY <1>1 DEF SlotsAccounted
  <2>2. active'[o] = Cardinality(In({"admitted"}, o))'
    BY <1>1, <1>2, <1>3, <1>4, <2>1, CountsMove DEF TypeOK, Less
  <2>3. waiting'[o] = Cardinality(In(Queueing, o))'
    BY <1>1, <1>2, <1>3, <1>4, <2>1, CountsMove DEF TypeOK, Queueing, Less
  <2>4. rejected'[o] = Cardinality(In({"refused", "timedout"}, o))'
    BY <1>1, <1>2, <1>3, <1>4, <2>1, CountsMove DEF TypeOK
  <2>5. queueTimeouts'[o] = Cardinality(In({"timedout"}, o))'
    BY <1>1, <1>2, <1>3, <1>4, <2>1, CountsMove DEF TypeOK
  <2> QED
    BY <2>2, <2>3, <2>4, <2>5
<1>6. TypeOK'
  <2>3. Less(active[on[r]]) \in Nat
    BY <1>1, <1>4 DEF TypeOK, Less
  <2>11. active' \in [Objects -> Nat] /\ waiting' \in [Objects -> Nat]
    BY <1>1, <1>2, <1>4, <2>3 DEF TypeOK
  <2>12. rejected' \in [Objects -> Nat] /\ queueTimeouts' \in [Objects -> Nat]
    BY <1>1, <1>2, <1>4 DEF TypeOK
  <2>13. asleep' \subseteq Requests
    BY <1>1, <1>2, <1>4 DEF TypeOK
  <2>14. pc' \in [Requests -> States]
    BY <1>1, <1>2 DEF TypeOK, States, Queueing, Answered
  <2>15. on' \in [Requests -> 0 .. made]
    BY <1>1, <1>2 DEF TypeOK
  <2> QED
    BY <1>1, <1>2, <2>11, <2>12, <2>13, <2>14, <2>15 DEF TypeOK
<1>7. SleepersHaveAWaker'
  <2> SUFFICES ASSUME NEW x \in asleep'
               PROVE  \E h \in Requests : pc'[h] = "admitted" /\ on'[h] = on'[x]
    BY DEF SleepersHaveAWaker
  <2>1. x \in asleep /\ on[x] # on[r] /\ on'[x] = on[x]
    BY <1>2
  <2>2. PICK h \in Requests : pc[h] = "admitted" /\ on[h] = on[x]
    BY <1>1, <2>1 DEF SleepersHaveAWaker
  <2> QED
    BY <1>1, <1>2, <2>1, <2>2 DEF TypeOK
<1>8. CallersAnchored'
  BY <1>1, <1>2, <1>4 DEF TypeOK, CallersAnchored, Queueing
<1> QED
  BY <1>5, <1>6, <1>7, <1>8 DEF IndInv

\* Releasing an unlimited lease does nothing.
LEMMA ReleaseUnlimitedInv == ASSUME IndInv, NEW r \in Requests, ReleaseUnlimited(r) PROVE IndInv'
<1>1. TypeOK /\ SlotsAccounted /\ SleepersHaveAWaker /\ CallersAnchored
  BY DEF IndInv
<1>2. /\ pc[r] = "unlimited"
      /\ pc' = [pc EXCEPT ![r] = "done"]
      /\ UNCHANGED <<current, made, replaced, policy, active, waiting, rejected, queueTimeouts, on, asleep>>
  BY <1>1, PoolAssumption DEF ReleaseUnlimited, Goes, pool
<1>3. \A x \in Requests : x # r => pc'[x] = pc[x] /\ on'[x] = on[x]
  BY <1>1, <1>2 DEF TypeOK
<1>4. /\ pc[r] = "unlimited" /\ pc'[r] = "done" /\ on'[r] = on[r]
  BY <1>1, <1>2 DEF TypeOK
<1>5. SlotsAccounted'
  <2> SUFFICES ASSUME NEW o \in Objects
               PROVE  /\ active'[o] = Cardinality(In({"admitted"}, o))'
                      /\ waiting'[o] = Cardinality(In(Queueing, o))'
                      /\ rejected'[o] = Cardinality(In({"refused", "timedout"}, o))'
                      /\ queueTimeouts'[o] = Cardinality(In({"timedout"}, o))'
    BY DEF SlotsAccounted
  <2>1. /\ active[o] = Cardinality(In({"admitted"}, o))
        /\ waiting[o] = Cardinality(In(Queueing, o))
        /\ rejected[o] = Cardinality(In({"refused", "timedout"}, o))
        /\ queueTimeouts[o] = Cardinality(In({"timedout"}, o))
    BY <1>1 DEF SlotsAccounted
  <2>2. active'[o] = Cardinality(In({"admitted"}, o))'
    BY <1>1, <1>2, <1>3, <1>4, <2>1, CountsMove DEF TypeOK
  <2>3. waiting'[o] = Cardinality(In(Queueing, o))'
    BY <1>1, <1>2, <1>3, <1>4, <2>1, CountsMove DEF TypeOK, Queueing
  <2>4. rejected'[o] = Cardinality(In({"refused", "timedout"}, o))'
    BY <1>1, <1>2, <1>3, <1>4, <2>1, CountsMove DEF TypeOK
  <2>5. queueTimeouts'[o] = Cardinality(In({"timedout"}, o))'
    BY <1>1, <1>2, <1>3, <1>4, <2>1, CountsMove DEF TypeOK
  <2> QED
    BY <2>2, <2>3, <2>4, <2>5
<1>6. TypeOK'
  <2>11. active' \in [Objects -> Nat] /\ waiting' \in [Objects -> Nat]
    BY <1>1, <1>2, <1>4 DEF TypeOK
  <2>12. rejected' \in [Objects -> Nat] /\ queueTimeouts' \in [Objects -> Nat]
    BY <1>1, <1>2, <1>4 DEF TypeOK
  <2>13. asleep' \subseteq Requests
    BY <1>1, <1>2, <1>4 DEF TypeOK
  <2>14. pc' \in [Requests -> States]
    BY <1>1, <1>2 DEF TypeOK, States, Queueing, Answered
  <2>15. on' \in [Requests -> 0 .. made]
    BY <1>1, <1>2 DEF TypeOK
  <2> QED
    BY <1>1, <1>2, <2>11, <2>12, <2>13, <2>14, <2>15 DEF TypeOK
<1>7. SleepersHaveAWaker'
  BY <1>1, <1>2, <1>4 DEF TypeOK, SleepersHaveAWaker
<1>8. CallersAnchored'
  BY <1>1, <1>2, <1>4 DEF TypeOK, CallersAnchored, Queueing
<1> QED
  BY <1>5, <1>6, <1>7, <1>8 DEF IndInv

\* A caller that returns was not counted any more, and none sleeps with it.
LEMMA ReturnInv == ASSUME IndInv, NEW r \in Requests, Return(r) PROVE IndInv'
<1>1. TypeOK /\ SlotsAccounted /\ SleepersHaveAWaker /\ CallersAnchored
  BY DEF IndInv
<1>2. /\ pc[r] \in {"done", "cancelled"}
      /\ pc' = [pc EXCEPT ![r] = "idle"]
      /\ on' = [on EXCEPT ![r] = 0]
      /\ UNCHANGED <<current, made, replaced, policy, active, waiting, rejected, queueTimeouts, asleep>>
  BY <1>1, PoolAssumption DEF Return, Goes, pool
<1>3. \A x \in Requests : x # r => pc'[x] = pc[x] /\ on'[x] = on[x]
  BY <1>1, <1>2 DEF TypeOK
<1>4. /\ pc[r] \in {"done", "cancelled"} /\ pc'[r] = "idle" /\ on'[r] = 0 /\ r \notin asleep
  BY <1>1, <1>2 DEF TypeOK, CallersAnchored
<1>5. SlotsAccounted'
  <2> SUFFICES ASSUME NEW o \in Objects
               PROVE  /\ active'[o] = Cardinality(In({"admitted"}, o))'
                      /\ waiting'[o] = Cardinality(In(Queueing, o))'
                      /\ rejected'[o] = Cardinality(In({"refused", "timedout"}, o))'
                      /\ queueTimeouts'[o] = Cardinality(In({"timedout"}, o))'
    BY DEF SlotsAccounted
  <2>1. /\ active[o] = Cardinality(In({"admitted"}, o))
        /\ waiting[o] = Cardinality(In(Queueing, o))
        /\ rejected[o] = Cardinality(In({"refused", "timedout"}, o))
        /\ queueTimeouts[o] = Cardinality(In({"timedout"}, o))
    BY <1>1 DEF SlotsAccounted
  <2>2. active'[o] = Cardinality(In({"admitted"}, o))'
    BY <1>1, <1>2, <1>3, <1>4, <2>1, CountsMove DEF TypeOK
  <2>3. waiting'[o] = Cardinality(In(Queueing, o))'
    BY <1>1, <1>2, <1>3, <1>4, <2>1, CountsMove DEF TypeOK, Queueing
  <2>4. rejected'[o] = Cardinality(In({"refused", "timedout"}, o))'
    BY <1>1, <1>2, <1>3, <1>4, <2>1, CountsMove DEF TypeOK
  <2>5. queueTimeouts'[o] = Cardinality(In({"timedout"}, o))'
    BY <1>1, <1>2, <1>3, <1>4, <2>1, CountsMove DEF TypeOK
  <2> QED
    BY <2>2, <2>3, <2>4, <2>5
<1>6. TypeOK'
  <2>11. active' \in [Objects -> Nat] /\ waiting' \in [Objects -> Nat]
    BY <1>1, <1>2, <1>4 DEF TypeOK
  <2>12. rejected' \in [Objects -> Nat] /\ queueTimeouts' \in [Objects -> Nat]
    BY <1>1, <1>2, <1>4 DEF TypeOK
  <2>13. asleep' \subseteq Requests
    BY <1>1, <1>2, <1>4 DEF TypeOK
  <2>14. pc' \in [Requests -> States]
    BY <1>1, <1>2 DEF TypeOK, States, Queueing, Answered
  <2>15. on' \in [Requests -> 0 .. made]
    BY <1>1, <1>2 DEF TypeOK
  <2> QED
    BY <1>1, <1>2, <2>11, <2>12, <2>13, <2>14, <2>15 DEF TypeOK
<1>7. SleepersHaveAWaker'
  BY <1>1, <1>2, <1>4 DEF TypeOK, SleepersHaveAWaker
<1>8. CallersAnchored'
  BY <1>1, <1>2, <1>4 DEF TypeOK, CallersAnchored, Queueing
<1> QED
  BY <1>5, <1>6, <1>7, <1>8 DEF IndInv

-----------------------------------------------------------------------------

\* Every step preserves the inductive invariant.
LEMMA NextPool == IndInv /\ [Next]_vars => IndInv'
<1> SUFFICES ASSUME IndInv, [Next]_vars PROVE IndInv'
  OBVIOUS
<1>1. CASE Replace
  BY <1>1, ReplaceInv
<1>2. CASE UNCHANGED vars
  <2>1. UNCHANGED <<current, made, replaced, policy, active, waiting, rejected, queueTimeouts,
                    pc, on, asleep>>
    BY <1>2 DEF vars, pool, calls
  <2>2. TypeOK'
    BY <2>1 DEF IndInv, TypeOK
  <2>3. SlotsAccounted'
    BY <2>1 DEF IndInv, SlotsAccounted, In
  <2>4. SleepersHaveAWaker' /\ CallersAnchored'
    BY <2>1 DEF IndInv, SleepersHaveAWaker, CallersAnchored
  <2> QED
    BY <2>2, <2>3, <2>4 DEF IndInv
<1>3. ASSUME NEW r \in Requests, Acquire(r) PROVE IndInv'
  BY <1>3, AcquireUnlimitedInv, AcquireRefusedInv, AcquireAdmittedInv, AcquireQueuedInv
     DEF Acquire
<1>4. ASSUME NEW r \in Requests, Recheck(r) PROVE IndInv'
  BY <1>4, RecheckUnlimitedInv, RecheckAdmittedInv, ParkInv DEF Recheck
<1>5. ASSUME NEW r \in Requests,
             Wake(r) \/ ContextDone(r) \/ TimerFires(r) \/ RemoveWaiter(r) \/ CountTimeout(r)
      PROVE  IndInv'
  BY <1>5, WakeInv, ContextDoneInv, TimerFiresInv, RemoveWaiterInv, CountTimeoutInv
<1>6. ASSUME NEW r \in Requests, Release(r) \/ ReleaseUnlimited(r) \/ Return(r) PROVE IndInv'
  BY <1>6, ReleaseInv, ReleaseUnlimitedInv, ReturnInv
<1> QED
  BY <1>1, <1>2, <1>3, <1>4, <1>5, <1>6 DEF Next

\* The inductive invariant holds in every reachable state.
THEOREM PoolInvariance == Spec => []IndInv
<1>1. Init => IndInv
  BY InitPool
<1>2. IndInv /\ [Next]_vars => IndInv'
  BY NextPool
<1> QED
  BY <1>1, <1>2, PTL DEF Spec

\* The pool keeps its types, and every installed policy has a slot.
THEOREM PoolTypes == Spec => []TypeOK
<1>1. IndInv => TypeOK
  BY DEF IndInv
<1> QED
  BY <1>1, PoolInvariance, PTL

\* No slot of any endpointState is leaked, doubled or taken from another
\* object, by any interleaving of Acquire, release and Replace.
THEOREM NoLeakedSlot == Spec => []SlotsAccounted
<1>1. IndInv => SlotsAccounted
  BY DEF IndInv
<1> QED
  BY <1>1, PoolInvariance, PTL

\* The notify channel of the pool loses no wakeup.
THEOREM NoLostWakeup == Spec => []SleepersHaveAWaker
<1>1. IndInv => SleepersHaveAWaker
  BY DEF IndInv
<1> QED
  BY <1>1, PoolInvariance, PTL

\* A step that admits a caller is one of the two that compare the counter
\* with the policy in force.
LEMMA AdmittingSteps ==
  ASSUME IndInv, [Next]_vars, NEW r \in Requests, pc[r] # "admitted", pc'[r] = "admitted"
  PROVE  AcquireAdmitted(r) \/ RecheckAdmitted(r)
<1>1. pc \in [Requests -> States]
  BY DEF IndInv, TypeOK
<1>2. ~ Replace /\ ~ UNCHANGED vars
  BY DEF Replace, vars, calls
<1>3. PICK x \in Requests :
        \/ Acquire(x) \/ Recheck(x) \/ Wake(x)
        \/ ContextDone(x) \/ TimerFires(x) \/ RemoveWaiter(x) \/ CountTimeout(x)
        \/ Release(x) \/ ReleaseUnlimited(x) \/ Return(x)
  BY <1>2 DEF Next
<1>4. x = r
  BY <1>1, <1>3 DEF Acquire, AcquireUnlimited, AcquireRefused, AcquireAdmitted, AcquireQueued,
                    Arrives, Recheck, RecheckUnlimited, RecheckAdmitted, Park, Rechecks, Wake,
                    ContextDone, TimerFires, Selects, RemoveWaiter, CountTimeout, Release,
                    ReleaseUnlimited, Return, Goes
<1> QED
  BY <1>1, <1>3, <1>4 DEF Acquire, AcquireUnlimited, AcquireRefused, AcquireQueued, Arrives,
                    Recheck, RecheckUnlimited, Park, Rechecks, Wake, ContextDone, TimerFires,
                    Selects, RemoveWaiter, CountTimeout, Release, ReleaseUnlimited, Return, Goes

\* A step that puts a new caller into the queue is the one that compares the
\* queue with the depth in force.
LEMMA QueueingSteps ==
  ASSUME IndInv, [Next]_vars, NEW r \in Requests, pc[r] = "idle", pc'[r] = "queued"
  PROVE  AcquireQueued(r)
<1>1. pc \in [Requests -> States]
  BY DEF IndInv, TypeOK
<1>2. ~ Replace /\ ~ UNCHANGED vars
  BY DEF Replace, vars, calls
<1>3. PICK x \in Requests :
        \/ Acquire(x) \/ Recheck(x) \/ Wake(x)
        \/ ContextDone(x) \/ TimerFires(x) \/ RemoveWaiter(x) \/ CountTimeout(x)
        \/ Release(x) \/ ReleaseUnlimited(x) \/ Return(x)
  BY <1>2 DEF Next
<1>4. x = r
  BY <1>1, <1>3 DEF Acquire, AcquireUnlimited, AcquireRefused, AcquireAdmitted, AcquireQueued,
                    Arrives, Recheck, RecheckUnlimited, RecheckAdmitted, Park, Rechecks, Wake,
                    ContextDone, TimerFires, Selects, RemoveWaiter, CountTimeout, Release,
                    ReleaseUnlimited, Return, Goes
<1> QED
  BY <1>1, <1>3, <1>4 DEF Acquire, AcquireUnlimited, AcquireRefused, AcquireAdmitted, Arrives,
                    Recheck, RecheckUnlimited, RecheckAdmitted, Park, Rechecks, Wake,
                    ContextDone, TimerFires, Selects, RemoveWaiter, CountTimeout, Release,
                    ReleaseUnlimited, Return, Goes

\* Counted over the requests themselves, no step admits a caller beyond the
\* concurrency in force or queues one beyond the depth in force.
THEOREM LimitsRespected == Spec => WithinLimits
<1> DEFINE Within ==
      \A r \in Requests, o \in Objects :
         /\ pc[r] # "admitted" /\ pc'[r] = "admitted" /\ on'[r] = o
              => Cardinality(In({"admitted"}, o))' <= policy[o].max
         /\ pc[r] = "idle" /\ pc'[r] = "queued" /\ on'[r] = o
              => Cardinality(In(Queueing, o))' <= policy[o].depth
<1>1. IndInv /\ [Next]_vars => [Within]_vars
  <2> SUFFICES ASSUME IndInv, [Next]_vars, NEW r \in Requests, NEW o \in Objects, on'[r] = o
               PROVE  /\ pc[r] # "admitted" /\ pc'[r] = "admitted"
                           => Cardinality(In({"admitted"}, o))' <= policy[o].max
                      /\ pc[r] = "idle" /\ pc'[r] = "queued"
                           => Cardinality(In(Queueing, o))' <= policy[o].depth
    OBVIOUS
  <2>1. IndInv'
    BY NextPool
  <2>2. /\ Cardinality(In({"admitted"}, o))' = active'[o]
        /\ Cardinality(In(Queueing, o))' = waiting'[o]
    BY <2>1 DEF IndInv, SlotsAccounted
  <2>3. /\ active[o] \in Nat /\ waiting[o] \in Nat
        /\ policy[o].max \in Nat /\ policy[o].depth \in Nat
        /\ on \in [Requests -> 0 .. made]
        /\ active \in [Objects -> Nat] /\ waiting \in [Objects -> Nat]
    BY DEF IndInv, TypeOK, PolicyType
  <2>4. AcquireAdmitted(r) \/ RecheckAdmitted(r) => active'[o] <= policy[o].max
    BY <2>3 DEF AcquireAdmitted, Arrives, RecheckAdmitted, Rechecks, HasCapacity
  <2>5. AcquireQueued(r) => waiting'[o] <= policy[o].depth
    BY <2>3 DEF AcquireQueued, Arrives, QueueFull
  <2> QED
    BY <2>2, <2>4, <2>5, AdmittingSteps, QueueingSteps
<1> QED
  BY <1>1, PoolInvariance, PTL DEF Spec, WithinLimits

-----------------------------------------------------------------------------
(* Asynchronous inference jobs.                                            *)

\* The initial state satisfies the inductive invariant.
LEMMA InitJobs == JobInit => JobIndInv
  BY AsyncConstants DEF JobInit, JobIndInv, JobTypeOK, LeaseOfLastClaim, TurnsAnchored,
    ResultIsFenced,
     WebhookCarriesResult, NoRow, Idle, Row, Worker, Tokens, Terminal

\* What the invariant says of one row and of one worker in its turn.
LEMMA RowFacts ==
  ASSUME JobIndInv, NEW j \in Jobs
  PROVE  /\ job[j] \in Row
         /\ job[j].status = "succeeded" <=> job[j].result # 0
         /\ job[j].result # 0 => job[j].result = latest[j]
         /\ job[j].status = "running" => job[j].token = latest[j] /\ job[j].token # 0
         /\ job[j].status # "running" => job[j].token = 0
         /\ bodies[j] \subseteq {job[j].result} \ {0}
         /\ job[j].hook \in {"delivered", "failed"} => bodies[j] # {}
  BY DEF JobIndInv, JobTypeOK, LeaseOfLastClaim, ResultIsFenced, WebhookCarriesResult

LEMMA TurnFacts ==
  ASSUME JobIndInv, NEW w \in Workers, worker[w].pc # "idle"
  PROVE  /\ worker[w] \in Worker
         /\ worker[w].job \in Jobs
         /\ worker[w].token # 0
         /\ worker[w].pc \in {"delivering", "recording"} =>
               job[worker[w].job].result = worker[w].token
         /\ worker[w].pc \notin {"recording", "finished", "erred"} => worker[w].tries < MaxHooks
         /\ worker[w].pc = "recording" => worker[w].token \in bodies[worker[w].job]
  BY DEF JobIndInv, JobTypeOK, TurnsAnchored

\* A statement that leaves the result of its row alone keeps what the invariant
\* says of rows, provided the new row is in order by itself.
LEMMA RowStep ==
  ASSUME JobIndInv, NEW j \in Jobs, NEW row \in Row,
         job' = [job EXCEPT ![j] = row],
         UNCHANGED <<latest, bodies>>,
         row.result = job[j].result,
         row.status = "succeeded" <=> job[j].status = "succeeded",
         row.status = "running" => row.token = latest[j] /\ row.token # 0,
         row.status # "running" => row.token = 0,
         row.hook \in {"delivered", "failed"} => bodies[j] # {}
  PROVE  /\ job' \in [Jobs -> Row]
         /\ LeaseOfLastClaim' /\ ResultIsFenced' /\ WebhookCarriesResult'
         /\ \A i \in Jobs : job'[i].result = job[i].result
<1>1. job \in [Jobs -> Row]
  BY DEF JobIndInv, JobTypeOK
<1>2. job' \in [Jobs -> Row] /\ job'[j] = row /\ \A i \in Jobs \ {j} : job'[i] = job[i]
  BY <1>1
<1>3. LeaseOfLastClaim'
  BY <1>2 DEF JobIndInv, LeaseOfLastClaim
<1>4. ResultIsFenced'
  BY <1>2 DEF JobIndInv, ResultIsFenced
<1>5. WebhookCarriesResult'
  BY <1>2 DEF JobIndInv, WebhookCarriesResult
<1> QED
  BY <1>2, <1>3, <1>4, <1>5

\* A worker's step that leaves results and webhooks alone keeps what the
\* invariant says of workers, provided the new state is in order by itself.
LEMMA WorkerStep ==
  ASSUME JobIndInv, NEW w \in Workers, NEW v \in Worker,
         worker' = [worker EXCEPT ![w] = v],
         \A i \in Jobs : job'[i].result = job[i].result,
         UNCHANGED bodies,
         v.pc # "idle" =>
            /\ v.job \in Jobs /\ v.token # 0
            /\ v.pc \in {"delivering", "recording"} => job[v.job].result = v.token
            /\ v.pc \notin {"recording", "finished", "erred"} => v.tries < MaxHooks
            /\ v.pc = "recording" => v.token \in bodies[v.job]
  PROVE  worker' \in [Workers -> Worker] /\ TurnsAnchored'
<1>1. worker \in [Workers -> Worker]
  BY DEF JobIndInv, JobTypeOK
<1>2. worker' \in [Workers -> Worker] /\ worker'[w] = v /\ \A u \in Workers \ {w} : worker'[u] = worker[u]
  BY <1>1
<1>3. TurnsAnchored'
  BY <1>2 DEF JobIndInv, TurnsAnchored
<1> QED
  BY <1>2, <1>3

\* A step that touches no worker, result or webhook.
LEMMA WorkersUntouched ==
  ASSUME JobIndInv, UNCHANGED <<worker, bodies>>, \A i \in Jobs : job'[i].result = job[i].result
  PROVE  worker' \in [Workers -> Worker] /\ TurnsAnchored'
  BY DEF JobIndInv, JobTypeOK, TurnsAnchored

\* A step that touches no row.
LEMMA RowsUntouched ==
  ASSUME JobIndInv, UNCHANGED <<job, latest, bodies>>
  PROVE  /\ job' \in [Jobs -> Row]
         /\ LeaseOfLastClaim' /\ ResultIsFenced' /\ WebhookCarriesResult'
         /\ \A i \in Jobs : job'[i].result = job[i].result
  BY DEF JobIndInv, JobTypeOK, LeaseOfLastClaim, ResultIsFenced, WebhookCarriesResult

\* A row that gives up its lease.
LEMMA UnleasedRow ==
  ASSUME NEW r \in Row, NEW s \in {"queued", "failed", "cancelled", "expired", "succeeded"}
  PROVE  /\ [Unleased(r) EXCEPT !.status = s] \in Row
         /\ [Unleased(r) EXCEPT !.status = s].status = s
         /\ [Unleased(r) EXCEPT !.status = s].token = 0
         /\ [Unleased(r) EXCEPT !.status = s].result = r.result
         /\ [Unleased(r) EXCEPT !.status = s].hook = r.hook
<1>1. 0 \in Tokens
  BY AsyncConstants DEF Tokens
<1>2. [Unleased(r) EXCEPT !.status = s] = [r EXCEPT !.token = 0, !.live = FALSE, !.status = s]
  BY DEF Unleased, Row
<1> QED
  BY <1>1, <1>2 DEF Row, Terminal

\* Puts the parts together.
LEMMA Assembled ==
  ASSUME JobIndInv, job' \in [Jobs -> Row], worker' \in [Workers -> Worker],
         claims' \in Tokens, latest' \in [Jobs -> Tokens], executed' \in [Jobs -> Nat],
         bodies' \in [Jobs -> SUBSET Tokens], faults' \in 0 .. MaxFaults,
         LeaseOfLastClaim', TurnsAnchored', ResultIsFenced', WebhookCarriesResult'
  PROVE  JobIndInv'
  BY DEF JobIndInv, JobTypeOK

\* The variables most steps leave alone, and the fault counter.
LEMMA Rest ==
  ASSUME JobIndInv, UNCHANGED <<claims, latest, executed, bodies>>, Fault \/ UNCHANGED faults
  PROVE  /\ claims' \in Tokens /\ latest' \in [Jobs -> Tokens] /\ executed' \in [Jobs -> Nat]
         /\ bodies' \in [Jobs -> SUBSET Tokens] /\ faults' \in 0 .. MaxFaults
  BY AsyncConstants DEF JobIndInv, JobTypeOK, Fault

(***************************************************************************)
(* Steps of clients and of the clock.                                      *)
(***************************************************************************)
LEMMA SubmitInv == ASSUME JobIndInv, NEW j \in Jobs, Submit(j) PROVE JobIndInv'
<1>1. PICK hook \in {"not_configured", "pending"} :
        job' = [job EXCEPT ![j] = [NoRow EXCEPT !.status = "queued", !.hook = hook]]
  BY DEF Submit
<1> DEFINE row == [NoRow EXCEPT !.status = "queued", !.hook = hook]
<1>2. row \in Row /\ row.result = 0 /\ row.status = "queued" /\ row.token = 0 /\ row.hook = hook
  <2>1. 0 \in Tokens /\ 0 \in 0 .. MaxAttempts /\ 0 \in 0 .. MaxHooks
    BY AsyncConstants DEF Tokens
  <2> QED
    BY <2>1 DEF NoRow, Row
<1>3. job[j].status = "absent" /\ UNCHANGED <<worker, claims, latest, executed, bodies, faults>>
  BY DEF Submit, history
<1>4. job[j].result = 0
  BY <1>3, RowFacts
<1> HIDE DEF row
<1>5. job' = [job EXCEPT ![j] = row]
  BY <1>1 DEF row
<1>6. /\ job' \in [Jobs -> Row] /\ LeaseOfLastClaim' /\ ResultIsFenced' /\ WebhookCarriesResult'
      /\ \A i \in Jobs : job'[i].result = job[i].result
  BY <1>2, <1>3, <1>4, <1>5, RowStep
<1> QED
  BY <1>3, <1>6, WorkersUntouched, Rest, Assembled

LEMMA CancelAsyncInferenceJobInv == ASSUME JobIndInv, NEW j \in Jobs, CancelAsyncInferenceJob(j) PROVE JobIndInv'
<1> DEFINE row == [Unleased(job[j]) EXCEPT !.status = "cancelled"]
<1>1. /\ job' = [job EXCEPT ![j] = row]
      /\ job[j].status \in {"queued", "running"}
      /\ UNCHANGED <<worker, claims, latest, executed, bodies, faults>>
  BY DEF CancelAsyncInferenceJob, history, Cancellable, Active, Unleased
<1>2. /\ job[j] \in Row /\ (job[j].status = "running" => job[j].token = latest[j] /\ job[j].token # 0)
      /\ (job[j].status # "running" => job[j].token = 0)
      /\ (job[j].hook \in {"delivered", "failed"} => bodies[j] # {})
  BY RowFacts
<1>3. /\ row \in Row /\ row.result = job[j].result /\ row.hook = job[j].hook
      /\ row.status = "succeeded" <=> job[j].status = "succeeded"
      /\ row.status = "running" => row.token = job[j].token /\ job[j].status = "running"
      /\ row.status # "running" => row.token = 0
  BY <1>1, <1>2, UnleasedRow
<1> HIDE DEF row
<1>4. /\ job' \in [Jobs -> Row] /\ LeaseOfLastClaim' /\ ResultIsFenced' /\ WebhookCarriesResult'
      /\ \A i \in Jobs : job'[i].result = job[i].result
  BY <1>1, <1>2, <1>3, RowStep
<1> QED
  BY <1>1, <1>4, WorkersUntouched, Rest, Assembled

LEMMA LeaseExpiresInv == ASSUME JobIndInv, NEW j \in Jobs, LeaseExpires(j) PROVE JobIndInv'
<1> DEFINE row == [job[j] EXCEPT !.live = FALSE]
<1>1. /\ job' = [job EXCEPT ![j] = row]
      /\ job[j].status = "running"
      /\ UNCHANGED <<worker, claims, latest, executed, bodies, faults>>
  BY DEF LeaseExpires, history
<1>2. /\ job[j] \in Row /\ (job[j].status = "running" => job[j].token = latest[j] /\ job[j].token # 0)
      /\ (job[j].status # "running" => job[j].token = 0)
      /\ (job[j].hook \in {"delivered", "failed"} => bodies[j] # {})
  BY RowFacts
<1>3. /\ row \in Row /\ row.result = job[j].result /\ row.hook = job[j].hook
      /\ row.status = "succeeded" <=> job[j].status = "succeeded"
      /\ row.status = "running" => row.token = job[j].token /\ job[j].status = "running"
      /\ row.status # "running" => row.token = 0
  BY <1>1, <1>2, AsyncConstants DEF Row, Tokens, Terminal
<1> HIDE DEF row
<1>4. /\ job' \in [Jobs -> Row] /\ LeaseOfLastClaim' /\ ResultIsFenced' /\ WebhookCarriesResult'
      /\ \A i \in Jobs : job'[i].result = job[i].result
  BY <1>1, <1>2, <1>3, RowStep
<1> QED
  BY <1>1, <1>4, WorkersUntouched, Rest, Assembled

LEMMA DeadlinePassesInv == ASSUME JobIndInv, NEW j \in Jobs, DeadlinePasses(j) PROVE JobIndInv'
<1> DEFINE row == [job[j] EXCEPT !.past = TRUE]
<1>1. /\ job' = [job EXCEPT ![j] = row]
      /\ job[j].status \in {"queued", "running"}
      /\ UNCHANGED <<worker, claims, latest, executed, bodies, faults>>
  BY DEF DeadlinePasses, history, Active
<1>2. /\ job[j] \in Row /\ (job[j].status = "running" => job[j].token = latest[j] /\ job[j].token # 0)
      /\ (job[j].status # "running" => job[j].token = 0)
      /\ (job[j].hook \in {"delivered", "failed"} => bodies[j] # {})
  BY RowFacts
<1>3. /\ row \in Row /\ row.result = job[j].result /\ row.hook = job[j].hook
      /\ row.status = "succeeded" <=> job[j].status = "succeeded"
      /\ row.status = "running" => row.token = job[j].token /\ job[j].status = "running"
      /\ row.status # "running" => row.token = 0
  BY <1>1, <1>2, AsyncConstants DEF Row, Tokens, Terminal, Active
<1> HIDE DEF row
<1>4. /\ job' \in [Jobs -> Row] /\ LeaseOfLastClaim' /\ ResultIsFenced' /\ WebhookCarriesResult'
      /\ \A i \in Jobs : job'[i].result = job[i].result
  BY <1>1, <1>2, <1>3, RowStep
<1> QED
  BY <1>1, <1>4, WorkersUntouched, Rest, Assembled

\* One statement ends every job past its deadline.
LEMMA ExpireAsyncInferenceJobsInv ==
  ASSUME JobIndInv, NEW w \in Workers, ExpireAsyncInferenceJobs(w) PROVE JobIndInv'
<1>1. UNCHANGED <<worker, claims, latest, executed, bodies, faults>>
  BY DEF ExpireAsyncInferenceJobs, history
<1>2. ASSUME NEW i \in Jobs
      PROVE  /\ job'[i] \in Row /\ job'[i].result = job[i].result /\ job'[i].hook = job[i].hook
             /\ job'[i].status = "succeeded" <=> job[i].status = "succeeded"
             /\ job'[i].status = "running" => job'[i] = job[i]
             /\ job'[i].status # "running" => job'[i].token = 0
  <2>1. job[i] \in Row /\ (job[i].status # "running" => job[i].token = 0)
    BY RowFacts
  <2>2. CASE Expirable(job[i])
    <3>1. job'[i] = [Unleased(job[i]) EXCEPT !.status = "expired"]
      BY <2>2 DEF ExpireAsyncInferenceJobs
    <3>2. job[i].status \in {"queued", "running"}
      BY <2>2 DEF Expirable, Active
    <3>3. /\ job'[i] \in Row /\ job'[i].status = "expired" /\ job'[i].token = 0
          /\ job'[i].result = job[i].result /\ job'[i].hook = job[i].hook
      <4> DEFINE u == [Unleased(job[i]) EXCEPT !.status = "expired"]
      <4>1. u \in Row /\ u.status = "expired" /\ u.token = 0 /\ u.result = job[i].result /\ u.hook = job[i].hook
        BY <2>1, UnleasedRow
      <4> HIDE DEF u
      <4>2. job'[i] = u
        BY <3>1 DEF u
      <4> QED
        BY <4>1, <4>2
    <3> QED
      BY <3>2, <3>3
  <2>3. CASE ~ Expirable(job[i])
    <3>1. job'[i] = job[i]
      BY <2>3 DEF ExpireAsyncInferenceJobs
    <3> QED
      BY <2>1, <3>1
  <2> QED
    BY <2>2, <2>3
<1>3. job' \in [Jobs -> Row]
  <2>1. job' = [i \in Jobs |-> job'[i]]
    BY DEF ExpireAsyncInferenceJobs
  <2> QED
    BY <1>2, <2>1
<1>4. LeaseOfLastClaim'
  BY <1>1, <1>2 DEF JobIndInv, LeaseOfLastClaim
<1>5. ResultIsFenced'
  BY <1>1, <1>2 DEF JobIndInv, ResultIsFenced
<1>6. WebhookCarriesResult'
  BY <1>1, <1>2 DEF JobIndInv, WebhookCarriesResult
<1> QED
  BY <1>1, <1>2, <1>3, <1>4, <1>5, <1>6, WorkersUntouched, Rest, Assembled

(***************************************************************************)
(* Steps of a worker's turn.                                               *)
(***************************************************************************)
LEMMA HeartbeatRefusedInv == ASSUME JobIndInv, NEW w \in Workers, HeartbeatRefused(w) PROVE JobIndInv'
<1> DEFINE v == [worker[w] EXCEPT !.lost = TRUE]
<1>1. /\ worker' = [worker EXCEPT ![w] = v]
      /\ worker[w].pc # "idle"
      /\ UNCHANGED <<job, claims, latest, executed, bodies>>
      /\ Fault \/ UNCHANGED faults
  BY DEF HeartbeatRefused, history, At, WorkerGoes, Working
<1>2. worker[w] \in Worker /\ worker[w].job \in Jobs /\ worker[w].token # 0
  BY <1>1, TurnFacts
<1>3. /\ v \in Worker /\ v.job = worker[w].job /\ v.token = worker[w].token
      /\ v.tries = worker[w].tries /\ (v.pc = worker[w].pc \/ v.pc \notin {"delivering", "recording"})
      /\ v.pc \notin {"recording", "finished", "erred"} => worker[w].pc \notin {"recording", "finished", "erred"}
  BY <1>1, <1>2 DEF Worker
<1> HIDE DEF v
<1>4. worker' \in [Workers -> Worker] /\ TurnsAnchored'
  BY <1>1, <1>2, <1>3, TurnFacts, WorkerStep
<1> QED
  BY <1>1, <1>4, RowsUntouched, Rest, Assembled

LEMMA HeartbeatFailsInv == ASSUME JobIndInv, NEW w \in Workers, HeartbeatFails(w) PROVE JobIndInv'
<1> DEFINE v == [worker[w] EXCEPT !.lost = TRUE]
<1>1. /\ worker' = [worker EXCEPT ![w] = v]
      /\ worker[w].pc # "idle"
      /\ UNCHANGED <<job, claims, latest, executed, bodies>>
      /\ Fault \/ UNCHANGED faults
  BY DEF HeartbeatFails, history, At, WorkerGoes, Working
<1>2. worker[w] \in Worker /\ worker[w].job \in Jobs /\ worker[w].token # 0
  BY <1>1, TurnFacts
<1>3. /\ v \in Worker /\ v.job = worker[w].job /\ v.token = worker[w].token
      /\ v.tries = worker[w].tries /\ (v.pc = worker[w].pc \/ v.pc \notin {"delivering", "recording"})
      /\ v.pc \notin {"recording", "finished", "erred"} => worker[w].pc \notin {"recording", "finished", "erred"}
  BY <1>1, <1>2 DEF Worker
<1> HIDE DEF v
<1>4. worker' \in [Workers -> Worker] /\ TurnsAnchored'
  BY <1>1, <1>2, <1>3, TurnFacts, WorkerStep
<1> QED
  BY <1>1, <1>4, RowsUntouched, Rest, Assembled

LEMMA ExecuteFailsInv == ASSUME JobIndInv, NEW w \in Workers, ExecuteFails(w) PROVE JobIndInv'
<1> DEFINE v == [worker[w] EXCEPT !.pc = "erred"]
<1>1. /\ worker' = [worker EXCEPT ![w] = v]
      /\ worker[w].pc # "idle"
      /\ UNCHANGED <<job, claims, latest, executed, bodies>>
      /\ Fault \/ UNCHANGED faults
  BY DEF ExecuteFails, history, At, WorkerGoes
<1>2. worker[w] \in Worker /\ worker[w].job \in Jobs /\ worker[w].token # 0
  BY <1>1, TurnFacts
<1>3. /\ v \in Worker /\ v.job = worker[w].job /\ v.token = worker[w].token
      /\ v.tries = worker[w].tries /\ (v.pc = worker[w].pc \/ v.pc \notin {"delivering", "recording"})
      /\ v.pc \notin {"recording", "finished", "erred"} => worker[w].pc \notin {"recording", "finished", "erred"}
  BY <1>1, <1>2 DEF Worker
<1> HIDE DEF v
<1>4. worker' \in [Workers -> Worker] /\ TurnsAnchored'
  BY <1>1, <1>2, <1>3, TurnFacts, WorkerStep
<1> QED
  BY <1>1, <1>4, RowsUntouched, Rest, Assembled

LEMMA GatewayAnswersInv == ASSUME JobIndInv, NEW w \in Workers, GatewayAnswers(w) PROVE JobIndInv'
<1> DEFINE v == [worker[w] EXCEPT !.pc = "received"]
<1>1. /\ worker' = [worker EXCEPT ![w] = v]
      /\ worker[w].pc = "executing"
      /\ UNCHANGED <<job, claims, latest, executed, bodies>>
      /\ Fault \/ UNCHANGED faults
  BY DEF GatewayAnswers, history, At, WorkerGoes
<1>2. worker[w] \in Worker /\ worker[w].job \in Jobs /\ worker[w].token # 0
  BY <1>1, TurnFacts
<1>3. /\ v \in Worker /\ v.job = worker[w].job /\ v.token = worker[w].token
      /\ v.tries = worker[w].tries /\ (v.pc = worker[w].pc \/ v.pc \notin {"delivering", "recording"})
      /\ v.pc \notin {"recording", "finished", "erred"} => worker[w].pc \notin {"recording", "finished", "erred"}
  BY <1>1, <1>2 DEF Worker
<1> HIDE DEF v
<1>4. worker' \in [Workers -> Worker] /\ TurnsAnchored'
  BY <1>1, <1>2, <1>3, TurnFacts, WorkerStep
<1> QED
  BY <1>1, <1>4, RowsUntouched, Rest, Assembled

LEMMA SecretUnavailableInv == ASSUME JobIndInv, NEW w \in Workers, SecretUnavailable(w) PROVE JobIndInv'
<1> DEFINE v == [worker[w] EXCEPT !.pc = "finished"]
<1>1. /\ worker' = [worker EXCEPT ![w] = v]
      /\ worker[w].pc # "idle"
      /\ UNCHANGED <<job, claims, latest, executed, bodies>>
      /\ Fault \/ UNCHANGED faults
  BY DEF SecretUnavailable, history, At, WorkerGoes
<1>2. worker[w] \in Worker /\ worker[w].job \in Jobs /\ worker[w].token # 0
  BY <1>1, TurnFacts
<1>3. /\ v \in Worker /\ v.job = worker[w].job /\ v.token = worker[w].token
      /\ v.tries = worker[w].tries /\ (v.pc = worker[w].pc \/ v.pc \notin {"delivering", "recording"})
      /\ v.pc \notin {"recording", "finished", "erred"} => worker[w].pc \notin {"recording", "finished", "erred"}
  BY <1>1, <1>2 DEF Worker
<1> HIDE DEF v
<1>4. worker' \in [Workers -> Worker] /\ TurnsAnchored'
  BY <1>1, <1>2, <1>3, TurnFacts, WorkerStep
<1> QED
  BY <1>1, <1>4, RowsUntouched, Rest, Assembled

LEMMA DeliveryCancelledInv == ASSUME JobIndInv, NEW w \in Workers, DeliveryCancelled(w) PROVE JobIndInv'
<1> DEFINE v == [worker[w] EXCEPT !.pc = "finished"]
<1>1. /\ worker' = [worker EXCEPT ![w] = v]
      /\ worker[w].pc # "idle"
      /\ UNCHANGED <<job, claims, latest, executed, bodies>>
      /\ Fault \/ UNCHANGED faults
  BY DEF DeliveryCancelled, history, At, WorkerGoes
<1>2. worker[w] \in Worker /\ worker[w].job \in Jobs /\ worker[w].token # 0
  BY <1>1, TurnFacts
<1>3. /\ v \in Worker /\ v.job = worker[w].job /\ v.token = worker[w].token
      /\ v.tries = worker[w].tries /\ (v.pc = worker[w].pc \/ v.pc \notin {"delivering", "recording"})
      /\ v.pc \notin {"recording", "finished", "erred"} => worker[w].pc \notin {"recording", "finished", "erred"}
  BY <1>1, <1>2 DEF Worker
<1> HIDE DEF v
<1>4. worker' \in [Workers -> Worker] /\ TurnsAnchored'
  BY <1>1, <1>2, <1>3, TurnFacts, WorkerStep
<1> QED
  BY <1>1, <1>4, RowsUntouched, Rest, Assembled

LEMMA EndTurnInv == ASSUME JobIndInv, NEW w \in Workers, EndTurn(w) PROVE JobIndInv'
<1>1. /\ worker' = [worker EXCEPT ![w] = Idle]
      /\ UNCHANGED <<job, claims, latest, executed, bodies>>
      /\ Fault \/ UNCHANGED faults
  BY DEF EndTurn, history
<1>2. Idle \in Worker /\ Idle.pc = "idle"
  BY AsyncConstants DEF Idle, Worker, Tokens
<1>3. worker' \in [Workers -> Worker] /\ TurnsAnchored'
  BY <1>1, <1>2, WorkerStep
<1> QED
  BY <1>1, <1>3, RowsUntouched, Rest, Assembled

LEMMA CrashInv == ASSUME JobIndInv, NEW w \in Workers, Crash(w) PROVE JobIndInv'
<1>1. /\ worker' = [worker EXCEPT ![w] = Idle]
      /\ UNCHANGED <<job, claims, latest, executed, bodies>>
      /\ Fault \/ UNCHANGED faults
  BY DEF Crash, history
<1>2. Idle \in Worker /\ Idle.pc = "idle"
  BY AsyncConstants DEF Idle, Worker, Tokens
<1>3. worker' \in [Workers -> Worker] /\ TurnsAnchored'
  BY <1>1, <1>2, WorkerStep
<1> QED
  BY <1>1, <1>3, RowsUntouched, Rest, Assembled

LEMMA ExecuteInv == ASSUME JobIndInv, NEW w \in Workers, Execute(w) PROVE JobIndInv'
<1> DEFINE j == worker[w].job
<1> DEFINE v == [worker[w] EXCEPT !.pc = "executing", !.attempt = job[j].attempt]
<1>1. /\ worker' = [worker EXCEPT ![w] = v] /\ worker[w].pc = "claimed"
      /\ executed' = [executed EXCEPT ![j] = @ + 1]
      /\ UNCHANGED <<job, claims, latest, bodies, faults>>
  BY DEF Execute, At
<1>2. worker[w] \in Worker /\ j \in Jobs /\ worker[w].token # 0 /\ worker[w].tries < MaxHooks
  BY <1>1, TurnFacts
<1>3. job[j] \in Row
  BY <1>2, RowFacts
<1>4. /\ v \in Worker /\ v.job = worker[w].job /\ v.token = worker[w].token
      /\ v.tries = worker[w].tries /\ v.pc = "executing"
  BY <1>2, <1>3 DEF Worker, Row
<1> HIDE DEF v
<1>5. worker' \in [Workers -> Worker] /\ TurnsAnchored'
  BY <1>1, <1>2, <1>4, WorkerStep
<1>6. /\ executed' \in [Jobs -> Nat] /\ claims' \in Tokens /\ latest' \in [Jobs -> Tokens]
      /\ bodies' \in [Jobs -> SUBSET Tokens] /\ faults' \in 0 .. MaxFaults
  BY <1>1, <1>2 DEF JobIndInv, JobTypeOK
<1> QED
  BY <1>1, <1>5, <1>6, RowsUntouched, Assembled

\* The answer is committed: the row had no result, so no webhook has been sent
\* for it and no other worker delivers one.
LEMMA CompletedInv ==
  ASSUME JobIndInv, NEW w \in Workers, worker[w].pc = "received", Fenced(w), Completed(w),
         NEW step \in {"finished", "delivering", "erred"},
         worker' = [worker EXCEPT ![w].pc = step],
         UNCHANGED <<claims, latest, executed, bodies>>, Fault \/ UNCHANGED faults
  PROVE  JobIndInv'
<1> DEFINE j == worker[w].job
<1> DEFINE t == worker[w].token
<1> DEFINE row == [Unleased(job[j]) EXCEPT !.status = "succeeded", !.result = t]
<1>1. worker[w] \in Worker /\ j \in Jobs /\ t # 0 /\ worker[w].tries < MaxHooks /\ t \in Tokens
  BY TurnFacts DEF Worker
<1>2. job \in [Jobs -> Row] /\ worker \in [Workers -> Worker]
  BY DEF JobIndInv, JobTypeOK
<1>3. /\ job[j] \in Row /\ job[j].status = "running" /\ job[j].token = t /\ t = latest[j]
      /\ job[j].result = 0 /\ bodies[j] = {}
      /\ job[j].hook \notin {"delivered", "failed"}
  <2>1. job[j].status = "running" /\ job[j].token = t
    BY DEF Fenced
  <2> QED
    BY <1>1, <2>1, RowFacts
<1>4. row \in Row /\ row.status = "succeeded" /\ row.result = t /\ row.token = 0 /\ row.hook = job[j].hook
  BY <1>1, <1>3 DEF Row, Unleased, Tokens, Terminal
<1>5. job' = [job EXCEPT ![j] = row]
  BY DEF Completed
<1> HIDE DEF row
<1>6. job' \in [Jobs -> Row] /\ job'[j] = row /\ \A i \in Jobs \ {j} : job'[i] = job[i]
  BY <1>1, <1>2, <1>4, <1>5
<1>7. LeaseOfLastClaim'
  BY <1>4, <1>6 DEF JobIndInv, LeaseOfLastClaim
<1>8. ResultIsFenced'
  BY <1>1, <1>3, <1>4, <1>6 DEF JobIndInv, ResultIsFenced
<1>9. WebhookCarriesResult'
  BY <1>3, <1>4, <1>6 DEF JobIndInv, WebhookCarriesResult
<1> DEFINE v == [worker[w] EXCEPT !.pc = step]
<1>10. v \in Worker /\ v.pc = step /\ v.job = j /\ v.token = t /\ v.tries = worker[w].tries
  BY <1>1 DEF Worker
<1>11. worker' = [worker EXCEPT ![w] = v]
  OBVIOUS
<1> HIDE DEF v
<1>12. worker' \in [Workers -> Worker] /\ worker'[w] = v /\ \A u \in Workers \ {w} : worker'[u] = worker[u]
  BY <1>2, <1>10, <1>11
<1>13. TurnsAnchored'
  <2> SUFFICES ASSUME NEW u \in Workers, worker'[u].pc # "idle"
      PROVE  /\ worker'[u].job \in Jobs
             /\ worker'[u].token # 0
             /\ worker'[u].pc \in {"delivering", "recording"} =>
                   job'[worker'[u].job].result = worker'[u].token
             /\ worker'[u].pc \notin {"recording", "finished", "erred"} => worker'[u].tries < MaxHooks
             /\ worker'[u].pc = "recording" => worker'[u].token \in bodies'[worker'[u].job]
    BY DEF TurnsAnchored
  <2>1. CASE u = w
    BY <1>1, <1>4, <1>6, <1>10, <1>12, <2>1
  <2>2. CASE u # w
    <3>1. worker'[u] = worker[u]
      BY <1>12, <2>2
    <3>2. worker[u].pc \in {"delivering", "recording"} => worker[u].job # j
      BY <1>3, <3>1, TurnFacts
    <3> QED
      BY <1>6, <3>1, <3>2, TurnFacts
  <2> QED
    BY <2>1, <2>2
<1> QED
  BY <1>6, <1>7, <1>8, <1>9, <1>12, <1>13, Rest, Assembled

LEMMA CompleteAsyncInferenceJobInv ==
  ASSUME JobIndInv, NEW w \in Workers, CompleteAsyncInferenceJob(w) PROVE JobIndInv'
<1>1. worker[w].pc = "received" /\ UNCHANGED <<claims, latest, executed, bodies, faults>>
  BY DEF CompleteAsyncInferenceJob, At, history
<1>2. CASE Fenced(w) /\ Completed(w) /\ WorkerGoes(w, AfterCompletion(w))
  <2>1. AfterCompletion(w) \in {"finished", "delivering"}
    BY DEF AfterCompletion
  <2> QED
    BY <1>1, <1>2, <2>1, CompletedInv DEF WorkerGoes
<1>3. CASE WorkerGoes(w, "erred") /\ UNCHANGED job
  <2> DEFINE v == [worker[w] EXCEPT !.pc = "erred"]
  <2>1. worker[w] \in Worker /\ worker[w].job \in Jobs /\ worker[w].token # 0
    BY <1>1, TurnFacts
  <2>2. v \in Worker /\ v.job = worker[w].job /\ v.token = worker[w].token /\ v.pc = "erred"
    BY <2>1 DEF Worker
  <2>3. worker' = [worker EXCEPT ![w] = v]
    BY <1>3 DEF WorkerGoes
  <2> HIDE DEF v
  <2>4. worker' \in [Workers -> Worker] /\ TurnsAnchored'
    BY <1>1, <1>3, <2>1, <2>2, <2>3, WorkerStep
  <2> QED
    BY <1>1, <1>3, <2>4, RowsUntouched, Rest, Assembled
<1> QED
  BY <1>2, <1>3 DEF CompleteAsyncInferenceJob

LEMMA CompletionAnswerLostInv ==
  ASSUME JobIndInv, NEW w \in Workers, CompletionAnswerLost(w) PROVE JobIndInv'
  BY CompletedInv DEF CompletionAnswerLost, At, WorkerGoes, history

\* A webhook carries the token of its worker, which is the row's result.
LEMMA SendWebhookInv == ASSUME JobIndInv, NEW w \in Workers, SendWebhook(w) PROVE JobIndInv'
<1> DEFINE j == worker[w].job
<1> DEFINE t == worker[w].token
<1>1. PICK reached \in BOOLEAN :
        worker' = [worker EXCEPT ![w].pc = "recording", ![w].reached = reached, ![w].tries = @ + 1]
  BY DEF SendWebhook
<1>2. /\ worker[w].pc = "delivering"
      /\ bodies' = [bodies EXCEPT ![j] = @ \cup {t}]
      /\ UNCHANGED <<job, claims, latest, executed, faults>>
  BY DEF SendWebhook, At
<1>3. /\ worker[w] \in Worker /\ j \in Jobs /\ t # 0 /\ t \in Tokens
      /\ job[j].result = t /\ worker[w].tries < MaxHooks
  BY <1>2, TurnFacts DEF Worker
<1>4. /\ worker \in [Workers -> Worker] /\ job \in [Jobs -> Row]
      /\ bodies \in [Jobs -> SUBSET Tokens]
  BY DEF JobIndInv, JobTypeOK
<1> DEFINE v == [worker[w] EXCEPT !.pc = "recording", !.reached = reached, !.tries = @ + 1]
<1>5. v \in Worker /\ v.pc = "recording" /\ v.job = j /\ v.token = t
  <2>1. worker[w].tries \in 0 .. MaxHooks
    BY <1>3 DEF Worker
  <2>2. worker[w].tries + 1 \in 0 .. MaxHooks
    BY <1>3, <2>1, AsyncConstants
  <2> QED
    BY <1>3, <2>2 DEF Worker
<1>6. worker' = [worker EXCEPT ![w] = v]
  BY <1>1
<1> HIDE DEF v
<1>7. worker' \in [Workers -> Worker] /\ worker'[w] = v /\ \A u \in Workers \ {w} : worker'[u] = worker[u]
  BY <1>4, <1>5, <1>6
<1>8. /\ bodies' \in [Jobs -> SUBSET Tokens]
      /\ bodies'[j] = bodies[j] \cup {t}
      /\ \A i \in Jobs : bodies[i] \subseteq bodies'[i] /\ (i # j => bodies'[i] = bodies[i])
  BY <1>2, <1>3, <1>4
<1>9. TurnsAnchored'
  BY <1>2, <1>3, <1>5, <1>7, <1>8 DEF JobIndInv, TurnsAnchored
<1>10. WebhookCarriesResult'
  BY <1>2, <1>3, <1>8 DEF JobIndInv, WebhookCarriesResult
<1>11. LeaseOfLastClaim' /\ ResultIsFenced'
  BY <1>2 DEF JobIndInv, LeaseOfLastClaim, ResultIsFenced
<1> QED
  BY <1>2, <1>4, <1>7, <1>8, <1>9, <1>10, <1>11 DEF JobIndInv, JobTypeOK

LEMMA RecordAsyncWebhookAttemptInv ==
  ASSUME JobIndInv, NEW w \in Workers, RecordAsyncWebhookAttempt(w) PROVE JobIndInv'
<1> DEFINE j == worker[w].job
<1> DEFINE row == Recorded(job[j], worker[w].reached)
<1> DEFINE step == IF worker[w].reached \/ worker[w].tries = MaxHooks THEN "finished" ELSE "delivering"
<1> DEFINE v == [worker[w] EXCEPT !.pc = step]
<1>1. /\ worker[w].pc = "recording" /\ job[j].hooks < MaxHooks
      /\ job' = [job EXCEPT ![j] = row]
      /\ worker' = [worker EXCEPT ![w] = v]
      /\ UNCHANGED <<claims, latest, executed, bodies, faults>>
  BY DEF RecordAsyncWebhookAttempt, At, WorkerGoes, history
<1>2. /\ worker[w] \in Worker /\ j \in Jobs /\ worker[w].token # 0
      /\ job[j].result = worker[w].token /\ worker[w].token \in bodies[j]
  BY <1>1, TurnFacts
<1>3. /\ job[j] \in Row /\ (job[j].status = "running" => job[j].token = latest[j] /\ job[j].token # 0)
      /\ (job[j].status # "running" => job[j].token = 0)
  BY <1>2, RowFacts
<1>4. /\ row \in Row /\ row.result = job[j].result /\ row.status = job[j].status
      /\ row.token = job[j].token
  <2>1. job[j].hooks \in 0 .. MaxHooks
    BY <1>3 DEF Row
  <2>2. job[j].hooks + 1 \in 0 .. MaxHooks
    BY <1>1, <2>1, AsyncConstants
  <2> DEFINE hook == IF worker[w].reached THEN "delivered"
                     ELSE IF job[j].hooks + 1 >= MaxHooks THEN "failed" ELSE "pending"
  <2>3. hook \in {"delivered", "failed", "pending"}
    OBVIOUS
  <2>4. row = [job[j] EXCEPT !.hooks = job[j].hooks + 1, !.hook = hook]
    BY <1>3 DEF Recorded, Row
  <2> HIDE DEF hook, row
  <2> QED
    BY <1>3, <2>2, <2>3, <2>4 DEF Row
<1>5. /\ v \in Worker /\ v.job = j /\ v.token = worker[w].token
      /\ v.pc \in {"finished", "delivering"} /\ (v.pc = "delivering" => v.tries < MaxHooks)
  BY <1>2, AsyncConstants DEF Worker
<1> HIDE DEF row, v
<1>6. /\ job' \in [Jobs -> Row] /\ LeaseOfLastClaim' /\ ResultIsFenced' /\ WebhookCarriesResult'
      /\ \A i \in Jobs : job'[i].result = job[i].result
  BY <1>1, <1>2, <1>3, <1>4, RowStep
<1>7. worker' \in [Workers -> Worker] /\ TurnsAnchored'
  BY <1>1, <1>2, <1>5, <1>6, WorkerStep
<1> QED
  BY <1>1, <1>6, <1>7, Rest, Assembled

LEMMA FailAsyncInferenceJobInv ==
  ASSUME JobIndInv, NEW w \in Workers, FailAsyncInferenceJob(w) PROVE JobIndInv'
<1> DEFINE j == worker[w].job
<1>1. /\ worker[w].pc = "erred" /\ worker' = [worker EXCEPT ![w] = Idle]
      /\ UNCHANGED <<claims, latest, executed, bodies, faults>>
  BY DEF FailAsyncInferenceJob, At, history
<1>2. Idle \in Worker /\ Idle.pc = "idle"
  BY AsyncConstants DEF Idle, Worker, Tokens
<1>3. j \in Jobs
  BY <1>1, TurnFacts
<1>4. CASE Fenced(w)
  <2> DEFINE s == IF Retryable(w) THEN "queued" ELSE "failed"
  <2> DEFINE row == [Unleased(job[j]) EXCEPT !.status = s]
  <2>0. s \in {"queued", "failed"}
    OBVIOUS
  <2>1. job' = [job EXCEPT ![j] = row] /\ job[j].status = "running"
    BY <1>4 DEF FailAsyncInferenceJob, Fenced
  <2> HIDE DEF s
  <2>2. job[j] \in Row /\ (job[j].hook \in {"delivered", "failed"} => bodies[j] # {})
    BY <1>3, RowFacts
  <2>3. /\ row \in Row /\ row.result = job[j].result /\ row.hook = job[j].hook
        /\ row.status \in {"queued", "failed"} /\ row.token = 0
    <3>0. s \in {"queued", "failed", "cancelled", "expired", "succeeded"}
      BY <2>0
    <3>1. row \in Row /\ row.status = s /\ row.token = 0 /\ row.result = job[j].result /\ row.hook = job[j].hook
      BY <2>2, <3>0, UnleasedRow, Zenon
    <3> QED
      BY <2>0, <3>1
  <2> HIDE DEF row
  <2>4. /\ job' \in [Jobs -> Row] /\ LeaseOfLastClaim' /\ ResultIsFenced' /\ WebhookCarriesResult'
        /\ \A i \in Jobs : job'[i].result = job[i].result
    BY <1>1, <1>3, <2>1, <2>2, <2>3, RowStep
  <2>5. worker' \in [Workers -> Worker] /\ TurnsAnchored'
    BY <1>1, <1>2, <2>4, WorkerStep
  <2> QED
    BY <1>1, <2>4, <2>5, Rest, Assembled
<1>5. CASE ~ Fenced(w)
  <2>1. UNCHANGED job
    BY <1>5 DEF FailAsyncInferenceJob
  <2>2. worker' \in [Workers -> Worker] /\ TurnsAnchored'
    BY <1>1, <1>2, <2>1, WorkerStep
  <2> QED
    BY <1>1, <2>1, <2>2, RowsUntouched, Rest, Assembled
<1> QED
  BY <1>4, <1>5

\* A claim draws a token nobody has, for a job without a result.
LEMMA ClaimAsyncInferenceJobInv ==
  ASSUME JobIndInv, NEW w \in Workers, NEW j \in Jobs, ClaimAsyncInferenceJob(w, j) PROVE JobIndInv'
<1> DEFINE t == claims + 1
<1> DEFINE row == [job[j] EXCEPT !.status = "running", !.token = t, !.live = TRUE,
                                 !.attempt = NextAttempt(job[j])]
<1> DEFINE v == [Idle EXCEPT !.pc = "claimed", !.job = j, !.token = t]
<1>1. /\ claims < MaxClaims /\ Claimable(job[j]) /\ claims' = t
      /\ job' = [job EXCEPT ![j] = row] /\ latest' = [latest EXCEPT ![j] = t]
      /\ worker' = [worker EXCEPT ![w] = v]
      /\ UNCHANGED <<executed, bodies, faults>>
  BY DEF ClaimAsyncInferenceJob
<1>2. t \in Tokens /\ t # 0
  BY <1>1, AsyncConstants DEF JobIndInv, JobTypeOK, Tokens
<1>3. job[j] \in Row /\ job[j].status \in {"queued", "running"} /\ job[j].attempt < MaxAttempts
  BY <1>1, RowFacts DEF Claimable
<1>4. job[j].result = 0
  BY <1>3, RowFacts
<1> HIDE DEF t
<1>5. /\ row \in Row /\ row.status = "running" /\ row.token = t /\ row.result = 0
      /\ row.hook = job[j].hook
  <2>1. job[j].attempt \in 0 .. MaxAttempts
    BY <1>3 DEF Row
  <2>2. NextAttempt(job[j]) \in 0 .. MaxAttempts
    BY <1>3, <2>1, AsyncConstants DEF NextAttempt
  <2> QED
    BY <1>2, <1>3, <1>4, <2>2 DEF Row
<1>6. v \in Worker /\ v.pc = "claimed" /\ v.job = j /\ v.token = t /\ v.tries = 0
  <2>1. 0 \in 0 .. MaxAttempts /\ 0 \in 0 .. MaxHooks
    BY AsyncConstants
  <2> QED
    BY <1>2, <2>1 DEF Worker, Idle
<1> HIDE DEF row, v
<1>7. job \in [Jobs -> Row] /\ latest \in [Jobs -> Tokens]
  BY DEF JobIndInv, JobTypeOK
<1>8. /\ job' \in [Jobs -> Row] /\ job'[j] = row /\ \A i \in Jobs \ {j} : job'[i] = job[i]
      /\ latest' \in [Jobs -> Tokens] /\ latest'[j] = t /\ \A i \in Jobs \ {j} : latest'[i] = latest[i]
  BY <1>1, <1>2, <1>5, <1>7
<1>9. \A i \in Jobs : job'[i].result = job[i].result
  BY <1>4, <1>5, <1>8
<1>10. LeaseOfLastClaim'
  BY <1>2, <1>5, <1>8 DEF JobIndInv, LeaseOfLastClaim
<1>11. ResultIsFenced'
  BY <1>5, <1>8 DEF JobIndInv, ResultIsFenced
<1>12. WebhookCarriesResult'
  BY <1>1, <1>4, <1>5, <1>8 DEF JobIndInv, WebhookCarriesResult
<1>13. worker' \in [Workers -> Worker] /\ TurnsAnchored'
  <2>1. v.tries < MaxHooks
    BY <1>6, AsyncConstants
  <2> QED
    BY <1>1, <1>2, <1>6, <1>9, <2>1, WorkerStep
<1> QED
  BY <1>1, <1>2, <1>8, <1>10, <1>11, <1>12, <1>13, Assembled DEF JobIndInv, JobTypeOK

(***************************************************************************)
(* The theorems.                                                           *)
(***************************************************************************)
LEMMA NextJobs == JobIndInv /\ [JobNext]_jobVars => JobIndInv'
<1> SUFFICES ASSUME JobIndInv, [JobNext]_jobVars PROVE JobIndInv'
  OBVIOUS
<1>1. CASE UNCHANGED jobVars
  BY <1>1 DEF jobVars, history, JobIndInv, JobTypeOK, LeaseOfLastClaim, TurnsAnchored,
    ResultIsFenced,
     WebhookCarriesResult
<1>2. CASE \E j \in Jobs :
             Submit(j) \/ CancelAsyncInferenceJob(j) \/ LeaseExpires(j) \/ DeadlinePasses(j)
  BY <1>2, SubmitInv, CancelAsyncInferenceJobInv, LeaseExpiresInv, DeadlinePassesInv
<1>3. CASE \E w \in Workers : Turn(w)
  BY <1>3, ExecuteInv, ExecuteFailsInv, GatewayAnswersInv, CompleteAsyncInferenceJobInv,
     SendWebhookInv, RecordAsyncWebhookAttemptInv, DeliveryCancelledInv,
     FailAsyncInferenceJobInv, EndTurnInv DEF Turn
<1>4. CASE \E w \in Workers :
             \/ ExpireAsyncInferenceJobs(w) \/ \E j \in Jobs : ClaimAsyncInferenceJob(w, j)
             \/ HeartbeatRefused(w) \/ HeartbeatFails(w)
             \/ CompletionAnswerLost(w) \/ SecretUnavailable(w) \/ Crash(w)
  BY <1>4, ExpireAsyncInferenceJobsInv, ClaimAsyncInferenceJobInv, HeartbeatRefusedInv,
     HeartbeatFailsInv, CompletionAnswerLostInv, SecretUnavailableInv, CrashInv
<1> QED
  BY <1>1, <1>2, <1>3, <1>4 DEF JobNext

\* JobIndInv holds in every reachable state of the job table and its workers.
THEOREM AsyncInvariance == JobSpec => []JobIndInv
<1>1. JobInit /\ [][JobNext]_jobVars => []JobIndInv
  BY InitJobs, NextJobs, PTL
<1> QED
  BY <1>1, PTL DEF JobSpec

\* Rows, workers and histories keep their types: no attempt is counted past
\* the limit of ClaimAsyncInferenceJob and no webhook past its three tries.
THEOREM AsyncTypes == JobSpec => []JobTypeOK
<1>1. JobIndInv => JobTypeOK
  BY DEF JobIndInv
<1> QED
  BY <1>1, AsyncInvariance, PTL

\* CompleteAsyncInferenceJob is fenced: a stored result is the answer of the
\* job's last claim, however many workers still execute it.
THEOREM FencedResult == JobSpec => []ResultIsFenced
<1>1. JobIndInv => ResultIsFenced
  BY DEF JobIndInv
<1> QED
  BY <1>1, AsyncInvariance, PTL

\* deliverWebhook announces the committed result and nothing else.
THEOREM WebhookOfResult == JobSpec => []WebhookCarriesResult
<1>1. JobIndInv => WebhookCarriesResult
  BY DEF JobIndInv
<1> QED
  BY <1>1, AsyncInvariance, PTL

\* Completion, failure, expiry and cancellation are exclusive: no step changes
\* the status or the result of a job that has ended.
THEOREM EndedOnce == JobSpec => JobsEndOnce
<1>1. JobIndInv /\ [JobNext]_jobVars =>
        [\A j \in Jobs : job[j].status \in Terminal =>
            job'[j].status = job[j].status /\ job'[j].result = job[j].result]_jobVars
  <2> SUFFICES ASSUME JobIndInv, JobNext, NEW i \in Jobs, job[i].status \in Terminal
               PROVE  job'[i].status = job[i].status /\ job'[i].result = job[i].result
    OBVIOUS
  <2>1. job \in [Jobs -> Row]
    BY DEF JobIndInv, JobTypeOK
  <2>2. CASE \E j \in Jobs :
               Submit(j) \/ CancelAsyncInferenceJob(j) \/ LeaseExpires(j) \/ DeadlinePasses(j)
    BY <2>1, <2>2 DEF Submit, CancelAsyncInferenceJob, Cancellable, LeaseExpires, DeadlinePasses,
       Active, Terminal
  <2>3. CASE \E w \in Workers : ExpireAsyncInferenceJobs(w)
    BY <2>3 DEF ExpireAsyncInferenceJobs, Expirable, Active, Terminal
  <2>4. CASE \E w \in Workers : \E j \in Jobs : ClaimAsyncInferenceJob(w, j)
    BY <2>1, <2>4 DEF ClaimAsyncInferenceJob, Claimable, Terminal
  <2>5. CASE \E w \in Workers : RecordAsyncWebhookAttempt(w)
    <3> PICK w \in Workers : RecordAsyncWebhookAttempt(w)
      BY <2>5
    <3> DEFINE row == Recorded(job[worker[w].job], worker[w].reached)
    <3>1. worker[w].job \in Jobs
      BY TurnFacts DEF RecordAsyncWebhookAttempt, At
    <3>2. job' = [job EXCEPT ![worker[w].job] = row]
      BY DEF RecordAsyncWebhookAttempt
    <3>3. row.status = job[worker[w].job].status /\ row.result = job[worker[w].job].result
      BY <2>1, <3>1 DEF Recorded, Row
    <3> HIDE DEF row
    <3> QED
      BY <2>1, <3>1, <3>2, <3>3
  <2>6. CASE \E w \in Workers : CompleteAsyncInferenceJob(w) \/ CompletionAnswerLost(w)
                                \/ FailAsyncInferenceJob(w)
    <3> PICK w \in Workers : CompleteAsyncInferenceJob(w) \/ CompletionAnswerLost(w)
                                \/ FailAsyncInferenceJob(w)
      BY <2>6
    <3>1. \/ UNCHANGED job
          \/ /\ job[worker[w].job].status = "running"
             /\ \E row : job' = [job EXCEPT ![worker[w].job] = row]
      BY DEF CompleteAsyncInferenceJob, CompletionAnswerLost, FailAsyncInferenceJob,
        Completed, Fenced
    <3> QED
      BY <2>1, <3>1 DEF Terminal
  <2>7. CASE \E w \in Workers : UNCHANGED job
    BY <2>7
  <2>8. ASSUME NEW w \in Workers,
               \/ Execute(w) \/ ExecuteFails(w) \/ GatewayAnswers(w) \/ SendWebhook(w)
               \/ DeliveryCancelled(w) \/ EndTurn(w) \/ HeartbeatRefused(w) \/ HeartbeatFails(w)
               \/ SecretUnavailable(w) \/ Crash(w)
        PROVE  UNCHANGED job
    BY <2>8 DEF Execute, ExecuteFails, GatewayAnswers, SendWebhook, DeliveryCancelled, EndTurn,
       HeartbeatRefused, HeartbeatFails, SecretUnavailable, Crash
  <2> QED
    BY <2>2, <2>3, <2>4, <2>5, <2>6, <2>7, <2>8 DEF JobNext, Turn
<1> QED
  BY <1>1, AsyncInvariance, PTL DEF JobSpec, JobsEndOnce
=============================================================================
