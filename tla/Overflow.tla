------------------------------ MODULE Overflow ------------------------------
(***************************************************************************)
(* The overflow engine (overflow/overflow.go): one evaluation of a policy  *)
(* against the remembered state and the current signal.  The same engine   *)
(* drives external overflow of a deployment (store/external_policies.go)   *)
(* and the health decay of weighted endpoints (routes/routes.go).          *)
(*                                                                         *)
(* A queue signal is "missing" when there is no sample or the sample is    *)
(* stale; "cooling" says that the last change is younger than the cooldown.*)
(***************************************************************************)
EXTENDS Integers

OverflowPolicy == [mode: {"health", "health_and_queue"}, breach: Nat \ {0},
                   recovery: Nat \ {0}, budget: BOOLEAN]
OverflowState == [external: BOOLEAN, high: Nat, low: Nat, cooling: BOOLEAN]
OverflowSignal == [healthy: BOOLEAN, queue: {"missing", "low", "high"}]

NoOverflow == [external |-> FALSE, high |-> 0, low |-> 0, cooling |-> FALSE]

Decision(route, action, high, low) ==
  [route |-> route, action |-> action, high |-> high, low |-> low]

\* One more observation, counted up to the required number.
Counted(n, required) == IF n < required THEN n + 1 ELSE n

\* No budget: nothing may go out; the counters are kept as they are.
Denied(s, sig) ==
  CASE ~sig.healthy -> Decision("unavailable", "deny", s.high, s.low)
    [] sig.healthy /\ s.external -> Decision("primary", "recover", s.high, s.low)
    [] OTHER -> Decision("primary", "hold", s.high, s.low)

\* Mutant: trouble does not clear the count of quiet observations.
MutObservedKeepsLow(p, s, trouble) ==
  LET low == IF trouble THEN s.low ELSE Counted(s.low, p.recovery)
      high == IF trouble THEN Counted(s.high, p.breach) ELSE 0
      leave == s.external /\ ~trouble /\ low >= p.recovery /\ ~s.cooling
      enter == ~s.external /\ trouble /\ high >= p.breach /\ ~s.cooling
  IN Decision(IF (s.external \/ enter) /\ ~leave THEN "external" ELSE "primary", "hold", high, low)

\* An observation of trouble, or of its absence, moves one counter and clears
\* the other; the route changes when enough of them follow each other and the
\* last change is old enough.
Observed(p, s, trouble) ==
  LET high == IF trouble THEN Counted(s.high, p.breach) ELSE 0
      low == IF trouble THEN 0 ELSE Counted(s.low, p.recovery)
      leave == ~trouble /\ low >= p.recovery /\ ~s.cooling
      enter == trouble /\ high >= p.breach /\ ~s.cooling
  IN IF s.external
     THEN IF leave THEN Decision("primary", "recover", high, low)
                   ELSE Decision("external", "hold", high, low)
     ELSE IF enter THEN Decision("external", "overflow", high, low)
                   ELSE Decision("primary", "hold", high, low)

Evaluate(p, s, sig) ==
  CASE ~p.budget -> Denied(s, sig)
    [] p.budget /\ p.mode = "health" -> Observed(p, s, ~sig.healthy)
    [] p.budget /\ p.mode = "health_and_queue" /\ ~sig.healthy ->
         Decision("external", "overflow", 0, 0)
    [] p.budget /\ p.mode = "health_and_queue" /\ sig.healthy /\ sig.queue = "missing" ->
         Decision(IF s.external THEN "external" ELSE "primary", "hold", s.high, s.low)
    [] OTHER -> Observed(p, s, sig.queue = "high")

\* What the callers remember of a decision.
Remembered(s, d) ==
  [external |-> d.route = "external", high |-> d.high, low |-> d.low,
   cooling |-> s.cooling \/ (d.route = "external") # s.external]
=============================================================================
