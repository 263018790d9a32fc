-------------------------------- MODULE Tally -------------------------------
(***************************************************************************)
(* Sums of natural numbers over finite sets, for amounts and counters that *)
(* have to add up: f[x] pieces for every x in S, counted together.         *)
(***************************************************************************)
EXTENDS Integers, FiniteSets

Pieces(f, S) == UNION {{x} \X (1..f[x]) : x \in S}

Total(f, S) == Cardinality(Pieces(f, S))
=============================================================================
