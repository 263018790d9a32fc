-------------------------- MODULE WalletArithmetic --------------------------
(***************************************************************************)
(* What the transactions on managed_wallets have in common: a prepaid      *)
(* balance, the part of it that open holds reserve, and the debt a refund  *)
(* of money already spent leaves behind.                                   *)
(***************************************************************************)
EXTENDS Integers

Wallet == [balance: Int, reserved: Int, debt: Int]

Greatest(a, b) == IF a >= b THEN a ELSE b
Least(a, b) == IF a <= b THEN a ELSE b

\* The CHECK constraints of managed_wallets.
WalletCheck(w) == w.reserved >= 0 /\ w.balance - w.reserved >= 0 /\ w.debt >= 0

\* A credit pays the debt first.
ApplyManagedCredit(w, a) ==
  [w EXCEPT !.balance = @ + Greatest(a - w.debt, 0), !.debt = Greatest(@ - a, 0)]

\* Money a closed hold gives back pays the debt first.
ReconcileManagedDebt(w) ==
  LET available == w.balance - w.reserved
      reconciled == Least(w.debt, available)
  IN  IF available <= 0 \/ w.debt = 0
      THEN w
      ELSE [w EXCEPT !.balance = @ - reconciled, !.debt = @ - reconciled]

\* A refund takes what is free and turns the rest into debt.
RefundedWallet(w, delta) ==
  LET appliedToBalance == Least(delta, w.balance - w.reserved)
  IN  [w EXCEPT !.balance = @ - appliedToBalance, !.debt = @ + (delta - appliedToBalance)]

\* What a new hold may use.
Spendable(w) == w.balance - w.reserved - w.debt
=============================================================================
