-------------------------- MODULE AccountingProofs --------------------------
(***************************************************************************)
(* Lemmas that the proofs about accounts share.  The laws of Total: it is  *)
(* nothing for nothing, grows by f[x] with every x, and depends on nothing *)
(* but the values of f on the set.  The laws of a wallet: what credits,    *)
(* refunds and closed holds do to its net value and to its debt.           *)
(***************************************************************************)
EXTENDS Tally, WalletArithmetic, FiniteSetTheorems, TLAPS

\* There are f[x] pieces of one element.
LEMMA OwnPieces ==
  ASSUME NEW x, NEW n \in Nat
  PROVE  IsFiniteSet({x} \X (1..n)) /\ Cardinality({x} \X (1..n)) = n
<1> DEFINE A == {x}
           B == 1..n
<1>1. IsFiniteSet(A) /\ Cardinality(A) = 1
  BY FS_Singleton
<1>2. IsFiniteSet(B) /\ Cardinality(B) = n
  BY FS_Interval
<1> HIDE DEF A, B
<1>3. IsFiniteSet(A \X B) /\ Cardinality(A \X B) = Cardinality(A) * Cardinality(B)
  BY <1>1, <1>2, FS_Product, Zenon
<1>4. 1 * n = n
  OBVIOUS
<1> QED
  BY <1>1, <1>2, <1>3, <1>4, Zenon DEF A, B

\* A finite sum is a number.
LEMMA TotalType ==
  ASSUME NEW f, NEW S, IsFiniteSet(S), \A x \in S : f[x] \in Nat
  PROVE  IsFiniteSet(Pieces(f, S)) /\ Total(f, S) \in Nat
<1> DEFINE F == [x \in S |-> {x} \X (1..f[x])]
<1> DEFINE T == {{x} \X (1..f[x]) : x \in S}
<1>1. F \in Surjection(S, T)
  BY DEF Surjection
<1>2. IsFiniteSet(T)
  <2> HIDE DEF F, T
  <2> QED
    BY <1>1, FS_Surjection
<1>3. ASSUME NEW P \in T PROVE IsFiniteSet(P)
  <2>1. PICK x \in S : P = {x} \X (1..f[x])
    OBVIOUS
  <2>2. f[x] \in Nat
    OBVIOUS
  <2> QED
    BY <2>1, <2>2, OwnPieces
<1>4. IsFiniteSet(UNION T)
  <2> HIDE DEF T
  <2> QED
    BY <1>2, <1>3, FS_UNION
<1>5. IsFiniteSet(Pieces(f, S))
  BY <1>4 DEF Pieces
<1> QED
  BY <1>5, FS_CardinalityType DEF Total

\* Nothing adds up to nothing.
LEMMA TotalZero ==
  ASSUME NEW f, NEW S, \A x \in S : f[x] = 0
  PROVE  Total(f, S) = 0
<1>1. \A x \in S : {x} \X (1..f[x]) = {}
  OBVIOUS
<1>2. Pieces(f, S) = {}
  BY <1>1, Zenon DEF Pieces
<1> QED
  BY <1>2, FS_EmptySet DEF Total

\* Only the values on the set count.
LEMMA TotalSame ==
  ASSUME NEW f, NEW g, NEW S, \A x \in S : f[x] = g[x]
  PROVE  Total(f, S) = Total(g, S)
<1>1. Pieces(f, S) = Pieces(g, S)
  BY DEF Pieces
<1> QED
  BY <1>1 DEF Total

\* One more element adds its value.
LEMMA TotalAdd ==
  ASSUME NEW f, NEW S, IsFiniteSet(S), \A y \in S : f[y] \in Nat,
         NEW x, x \notin S, f[x] \in Nat
  PROVE  Total(f, S \cup {x}) = Total(f, S) + f[x]
<1> DEFINE own == {x} \X (1..f[x])
<1>1. Pieces(f, S \cup {x}) = Pieces(f, S) \cup own
  BY DEF Pieces
<1>2. Pieces(f, S) \cap own = {}
  BY DEF Pieces
<1>3. IsFiniteSet(own) /\ Cardinality(own) = f[x]
  BY OwnPieces
<1>4. IsFiniteSet(Pieces(f, S)) /\ Total(f, S) \in Nat
  BY TotalType
<1> HIDE DEF own
<1>5. Cardinality(Pieces(f, S) \cup own)
        = Cardinality(Pieces(f, S)) + Cardinality(own) - Cardinality(Pieces(f, S) \cap own)
  BY <1>3, <1>4, FS_Union
<1>6. Cardinality(Pieces(f, S) \cap own) = 0
  BY <1>2, FS_EmptySet
<1> DEFINE a == Cardinality(Pieces(f, S))
           b == Cardinality(own)
           c == Cardinality(Pieces(f, S) \cap own)
           d == Cardinality(Pieces(f, S) \cup own)
<1>7. a \in Nat /\ b = f[x] /\ c = 0 /\ d = a + b - c
  BY <1>3, <1>4, <1>5, <1>6, Zenon DEF Total
<1>8. Total(f, S) = a /\ Total(f, S \cup {x}) = d
  BY <1>1, Zenon DEF Total
<1> HIDE DEF a, b, c, d
<1>9. d = a + f[x]
  BY <1>7
<1> QED
  BY <1>8, <1>9, Zenon

\* An element contributes its value.
LEMMA TotalSplit ==
  ASSUME NEW f, NEW S, IsFiniteSet(S), \A y \in S : f[y] \in Nat, NEW x \in S
  PROVE  Total(f, S) = Total(f, S \ {x}) + f[x] /\ Total(f, S \ {x}) \in Nat
<1>1. IsFiniteSet(S \ {x}) /\ (S \ {x}) \cup {x} = S /\ x \notin S \ {x}
  BY FS_RemoveElement
<1>2. \A y \in S \ {x} : f[y] \in Nat
  OBVIOUS
<1>3. Total(f, (S \ {x}) \cup {x}) = Total(f, S \ {x}) + f[x]
  BY <1>1, <1>2, TotalAdd
<1> QED
  BY <1>1, <1>2, <1>3, TotalType

\* Changing one value changes the sum by as much.
LEMMA TotalChange ==
  ASSUME NEW f, NEW g, NEW S, IsFiniteSet(S), \A y \in S : f[y] \in Nat /\ g[y] \in Nat,
         NEW x \in S, \A y \in S \ {x} : f[y] = g[y]
  PROVE  /\ Total(g, S) = Total(f, S) - f[x] + g[x]
         /\ Total(f, S) \in Nat /\ Total(g, S) \in Nat
<1>1. Total(f, S) = Total(f, S \ {x}) + f[x] /\ Total(f, S \ {x}) \in Nat
  BY TotalSplit
<1>2. Total(g, S) = Total(g, S \ {x}) + g[x] /\ Total(g, S \ {x}) \in Nat
  BY TotalSplit
<1>3. Total(f, S \ {x}) = Total(g, S \ {x})
  BY TotalSame
<1> QED
  BY <1>1, <1>2, <1>3

-----------------------------------------------------------------------------
(* Wallets.                                                                *)

\* A wallet that meets its constraints and owes nothing while it has money.
SpentOut(w) == w.debt > 0 => w.balance = w.reserved
Net(w) == w.balance - w.debt
Sound(w) == w \in Wallet /\ WalletCheck(w) /\ SpentOut(w)

\* A credit raises the net value by its amount and leaves a drained wallet
\* drained: debt that remains means nothing was added to the balance.
LEMMA CreditSound ==
  ASSUME NEW w, Sound(w), NEW a \in Nat
  PROVE  /\ Sound(ApplyManagedCredit(w, a))
         /\ Net(ApplyManagedCredit(w, a)) = Net(w) + a
         /\ ApplyManagedCredit(w, a).reserved = w.reserved
<1> DEFINE n == ApplyManagedCredit(w, a)
<1>1. w \in Wallet /\ w.balance \in Int /\ w.reserved \in Int /\ w.debt \in Int
  BY DEF Sound, Wallet
<1> DEFINE b == w.balance + Greatest(a - w.debt, 0)
<1> DEFINE d == Greatest(w.debt - a, 0)
<1>2. b \in Int /\ d \in Int
  BY <1>1 DEF Greatest
<1>3. n = [w EXCEPT !.balance = b, !.debt = d]
  BY <1>1 DEF ApplyManagedCredit
<1>4. \/ a >= w.debt /\ b = w.balance + (a - w.debt) /\ d = 0
      \/ a < w.debt /\ b = w.balance /\ d = w.debt - a
  BY <1>1 DEF Greatest
<1> HIDE DEF b, d, n
<1>5. n \in Wallet /\ n.balance = b /\ n.reserved = w.reserved /\ n.debt = d
  BY <1>1, <1>2, <1>3 DEF Wallet
<1>6. Sound(n) /\ Net(n) = Net(w) + a
  BY <1>1, <1>4, <1>5 DEF Sound, WalletCheck, SpentOut, Net
<1> QED
  BY <1>5, <1>6 DEF n

\* Paying debt from free money keeps the net value and drains the wallet.
LEMMA ReconcileSound ==
  ASSUME NEW w \in Wallet, WalletCheck(w)
  PROVE  /\ Sound(ReconcileManagedDebt(w))
         /\ Net(ReconcileManagedDebt(w)) = Net(w)
         /\ ReconcileManagedDebt(w).reserved = w.reserved
<1> DEFINE n == ReconcileManagedDebt(w)
<1>1. w.balance \in Int /\ w.reserved \in Int /\ w.debt \in Int
  BY DEF Wallet
<1>2. CASE w.balance - w.reserved <= 0 \/ w.debt = 0
  BY <1>1, <1>2 DEF ReconcileManagedDebt, Sound, WalletCheck, SpentOut, Net
<1>3. CASE ~(w.balance - w.reserved <= 0 \/ w.debt = 0)
  <2> DEFINE r == Least(w.debt, w.balance - w.reserved)
  <2>1. r \in Int /\ r <= w.debt /\ r <= w.balance - w.reserved
        /\ (r = w.debt \/ r = w.balance - w.reserved)
    BY <1>1 DEF Least
  <2>2. n = [w EXCEPT !.balance = @ - r, !.debt = @ - r]
    BY <1>3 DEF ReconcileManagedDebt
  <2> HIDE DEF r
  <2> DEFINE b == w.balance - r
  <2> DEFINE d == w.debt - r
  <2>5. b \in Int /\ d \in Int /\ n = [w EXCEPT !.balance = b, !.debt = d]
    BY <1>1, <2>1, <2>2
  <2> HIDE DEF n, b, d
  <2>6. n \in Wallet /\ n.balance = b /\ n.reserved = w.reserved /\ n.debt = d
    BY <2>5 DEF Wallet
  <2>3. /\ n \in Wallet /\ n.balance = w.balance - r /\ n.reserved = w.reserved /\ n.debt = w.debt - r
    BY <2>6 DEF b, d
  <2>4. Sound(n) /\ Net(n) = Net(w)
    BY <1>1, <2>1, <2>3 DEF Sound, WalletCheck, SpentOut, Net
  <2> QED
    BY <2>3, <2>4 DEF n
<1> QED
  BY <1>2, <1>3

\* A refund lowers the net value by its amount; what it turns into debt was not
\* free, so the wallet it leaves in debt is drained.
LEMMA RefundSound ==
  ASSUME NEW w, Sound(w), NEW delta \in Nat
  PROVE  /\ Sound(RefundedWallet(w, delta))
         /\ Net(RefundedWallet(w, delta)) = Net(w) - delta
         /\ RefundedWallet(w, delta).reserved = w.reserved
<1> DEFINE n == RefundedWallet(w, delta)
<1> DEFINE x == Least(delta, w.balance - w.reserved)
<1>1. w \in Wallet /\ w.balance \in Int /\ w.reserved \in Int /\ w.debt \in Int
  BY DEF Sound, Wallet
<1>2. x \in Int /\ x <= delta /\ x <= w.balance - w.reserved
      /\ (x = delta \/ x = w.balance - w.reserved) /\ x >= 0
  BY <1>1 DEF Least, Sound, WalletCheck
<1>3. n = [w EXCEPT !.balance = @ - x, !.debt = @ + (delta - x)]
  BY DEF RefundedWallet
<1> HIDE DEF x
<1> DEFINE b == w.balance - x
<1> DEFINE d == w.debt + (delta - x)
<1>6. b \in Int /\ d \in Int /\ n = [w EXCEPT !.balance = b, !.debt = d]
  BY <1>1, <1>2, <1>3
<1> HIDE DEF n, b, d
<1>7. n \in Wallet /\ n.balance = b /\ n.reserved = w.reserved /\ n.debt = d
  BY <1>1, <1>6 DEF Wallet
<1>4. /\ n \in Wallet /\ n.balance = w.balance - x /\ n.reserved = w.reserved
      /\ n.debt = w.debt + (delta - x)
  BY <1>7 DEF b, d
<1>8. w.debt >= 0 /\ w.reserved >= 0 /\ (w.debt > 0 => w.balance = w.reserved)
  BY DEF Sound, WalletCheck, SpentOut
<1>9. WalletCheck(n) /\ Net(n) = Net(w) - delta
  BY <1>1, <1>2, <1>4, <1>8 DEF WalletCheck, Net
<1>10. SpentOut(n)
  <2>1. CASE x = delta
    BY <1>1, <1>2, <1>4, <1>8, <2>1 DEF SpentOut
  <2>2. CASE x = w.balance - w.reserved
    BY <1>1, <1>2, <1>4, <1>8, <2>2 DEF SpentOut
  <2> QED
    BY <1>2, <2>1, <2>2
<1>5. Sound(n) /\ Net(n) = Net(w) - delta
  BY <1>4, <1>9, <1>10 DEF Sound
<1> QED
  BY <1>4, <1>5 DEF n

\* A wallet with other amounts is a wallet.
LEMMA AmountsKept ==
  ASSUME NEW w \in Wallet, NEW a \in Int, NEW b \in Int
  PROVE  /\ [w EXCEPT !.balance = a, !.debt = b] \in Wallet
         /\ [w EXCEPT !.balance = a, !.reserved = b] \in Wallet
         /\ [w EXCEPT !.reserved = a] \in Wallet
BY DEF Wallet

\* Every operation on a wallet gives a wallet.
LEMMA WalletKept ==
  ASSUME NEW w \in Wallet, NEW a \in Int, NEW b \in Int
  PROVE  /\ ReconcileManagedDebt(w) \in Wallet
         /\ ApplyManagedCredit(w, a) \in Wallet
         /\ RefundedWallet(w, a) \in Wallet
         /\ [w EXCEPT !.reserved = @ + a] \in Wallet
         /\ [w EXCEPT !.balance = @ - b, !.reserved = @ - a] \in Wallet
<1>0. w.balance \in Int /\ w.reserved \in Int /\ w.debt \in Int
  BY DEF Wallet
<1>1. ReconcileManagedDebt(w) \in Wallet
  <2> DEFINE r == Least(w.debt, w.balance - w.reserved)
  <2>1. r \in Int /\ w.balance - r \in Int /\ w.debt - r \in Int
    BY <1>0 DEF Least
  <2>2. [w EXCEPT !.balance = w.balance - r, !.debt = w.debt - r] \in Wallet
    BY <2>1, AmountsKept
  <2>3. ReconcileManagedDebt(w) \in {w, [w EXCEPT !.balance = w.balance - r, !.debt = w.debt - r]}
    BY DEF ReconcileManagedDebt
  <2> QED BY <2>2, <2>3
<1>2. ApplyManagedCredit(w, a) \in Wallet
  <2> DEFINE x == w.balance + Greatest(a - w.debt, 0)
             y == Greatest(w.debt - a, 0)
  <2>1. x \in Int /\ y \in Int
    BY <1>0 DEF Greatest
  <2>2. ApplyManagedCredit(w, a) = [w EXCEPT !.balance = x, !.debt = y]
    BY DEF ApplyManagedCredit
  <2>3. [w EXCEPT !.balance = x, !.debt = y] \in Wallet
    BY <2>1, AmountsKept
  <2> QED BY <2>2, <2>3
<1>3. RefundedWallet(w, a) \in Wallet
  <2> DEFINE r == Least(a, w.balance - w.reserved)
             x == w.balance - r
             y == w.debt + (a - r)
  <2>1. x \in Int /\ y \in Int
    BY <1>0 DEF Least
  <2>2. RefundedWallet(w, a) = [w EXCEPT !.balance = x, !.debt = y]
    BY DEF RefundedWallet
  <2>3. [w EXCEPT !.balance = x, !.debt = y] \in Wallet
    BY <2>1, AmountsKept
  <2> QED BY <2>2, <2>3
<1>4. [w EXCEPT !.reserved = @ + a] \in Wallet
  <2>1. w.reserved + a \in Int
    BY <1>0
  <2>2. [w EXCEPT !.reserved = w.reserved + a] \in Wallet
    BY <2>1, AmountsKept
  <2> QED BY <2>2
<1>5. [w EXCEPT !.balance = @ - b, !.reserved = @ - a] \in Wallet
  <2>1. w.balance - b \in Int /\ w.reserved - a \in Int
    BY <1>0
  <2>2. [w EXCEPT !.balance = w.balance - b, !.reserved = w.reserved - a] \in Wallet
    BY <2>1, AmountsKept
  <2> QED BY <2>2
<1> QED BY <1>1, <1>2, <1>3, <1>4, <1>5
=============================================================================
