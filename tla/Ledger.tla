------------------------------- MODULE Ledger -------------------------------
(***************************************************************************)
(* The balance table of the node, class Ledger of src/src/server.  It is a *)
(* key-value store from wallets to amounts; a wallet may have no record.   *)
(* Amounts are unsigned 64-bit integers in the code: AmountLimit stands    *)
(* for 2^64 and additions and subtractions wrap around it.                 *)
(*                                                                         *)
(* A call of the class that throws in the code is described by a           *)
(* predicate that says when it does not: a caller applies the operation    *)
(* only where its predicate holds.                                         *)
(***************************************************************************)
EXTENDS Integers

CONSTANTS
  Wallet,        \* the wallet addresses
  AmountLimit,   \* the first amount that does not fit a TransactionAmount
  Absent         \* what a wallet without a record is mapped to

ASSUME AmountAssumption ==
  /\ AmountLimit \in Nat \ {0}
  /\ Absent \notin Int

Amount == 0 .. (AmountLimit - 1)

Ledgers == [Wallet -> Amount \cup {Absent}]

EmptyLedger == [w \in Wallet |-> Absent]

\* Unsigned arithmetic on amounts.
Plus(a, b)  == IF a + b < AmountLimit THEN a + b ELSE a + b - AmountLimit
\* (Mutant: amounts that are signed.)
MinusSigned(a, b) == a - b
Minus(a, b) == IF a >= b THEN a - b ELSE a - b + AmountLimit

HasWallet(L, w) == L[w] # Absent

\* What a reader takes the balance of w to be.
Balance(L, w) == IF HasWallet(L, w) THEN L[w] ELSE 0

\* deposit() of the executor creates a missing record before it adds to it.
WithRecord(L, w) == IF HasWallet(L, w) THEN L ELSE [L EXCEPT ![w] = 0]

\* Ledger::withdraw checks the balance, Ledger::deposit checks for overflow.
CanWithdraw(L, w, amt) == HasWallet(L, w) /\ amt <= L[w]
CanDeposit(L, w, amt)  == HasWallet(L, w) /\ Plus(L[w], amt) >= L[w]

Debited(L, w, amt)  == [L EXCEPT ![w] = Minus(@, amt)]
Credited(L, w, amt) == [L EXCEPT ![w] = Plus(@, amt)]

\* revertSend and revertDeposit need the record and check nothing else.
RevertSend(L, w, amt)    == Credited(L, w, amt)
RevertDeposit(L, w, amt) == Debited(L, w, amt)
=============================================================================
