--------------------------- MODULE ExecutorLemmas ---------------------------
(***************************************************************************)
(* What the executor's operators return and preserve, for every ledger and *)
(* transaction.                                                            *)
(***************************************************************************)
EXTENDS Executor, TLAPS

\* The shape of a run, and of a run that has not removed a record of L.
IsRun(x) ==
  /\ x = [ledger |-> x.ledger, deltas |-> x.deltas, invalid |-> x.invalid,
          status |-> x.status]
  /\ x.ledger \in Ledgers /\ x.deltas \in Ledgers
  /\ x.invalid \subseteq Nat \X Wallet

Grows(L, M) == \A w \in Wallet : HasWallet(L, w) => HasWallet(M, w)

\* Unsigned addition and subtraction stay within the width of an amount.
LEMMA WrapType ==
  ASSUME NEW a \in Amount, NEW b \in Amount
  PROVE  Plus(a, b) \in Amount /\ Minus(a, b) \in Amount
BY AmountAssumption DEF Amount, Plus, Minus

\* No amount is the marker of a missing record.
LEMMA AmountIsRecord == \A a \in Amount : a # Absent
BY AmountAssumption DEF Amount

\* createWallet gives a record to the wallet and takes none away.
LEMMA WithRecordFacts ==
  ASSUME NEW L \in Ledgers, NEW w \in Wallet
  PROVE  /\ WithRecord(L, w) \in Ledgers
         /\ HasWallet(WithRecord(L, w), w)
         /\ Grows(L, WithRecord(L, w))
<1>1. 0 \in Amount /\ 0 # Absent
  BY AmountAssumption DEF Amount
<1>2. CASE HasWallet(L, w)
  BY <1>2 DEF WithRecord, Grows
<1>3. CASE ~HasWallet(L, w)
  <2>1. WithRecord(L, w) = [L EXCEPT ![w] = 0]
    BY <1>3 DEF WithRecord
  <2>2. [L EXCEPT ![w] = 0] \in Ledgers
    BY <1>1 DEF Ledgers
  <2>3. [L EXCEPT ![w] = 0][w] = 0
    BY DEF Ledgers
  <2>4. \A v \in Wallet : v # w => [L EXCEPT ![w] = 0][v] = L[v]
    BY DEF Ledgers
  <2>. QED  BY <2>1, <2>2, <2>3, <2>4, <1>1 DEF HasWallet, Grows
<1>. QED  BY <1>2, <1>3

\* Adding to or taking from a record keeps every record.
LEMMA EntryFacts ==
  ASSUME NEW L \in Ledgers, NEW w \in Wallet, NEW amt \in Amount, HasWallet(L, w)
  PROVE  /\ Credited(L, w, amt) \in Ledgers /\ Grows(L, Credited(L, w, amt))
         /\ Debited(L, w, amt) \in Ledgers /\ Grows(L, Debited(L, w, amt))
<1>1. L[w] \in Amount
  BY DEF Ledgers, HasWallet
<1>2. Plus(L[w], amt) \in Amount /\ Minus(L[w], amt) \in Amount
  BY <1>1, WrapType
<1>3. \A a \in Amount : [L EXCEPT ![w] = a] \in Ledgers /\ Grows(L, [L EXCEPT ![w] = a])
  <2>. SUFFICES ASSUME NEW a \in Amount
                PROVE  [L EXCEPT ![w] = a] \in Ledgers /\ Grows(L, [L EXCEPT ![w] = a])
    OBVIOUS
  <2>1. [L EXCEPT ![w] = a] \in Ledgers
    BY DEF Ledgers
  <2>2. \A v \in Wallet : [L EXCEPT ![w] = a][v] = IF v = w THEN a ELSE L[v]
    BY DEF Ledgers
  <2>. QED  BY <2>1, <2>2, AmountIsRecord DEF Grows, HasWallet
<1>4. /\ Credited(L, w, amt) = [L EXCEPT ![w] = Plus(L[w], amt)]
      /\ Debited(L, w, amt) = [L EXCEPT ![w] = Minus(L[w], amt)]
  BY DEF Credited, Debited
<1>. QED  BY <1>2, <1>3, <1>4

\* Records that grow twice grow.
LEMMA GrowsTransitive ==
  ASSUME NEW L, NEW M, NEW N, Grows(L, M), Grows(M, N)
  PROVE  Grows(L, N)
BY DEF Grows

\* deposit() keeps a run a run, and when it does not throw the recipient has a
\* record.
LEMMA DepositFacts ==
  ASSUME NEW x, IsRun(x), NEW to \in Wallet, NEW amt \in Amount
  PROVE  /\ IsRun(Deposit(x, to, amt))
         /\ Grows(x.ledger, Deposit(x, to, amt).ledger)
         /\ Deposit(x, to, amt).status = "SUCCESS" =>
              x.status = "SUCCESS" /\ HasWallet(Deposit(x, to, amt).ledger, to)
<1>. DEFINE L == WithRecord(x.ledger, to)
            D == WithRecord(x.deltas, to)
<1>1. L \in Ledgers /\ HasWallet(L, to) /\ Grows(x.ledger, L)
  BY WithRecordFacts DEF IsRun
<1>2. D \in Ledgers /\ HasWallet(D, to)
  BY WithRecordFacts DEF IsRun
<1>3. Credited(L, to, amt) \in Ledgers /\ Grows(L, Credited(L, to, amt))
  BY <1>1, EntryFacts
<1>4. Credited(D, to, amt) \in Ledgers
  BY <1>2, EntryFacts
<1>. HIDE DEF L, D
<1>5. CASE x.status # "SUCCESS"
  BY <1>5 DEF Deposit, Grows
<1>6. CASE x.status = "SUCCESS" /\ ~CanDeposit(L, to, amt)
  <2>1. Deposit(x, to, amt) = [x EXCEPT !.ledger = L, !.status = "THROWN"]
    BY <1>6 DEF Deposit, L
  <2>. QED  BY <2>1, <1>1 DEF IsRun
<1>7. CASE x.status = "SUCCESS" /\ CanDeposit(L, to, amt)
  <2>1. Deposit(x, to, amt) = [x EXCEPT !.ledger = Credited(L, to, amt),
                                        !.deltas = Credited(D, to, amt)]
    BY <1>7 DEF Deposit, L, D
  <2>2. /\ Deposit(x, to, amt).ledger = Credited(L, to, amt)
        /\ Deposit(x, to, amt).deltas = Credited(D, to, amt)
        /\ IsRun(Deposit(x, to, amt))
    BY <2>1, <1>3, <1>4 DEF IsRun
  <2>3. Grows(x.ledger, Credited(L, to, amt)) /\ HasWallet(Credited(L, to, amt), to)
    BY <1>1, <1>3, GrowsTransitive DEF Grows
  <2>. QED  BY <2>2, <2>3, <1>7
<1>. QED  BY <1>5, <1>6, <1>7

\* withdraw() keeps a run a run, and when it does not throw the sender had a
\* record.
LEMMA WithdrawFacts ==
  ASSUME NEW x, IsRun(x), NEW from \in Wallet, NEW amt \in Amount
  PROVE  /\ IsRun(Withdraw(x, from, amt))
         /\ Grows(x.ledger, Withdraw(x, from, amt).ledger)
         /\ Withdraw(x, from, amt).status = "SUCCESS" =>
              x.status = "SUCCESS" /\ HasWallet(Withdraw(x, from, amt).ledger, from)
<1>. DEFINE D == WithRecord(x.deltas, from)
<1>1. Debited(D, from, amt) \in Ledgers
  BY WithRecordFacts, EntryFacts DEF IsRun
<1>. HIDE DEF D
<1>2. CASE x.status # "SUCCESS"
  BY <1>2 DEF Withdraw, Grows
<1>3. CASE x.status = "SUCCESS" /\ ~CanWithdraw(x.ledger, from, amt)
  <2>1. Withdraw(x, from, amt) = [x EXCEPT !.status = "THROWN"]
    BY <1>3 DEF Withdraw, Ended
  <2>. QED  BY <2>1 DEF IsRun, Grows
<1>4. CASE x.status = "SUCCESS" /\ CanWithdraw(x.ledger, from, amt)
  <2>1. HasWallet(x.ledger, from)
    BY <1>4 DEF CanWithdraw
  <2>2. /\ Debited(x.ledger, from, amt) \in Ledgers
        /\ Grows(x.ledger, Debited(x.ledger, from, amt))
    BY <2>1, EntryFacts DEF IsRun
  <2>3. Withdraw(x, from, amt) = [x EXCEPT !.ledger = Debited(x.ledger, from, amt),
                                           !.deltas = Debited(D, from, amt)]
    BY <1>4 DEF Withdraw, D
  <2>4. /\ Withdraw(x, from, amt).ledger = Debited(x.ledger, from, amt)
        /\ IsRun(Withdraw(x, from, amt))
    BY <2>3, <2>2, <1>1 DEF IsRun
  <2>. QED  BY <2>1, <2>2, <2>4, <1>4 DEF Grows
<1>. QED  BY <1>2, <1>3, <1>4

\* Ending a run changes nothing else.
LEMMA EndedFacts ==
  ASSUME NEW x, IsRun(x), NEW status
  PROVE  /\ IsRun(Ended(x, status))
         /\ Ended(x, status).ledger = x.ledger
         /\ Ended(x, status).status = status
BY DEF Ended, IsRun

\* Once it has succeeded, a transfer has left a record for everyone it paid or
\* charged.
LEMMA TransferFacts ==
  ASSUME NEW x, IsRun(x), NEW t \in Tx, ~t.isFee, NEW miner \in Wallet
  PROVE  /\ IsRun(Transfer(x, t, miner))
         /\ Grows(x.ledger, Transfer(x, t, miner).ledger)
         /\ Transfer(x, t, miner).status = "SUCCESS" =>
              \A w \in RollbackWallets(t, miner) : HasWallet(Transfer(x, t, miner).ledger, w)
<1>. DEFINE a == Withdraw(x, t.from, t.amount)
            b == Deposit(a, t.to, t.amount)
            c == Withdraw(b, t.from, t.fee)
            d == Deposit(c, miner, t.fee)
<1>t. t.from \in Wallet /\ t.to \in Wallet /\ t.amount \in Amount /\ t.fee \in Amount
  BY TxAssumption
<1>a. /\ IsRun(a) /\ Grows(x.ledger, a.ledger)
      /\ a.status = "SUCCESS" => HasWallet(a.ledger, t.from)
  BY <1>t, WithdrawFacts
<1>. HIDE DEF a
<1>b. /\ IsRun(b) /\ Grows(a.ledger, b.ledger)
      /\ b.status = "SUCCESS" => a.status = "SUCCESS" /\ HasWallet(b.ledger, t.to)
  BY <1>t, <1>a, DepositFacts
<1>. HIDE DEF b
<1>c. IsRun(c) /\ Grows(b.ledger, c.ledger) /\ (c.status = "SUCCESS" => b.status = "SUCCESS")
  BY <1>t, <1>b, WithdrawFacts
<1>. HIDE DEF c
<1>d. /\ IsRun(d) /\ Grows(c.ledger, d.ledger)
      /\ d.status = "SUCCESS" => c.status = "SUCCESS" /\ HasWallet(d.ledger, miner)
  BY <1>t, <1>c, DepositFacts
<1>. HIDE DEF d
<1>1. Transfer(x, t, miner) = IF t.fee > 0 THEN d ELSE b
  BY DEF Transfer, a, b, c, d
<1>2. Grows(x.ledger, b.ledger) /\ Grows(b.ledger, d.ledger)
  BY <1>a, <1>b, <1>c, <1>d, GrowsTransitive
<1>3. Grows(a.ledger, d.ledger) /\ Grows(x.ledger, d.ledger)
  BY <1>2, <1>b, GrowsTransitive
<1>4. CASE t.fee > 0
  <2>1. RollbackWallets(t, miner) = {t.from, t.to, miner}
    BY <1>4 DEF RollbackWallets
  <2>2. d.status = "SUCCESS" =>
          HasWallet(d.ledger, t.from) /\ HasWallet(d.ledger, t.to) /\ HasWallet(d.ledger, miner)
    BY <1>a, <1>b, <1>c, <1>d, <1>2, <1>3, <1>t DEF Grows
  <2>. QED  BY <1>1, <1>3, <1>4, <1>d, <2>1, <2>2
<1>5. CASE ~(t.fee > 0)
  <2>1. RollbackWallets(t, miner) = {t.from, t.to}
    BY <1>5 DEF RollbackWallets
  <2>2. b.status = "SUCCESS" => HasWallet(b.ledger, t.from) /\ HasWallet(b.ledger, t.to)
    BY <1>a, <1>b, <1>t DEF Grows
  <2>. QED  BY <1>1, <1>2, <1>5, <1>b, <2>1, <2>2
<1>. QED  BY <1>4, <1>5

\* updateLedger never removes a record, and above the genesis block it succeeds
\* only if it leaves one for every wallet that undoing the transaction touches.
LEMMA UpdateLedgerFacts ==
  ASSUME NEW x, IsRun(x), NEW t \in Tx, NEW miner \in Wallet, NEW fee, NEW id \in Nat
  PROVE  LET y == UpdateLedger(x, t, miner, fee, id) IN
         /\ IsRun(y) /\ Grows(x.ledger, y.ledger)
         /\ y.status = "SUCCESS" /\ id > 1 =>
              \A w \in RollbackWallets(t, miner) : HasWallet(y.ledger, w)
<1>. DEFINE y == UpdateLedger(x, t, miner, fee, id)
            noted == [x EXCEPT !.invalid = x.invalid \cup {<<id, t.from>>}]
<1>t. t.from \in Wallet /\ t.to \in Wallet /\ t.amount \in Amount /\ t.isFee \in BOOLEAN
  BY TxAssumption
<1>1. \A s : /\ IsRun(Ended(x, s)) /\ Grows(x.ledger, Ended(x, s).ledger)
             /\ Ended(x, s).status = s
  BY EndedFacts DEF Grows
<1>2. /\ IsRun(Deposit(x, t.to, t.amount))
      /\ Grows(x.ledger, Deposit(x, t.to, t.amount).ledger)
      /\ Deposit(x, t.to, t.amount).status = "SUCCESS" =>
           HasWallet(Deposit(x, t.to, t.amount).ledger, t.to)
  BY <1>t, DepositFacts
<1>3. IsRun(noted) /\ noted.ledger = x.ledger
  <2>1. x.invalid \cup {<<id, t.from>>} \subseteq Nat \X Wallet
    BY <1>t DEF IsRun
  <2>. QED  BY <2>1 DEF IsRun
<1>. HIDE DEF noted
<1>low. LET low == Ended(noted, "BALANCE_TOO_LOW") IN
      IsRun(low) /\ Grows(x.ledger, low.ledger) /\ low.status = "BALANCE_TOO_LOW"
  BY <1>3, EndedFacts DEF Grows
<1>4. CASE t.isFee
  <2>1. y = IF t.amount = fee THEN Deposit(x, t.to, t.amount)
                              ELSE Ended(x, "INCORRECT_MINING_FEE")
    BY <1>4 DEF UpdateLedger
  <2>2. RollbackWallets(t, miner) = {t.to}
    BY <1>4 DEF RollbackWallets
  <2>. QED  BY <1>1, <1>2, <2>1, <2>2
<1>5. CASE ~t.isFee
  <2>1. /\ IsRun(Transfer(x, t, miner)) /\ Grows(x.ledger, Transfer(x, t, miner).ledger)
        /\ Transfer(x, t, miner).status = "SUCCESS" =>
             \A w \in RollbackWallets(t, miner) : HasWallet(Transfer(x, t, miner).ledger, w)
    BY <1>5, TransferFacts
  <2>2. \/ \E s \in {"WALLET_SIGNATURE_MISMATCH", "SENDER_DOES_NOT_EXIST"} : y = Ended(x, s)
        \/ id = 1 /\ y = Deposit(x, t.to, t.amount)
        \/ y = Ended(noted, "BALANCE_TOO_LOW")
        \/ y = Transfer(x, t, miner)
    BY <1>5 DEF UpdateLedger, noted
  <2>. QED  BY <1>1, <1>2, <1>low, <2>1, <2>2
<1>. QED  BY <1>4, <1>5, <1>t

\* The same of one turn of ExecuteBlock's second loop.
LEMMA ExecuteBlockTxFacts ==
  ASSUME NEW x, IsRun(x), NEW t \in Tx, NEW n, NEW miner \in Wallet, NEW fee, NEW id \in Nat
  PROVE  LET y == ExecuteBlockTx(x, t, n, miner, fee, id) IN
         /\ IsRun(y) /\ Grows(x.ledger, y.ledger)
         /\ y.status = "SUCCESS" /\ id > 1 =>
              \A w \in RollbackWallets(t, miner) : HasWallet(y.ledger, w)
<1>1. CASE ~SignatureValid(t, n) /\ id # 1
  BY <1>1, EndedFacts DEF ExecuteBlockTx, Grows
<1>2. CASE ~(~SignatureValid(t, n) /\ id # 1)
  BY <1>2, UpdateLedgerFacts DEF ExecuteBlockTx
<1>. QED  BY <1>1, <1>2

\* ExecuteTransaction moves money on a ledger, and only there.
LEMMA ExecuteTransactionFacts ==
  ASSUME NEW L \in Ledgers, NEW inv, inv \subseteq Nat \X Wallet, NEW t \in Tx, NEW n
  PROVE  LET y == ExecuteTransaction(L, inv, t, n) IN IsRun(y) /\ Grows(L, y.ledger)
<1>. DEFINE x == Run(L, EmptyLedger, inv)
<1>1. IsRun(x) /\ x.ledger = L
  BY DEF Run, IsRun, EmptyLedger, Ledgers
<1>. HIDE DEF x
<1>2. \A s : IsRun(Ended(x, s)) /\ Grows(L, Ended(x, s).ledger)
  BY <1>1, EndedFacts DEF Grows
<1>3. /\ IsRun(UpdateLedger(x, t, NullAddress, 0, 0))
      /\ Grows(L, UpdateLedger(x, t, NullAddress, 0, 0).ledger)
  BY <1>1, UpdateLedgerFacts, TxAssumption
<1>4. \/ \E s \in {"INVALID_SIGNATURE", "WALLET_SIGNATURE_MISMATCH"} :
           ExecuteTransaction(L, inv, t, n) = Ended(x, s)
      \/ ExecuteTransaction(L, inv, t, n) = UpdateLedger(x, t, NullAddress, 0, 0)
  BY DEF ExecuteTransaction, x
<1>. QED  BY <1>2, <1>3, <1>4

\* Executor::Rollback only takes amounts from records that have them.
LEMMA RollbackFacts ==
  ASSUME NEW L \in Ledgers, NEW deltas \in Ledgers
  PROVE  Rollback(L, deltas) \in Ledgers /\ Grows(L, Rollback(L, deltas))
<1>1. DOMAIN WalletOrder \subseteq Int
  BY TxAssumption
<1>2. \A w \in RolledBack(L, deltas) : HasWallet(L, w) /\ HasWallet(deltas, w)
  BY <1>1 DEF RolledBack, RollbackStops, CanWithdraw
<1>3. \A w \in RolledBack(L, deltas) \cap Wallet : Minus(L[w], deltas[w]) \in Amount
  BY <1>2, WrapType DEF Ledgers, HasWallet
<1>4. Rollback(L, deltas) \in Ledgers
  BY <1>3 DEF Rollback, Ledgers
<1>5. \A w \in Wallet : HasWallet(L, w) => HasWallet(Rollback(L, deltas), w)
  BY <1>3, AmountIsRecord DEF Rollback, HasWallet
<1>. QED  BY <1>4, <1>5 DEF Grows

\* rollbackLedger keeps the ledger a ledger if the records it needs are there.
LEMMA RollbackLedgerFacts ==
  ASSUME NEW L \in Ledgers, NEW t \in Tx, NEW miner \in Wallet,
         \A w \in RollbackWallets(t, miner) : HasWallet(L, w)
  PROVE  RollbackLedger(L, t, miner) \in Ledgers /\ Grows(L, RollbackLedger(L, t, miner))
<1>t. /\ t.from \in Wallet /\ t.to \in Wallet /\ t.amount \in Amount /\ t.fee \in Amount
      /\ t.isFee \in BOOLEAN
  BY TxAssumption
<1>1. ASSUME NEW M \in Ledgers, NEW w \in Wallet, NEW amt \in Amount, Grows(L, M),
             HasWallet(L, w)
      PROVE  /\ RevertDeposit(M, w, amt) \in Ledgers /\ Grows(L, RevertDeposit(M, w, amt))
             /\ RevertSend(M, w, amt) \in Ledgers /\ Grows(L, RevertSend(M, w, amt))
  <2>1. HasWallet(M, w)
    BY <1>1 DEF Grows
  <2>. QED  BY <1>1, <2>1, EntryFacts, GrowsTransitive DEF RevertDeposit, RevertSend
<1>2. Grows(L, L)
  BY DEF Grows
<1>3. CASE t.isFee
  BY <1>1, <1>2, <1>3, <1>t DEF RollbackLedger, RollbackWallets
<1>4. CASE ~t.isFee
  <2>. DEFINE a == RevertDeposit(L, miner, t.fee)
              u == IF t.fee > 0 THEN RevertSend(a, t.from, t.fee) ELSE L
              b == RevertDeposit(u, t.to, t.amount)
  <2>1. HasWallet(L, t.from) /\ HasWallet(L, t.to)
    BY <1>4 DEF RollbackWallets
  <2>2. t.fee > 0 => a \in Ledgers /\ Grows(L, a)
    BY <1>1, <1>2, <1>4, <1>t DEF RollbackWallets
  <2>. HIDE DEF a
  <2>3. u \in Ledgers /\ Grows(L, u)
    BY <1>1, <1>2, <1>t, <2>1, <2>2
  <2>. HIDE DEF u
  <2>4. b \in Ledgers /\ Grows(L, b)
    BY <1>1, <1>t, <2>1, <2>3
  <2>. HIDE DEF b
  <2>5. RevertSend(b, t.from, t.amount) \in Ledgers /\ Grows(L, RevertSend(b, t.from, t.amount))
    BY <1>1, <1>t, <2>1, <2>4
  <2>. QED  BY <1>4, <2>5 DEF RollbackLedger, a, u, b
<1>. QED  BY <1>3, <1>4, <1>t

-----------------------------------------------------------------------------
(***************************************************************************)
(* Money: what running and undoing a transaction does to every balance.    *)
(***************************************************************************)

\* What transaction t of a block with this miner and height moves into w.
Moves(t, miner, id, w) ==
  LET In    == IF t.to = w THEN t.amount ELSE 0
      Mined == IF miner = w THEN t.fee ELSE 0
      Out   == IF t.from = w THEN t.amount + t.fee ELSE 0
  IN  IF t.isFee \/ id = 1 THEN In ELSE In + Mined - Out

\* The deltas of a run are what separates the balance of w from c.
Covers(x, w, c) == Balance(x.deltas, w) = Minus(Balance(x.ledger, w), c)

\* Amounts in unsigned arithmetic can be moved past one another.
LEMMA WrapFacts ==
  ASSUME NEW a \in Amount, NEW b \in Amount, NEW c \in Amount
  PROVE  /\ Minus(Plus(a, b), c) = Plus(Minus(a, c), b)
         /\ Minus(Minus(a, b), c) = Minus(Minus(a, c), b)
         /\ Minus(a, Minus(a, b)) = b
         /\ Minus(a, b) = 0 <=> a = b
         /\ Plus(a, b) >= a => Plus(a, b) = a + b
         /\ b <= a => Minus(a, b) = a - b
BY AmountAssumption DEF Amount, Plus, Minus

\* A balance is an amount, and a missing record counts nothing.
LEMMA BalanceFacts ==
  ASSUME NEW L \in Ledgers, NEW w \in Wallet
  PROVE  /\ Balance(L, w) \in Amount
         /\ HasWallet(L, w) => Balance(L, w) = L[w]
         /\ \A v \in Wallet : Balance(WithRecord(L, v), w) = Balance(L, w)
<1>1. 0 \in Amount /\ 0 # Absent
  BY AmountAssumption DEF Amount
<1>2. Balance(L, w) \in Amount
  BY <1>1 DEF Balance, HasWallet, Ledgers
<1>3. ASSUME NEW v \in Wallet, ~HasWallet(L, v)
      PROVE  Balance([L EXCEPT ![v] = 0], w) = Balance(L, w)
  <2>1. [L EXCEPT ![v] = 0][w] = IF w = v THEN 0 ELSE L[w]
    BY DEF Ledgers
  <2>. QED  BY <1>1, <1>3, <2>1 DEF Balance, HasWallet
<1>. QED  BY <1>2, <1>3 DEF Balance, WithRecord

\* Adding to or taking from the record of w changes the balance of w only.
LEMMA EntryBalance ==
  ASSUME NEW L \in Ledgers, NEW w \in Wallet, HasWallet(L, w), NEW amt \in Amount,
         NEW v \in Wallet
  PROVE  /\ Balance(Credited(L, w, amt), v)
              = IF v = w THEN Plus(Balance(L, w), amt) ELSE Balance(L, v)
         /\ Balance(Debited(L, w, amt), v)
              = IF v = w THEN Minus(Balance(L, w), amt) ELSE Balance(L, v)
<1>1. L[w] \in Amount /\ Balance(L, w) = L[w]
  BY DEF Ledgers, HasWallet, Balance
<1>2. ASSUME NEW a \in Amount
      PROVE  Balance([L EXCEPT ![w] = a], v) = IF v = w THEN a ELSE Balance(L, v)
  <2>1. [L EXCEPT ![w] = a][v] = IF v = w THEN a ELSE L[v]
    BY DEF Ledgers
  <2>. QED  BY <2>1, AmountIsRecord DEF Balance, HasWallet
<1>3. Plus(L[w], amt) \in Amount /\ Minus(L[w], amt) \in Amount
  BY <1>1, WrapType
<1>4. /\ Credited(L, w, amt) = [L EXCEPT ![w] = Plus(L[w], amt)]
      /\ Debited(L, w, amt) = [L EXCEPT ![w] = Minus(L[w], amt)]
  BY DEF Credited, Debited
<1>. QED  BY <1>1, <1>2, <1>3, <1>4

\* deposit() adds to one balance and to its delta alike, or to neither.
LEMMA DepositMoves ==
  ASSUME NEW x, IsRun(x), NEW to \in Wallet, NEW amt \in Amount, NEW w \in Wallet
  PROVE  LET y == Deposit(x, to, amt) IN
         /\ \A c \in Amount : Covers(x, w, c) => Covers(y, w, c)
         /\ y.status = "SUCCESS" =>
              Balance(y.ledger, w) = Balance(x.ledger, w) + IF to = w THEN amt ELSE 0
<1>. DEFINE y == Deposit(x, to, amt)
            L == WithRecord(x.ledger, to)
            D == WithRecord(x.deltas, to)
<1>1. x.ledger \in Ledgers /\ x.deltas \in Ledgers
  BY DEF IsRun
<1>2. L \in Ledgers /\ HasWallet(L, to) /\ D \in Ledgers /\ HasWallet(D, to)
  BY <1>1, WithRecordFacts
<1>3. /\ \A v \in Wallet : Balance(L, v) = Balance(x.ledger, v)
      /\ \A v \in Wallet : Balance(D, v) = Balance(x.deltas, v)
  BY <1>1, BalanceFacts
<1>. HIDE DEF L, D
<1>4. CASE x.status # "SUCCESS"
  BY <1>4 DEF Deposit
<1>5. CASE x.status = "SUCCESS" /\ ~CanDeposit(L, to, amt)
  <2>1. y = [x EXCEPT !.ledger = L, !.status = "THROWN"]
    BY <1>5 DEF Deposit, L
  <2>2. y.ledger = L /\ y.deltas = x.deltas /\ y.status = "THROWN"
    BY <2>1 DEF IsRun
  <2>. QED  BY <1>3, <2>2 DEF Covers
<1>6. CASE x.status = "SUCCESS" /\ CanDeposit(L, to, amt)
  <2>1. y = [x EXCEPT !.ledger = Credited(L, to, amt), !.deltas = Credited(D, to, amt)]
    BY <1>6 DEF Deposit, L, D
  <2>2. y.ledger = Credited(L, to, amt) /\ y.deltas = Credited(D, to, amt)
    BY <2>1 DEF IsRun
  <2>. HIDE DEF y
  <2>3. /\ Balance(y.ledger, w) = IF w = to THEN Plus(Balance(L, to), amt) ELSE Balance(L, w)
        /\ Balance(y.deltas, w) = IF w = to THEN Plus(Balance(D, to), amt) ELSE Balance(D, w)
    BY <1>2, <2>2, EntryBalance
  <2>4. Balance(L, to) \in Amount /\ Balance(L, w) \in Amount /\ Balance(L, to) = L[to]
    BY <1>2, BalanceFacts
  <2>5. Plus(Balance(L, to), amt) = Balance(L, to) + amt
    BY <1>6, <2>4, WrapFacts DEF CanDeposit
  <2>6. Balance(y.ledger, w) = Balance(x.ledger, w) + IF to = w THEN amt ELSE 0
    BY <1>3, <2>3, <2>4, <2>5 DEF Amount
  <2>7. ASSUME NEW c \in Amount, Covers(x, w, c)  PROVE Covers(y, w, c)
    <3>1. Balance(D, w) = Minus(Balance(L, w), c)
      BY <1>3, <2>7 DEF Covers
    <3>2. CASE w = to
      <4>1. Minus(Plus(Balance(L, w), amt), c) = Plus(Minus(Balance(L, w), c), amt)
        BY <2>4, WrapFacts
      <4>. QED  BY <2>3, <3>1, <3>2, <4>1 DEF Covers
    <3>3. CASE w # to
      BY <2>3, <3>1, <3>3 DEF Covers
    <3>. QED  BY <3>2, <3>3
  <2>. QED  BY <2>6, <2>7 DEF y
<1>. QED  BY <1>4, <1>5, <1>6

\* withdraw() takes from one balance and from its delta alike, or from neither.
LEMMA WithdrawMoves ==
  ASSUME NEW x, IsRun(x), NEW from \in Wallet, NEW amt \in Amount, NEW w \in Wallet
  PROVE  LET y == Withdraw(x, from, amt) IN
         /\ \A c \in Amount : Covers(x, w, c) => Covers(y, w, c)
         /\ y.status = "SUCCESS" =>
              Balance(y.ledger, w) = Balance(x.ledger, w) - IF from = w THEN amt ELSE 0
<1>. DEFINE y == Withdraw(x, from, amt)
            D == WithRecord(x.deltas, from)
<1>1. x.ledger \in Ledgers /\ x.deltas \in Ledgers
  BY DEF IsRun
<1>2. D \in Ledgers /\ HasWallet(D, from)
  BY <1>1, WithRecordFacts
<1>3. \A v \in Wallet : Balance(D, v) = Balance(x.deltas, v)
  BY <1>1, BalanceFacts
<1>. HIDE DEF D
<1>4. CASE x.status # "SUCCESS"
  BY <1>4 DEF Withdraw
<1>5. CASE x.status = "SUCCESS" /\ ~CanWithdraw(x.ledger, from, amt)
  <2>1. y.ledger = x.ledger /\ y.deltas = x.deltas /\ y.status = "THROWN"
    BY <1>5 DEF Withdraw, Ended, IsRun
  <2>. QED  BY <2>1 DEF Covers
<1>6. CASE x.status = "SUCCESS" /\ CanWithdraw(x.ledger, from, amt)
  <2>1. y = [x EXCEPT !.ledger = Debited(x.ledger, from, amt), !.deltas = Debited(D, from, amt)]
    BY <1>6 DEF Withdraw, D
  <2>2. y.ledger = Debited(x.ledger, from, amt) /\ y.deltas = Debited(D, from, amt)
    BY <2>1 DEF IsRun
  <2>. HIDE DEF y
  <2>3. HasWallet(x.ledger, from) /\ amt <= x.ledger[from]
    BY <1>6 DEF CanWithdraw
  <2>4. /\ Balance(y.ledger, w) = IF w = from THEN Minus(Balance(x.ledger, from), amt)
                                              ELSE Balance(x.ledger, w)
        /\ Balance(y.deltas, w) = IF w = from THEN Minus(Balance(D, from), amt)
                                              ELSE Balance(D, w)
    BY <1>1, <1>2, <2>2, <2>3, EntryBalance
  <2>5. /\ Balance(x.ledger, from) \in Amount /\ Balance(x.ledger, w) \in Amount
        /\ Balance(x.ledger, from) = x.ledger[from]
    BY <1>1, <2>3, BalanceFacts
  <2>6. Minus(Balance(x.ledger, from), amt) = Balance(x.ledger, from) - amt
    BY <2>3, <2>5, WrapFacts
  <2>7. Balance(y.ledger, w) = Balance(x.ledger, w) - IF from = w THEN amt ELSE 0
    BY <2>4, <2>5, <2>6 DEF Amount
  <2>8. ASSUME NEW c \in Amount, Covers(x, w, c)  PROVE Covers(y, w, c)
    <3>1. Balance(D, w) = Minus(Balance(x.ledger, w), c)
      BY <1>3, <2>8 DEF Covers
    <3>2. CASE w = from
      <4>1. Minus(Minus(Balance(x.ledger, w), amt), c) = Minus(Minus(Balance(x.ledger, w), c), amt)
        BY <2>5, WrapFacts
      <4>. QED  BY <2>4, <3>1, <3>2, <4>1 DEF Covers
    <3>3. CASE w # from
      BY <2>4, <3>1, <3>3 DEF Covers
    <3>. QED  BY <3>2, <3>3
  <2>. QED  BY <2>7, <2>8 DEF y
<1>. QED  BY <1>4, <1>5, <1>6

\* A transfer that succeeds moves its amount and its fee, and one that does not
\* leaves what it moved in its deltas.
LEMMA TransferMoves ==
  ASSUME NEW x, IsRun(x), NEW t \in Tx, ~t.isFee, NEW miner \in Wallet, NEW w \in Wallet,
         NEW id, id # 1
  PROVE  LET y == Transfer(x, t, miner) IN
         /\ \A c \in Amount : Covers(x, w, c) => Covers(y, w, c)
         /\ y.status = "SUCCESS" =>
              Balance(y.ledger, w) = Balance(x.ledger, w) + Moves(t, miner, id, w)
<1>. DEFINE a == Withdraw(x, t.from, t.amount)
            b == Deposit(a, t.to, t.amount)
            c == Withdraw(b, t.from, t.fee)
            d == Deposit(c, miner, t.fee)
            y == Transfer(x, t, miner)
<1>t. t.from \in Wallet /\ t.to \in Wallet /\ t.amount \in Amount /\ t.fee \in Amount
  BY TxAssumption
<1>a. /\ IsRun(a)
      /\ \A k \in Amount : Covers(x, w, k) => Covers(a, w, k)
      /\ a.status = "SUCCESS" =>
           Balance(a.ledger, w) = Balance(x.ledger, w) - IF t.from = w THEN t.amount ELSE 0
  <2>1. IsRun(a)  BY <1>t, WithdrawFacts
  <2>. QED  BY <2>1, <1>t, WithdrawMoves
<1>. HIDE DEF a
<1>b. /\ IsRun(b) /\ (b.status = "SUCCESS" => a.status = "SUCCESS")
      /\ \A k \in Amount : Covers(a, w, k) => Covers(b, w, k)
      /\ b.status = "SUCCESS" =>
           Balance(b.ledger, w) = Balance(a.ledger, w) + IF t.to = w THEN t.amount ELSE 0
  <2>1. IsRun(b) /\ (b.status = "SUCCESS" => a.status = "SUCCESS")  BY <1>t, <1>a, DepositFacts
  <2>. QED  BY <2>1, <1>t, <1>a, DepositMoves
<1>. HIDE DEF b
<1>c. /\ IsRun(c) /\ (c.status = "SUCCESS" => b.status = "SUCCESS")
      /\ \A k \in Amount : Covers(b, w, k) => Covers(c, w, k)
      /\ c.status = "SUCCESS" =>
           Balance(c.ledger, w) = Balance(b.ledger, w) - IF t.from = w THEN t.fee ELSE 0
  <2>1. IsRun(c) /\ (c.status = "SUCCESS" => b.status = "SUCCESS")  BY <1>t, <1>b, WithdrawFacts
  <2>. QED  BY <2>1, <1>t, <1>b, WithdrawMoves
<1>. HIDE DEF c
<1>d. /\ (d.status = "SUCCESS" => c.status = "SUCCESS")
      /\ \A k \in Amount : Covers(c, w, k) => Covers(d, w, k)
      /\ d.status = "SUCCESS" =>
           Balance(d.ledger, w) = Balance(c.ledger, w) + IF miner = w THEN t.fee ELSE 0
  <2>1. d.status = "SUCCESS" => c.status = "SUCCESS"  BY <1>t, <1>c, DepositFacts
  <2>. QED  BY <2>1, <1>t, <1>c, DepositMoves
<1>. HIDE DEF d
<1>1. y = IF t.fee > 0 THEN d ELSE b
  BY DEF Transfer, a, b, c, d
<1>2. \A k \in Amount : Covers(x, w, k) => Covers(y, w, k)
  BY <1>1, <1>a, <1>b, <1>c, <1>d
<1>. HIDE DEF y
<1>3. Balance(x.ledger, w) \in Int /\ t.fee \in Int /\ t.amount \in Int /\ t.fee >= 0
  BY <1>t, BalanceFacts DEF IsRun, Amount
<1>4. Moves(t, miner, id, w)
        = (IF t.to = w THEN t.amount ELSE 0) + (IF miner = w THEN t.fee ELSE 0)
            - IF t.from = w THEN t.amount + t.fee ELSE 0
  BY DEF Moves
<1>5. CASE t.fee > 0 /\ y.status = "SUCCESS"
  BY <1>1, <1>2, <1>3, <1>4, <1>5, <1>a, <1>b, <1>c, <1>d DEF y
<1>6. CASE ~(t.fee > 0) /\ y.status = "SUCCESS"
  <2>1. t.fee = 0
    BY <1>3, <1>6
  <2>. QED  BY <1>1, <1>2, <1>3, <1>4, <1>6, <1>a, <1>b, <2>1 DEF y
<1>. QED  BY <1>2, <1>5, <1>6 DEF y

\* Running a transaction of a block: if it succeeds every balance moves by what
\* the transaction says, and whatever happens the deltas follow the ledger.
LEMMA ExecuteBlockTxMoves ==
  ASSUME NEW x, IsRun(x), NEW t \in Tx, NEW n, NEW miner \in Wallet, NEW fee, NEW id,
         NEW w \in Wallet
  PROVE  LET y == ExecuteBlockTx(x, t, n, miner, fee, id) IN
         /\ \A c \in Amount : Covers(x, w, c) => Covers(y, w, c)
         /\ y.status = "SUCCESS" =>
              Balance(y.ledger, w) = Balance(x.ledger, w) + Moves(t, miner, id, w)
<1>. DEFINE noted == [x EXCEPT !.invalid = x.invalid \cup {<<id, t.from>>}]
            good(y) == /\ \A c \in Amount : Covers(x, w, c) => Covers(y, w, c)
                       /\ y.status = "SUCCESS" =>
                            Balance(y.ledger, w) = Balance(x.ledger, w) + Moves(t, miner, id, w)
<1>t. t.to \in Wallet /\ t.amount \in Amount /\ t.isFee \in BOOLEAN
  BY TxAssumption
<1>1. \A s : s # "SUCCESS" => good(Ended(x, s)) /\ good(Ended(noted, s))
  BY DEF Ended, IsRun, Covers
<1>2. t.isFee \/ id = 1 => good(Deposit(x, t.to, t.amount))
  <2>. SUFFICES ASSUME t.isFee \/ id = 1  PROVE good(Deposit(x, t.to, t.amount))
    OBVIOUS
  <2>1. Moves(t, miner, id, w) = IF t.to = w THEN t.amount ELSE 0
    BY DEF Moves
  <2>. QED  BY <1>t, <2>1, DepositMoves
<1>3. ~t.isFee /\ id # 1 => good(Transfer(x, t, miner))
  BY TransferMoves
<1>4. \/ \E s : s # "SUCCESS" /\ \/ ExecuteBlockTx(x, t, n, miner, fee, id) = Ended(x, s)
                                 \/ ExecuteBlockTx(x, t, n, miner, fee, id) = Ended(noted, s)
      \/ /\ t.isFee \/ id = 1
         /\ ExecuteBlockTx(x, t, n, miner, fee, id) = Deposit(x, t.to, t.amount)
      \/ /\ ~t.isFee /\ id # 1
         /\ ExecuteBlockTx(x, t, n, miner, fee, id) = Transfer(x, t, miner)
  <2>1. \/ \E s \in {"INCORRECT_MINING_FEE", "WALLET_SIGNATURE_MISMATCH",
                     "SENDER_DOES_NOT_EXIST"} : UpdateLedger(x, t, miner, fee, id) = Ended(x, s)
        \/ UpdateLedger(x, t, miner, fee, id) = Ended(noted, "BALANCE_TOO_LOW")
        \/ (t.isFee \/ id = 1) /\ UpdateLedger(x, t, miner, fee, id) = Deposit(x, t.to, t.amount)
        \/ ~t.isFee /\ id # 1 /\ UpdateLedger(x, t, miner, fee, id) = Transfer(x, t, miner)
    BY <1>t DEF UpdateLedger, noted
  <2>. QED  BY <2>1 DEF ExecuteBlockTx
<1>. HIDE DEF good, noted
<1>5. good(ExecuteBlockTx(x, t, n, miner, fee, id))
  BY <1>1, <1>2, <1>3, <1>4
<1>. QED  BY <1>5 DEF good

\* ExecuteTransaction leaves what it moved in its deltas.
LEMMA ExecuteTransactionMoves ==
  ASSUME NEW L \in Ledgers, NEW inv, inv \subseteq Nat \X Wallet, NEW t \in Tx, NEW n,
         NEW w \in Wallet
  PROVE  LET y == ExecuteTransaction(L, inv, t, n) IN Covers(y, w, Balance(L, w))
<1>. DEFINE x == Run(L, EmptyLedger, inv)
<1>1. IsRun(x) /\ Covers(x, w, Balance(L, w))
  <2>1. IsRun(x) /\ x.ledger = L /\ x.deltas = EmptyLedger
    BY DEF Run, IsRun, EmptyLedger, Ledgers
  <2>2. Balance(EmptyLedger, w) = 0
    BY DEF Balance, HasWallet, EmptyLedger
  <2>3. Minus(Balance(L, w), Balance(L, w)) = 0
    BY BalanceFacts, WrapFacts
  <2>. QED  BY <2>1, <2>2, <2>3 DEF Covers
<1>2. Balance(L, w) \in Amount
  BY BalanceFacts
<1>. HIDE DEF x
<1>3. \A s : Covers(Ended(x, s), w, Balance(L, w))
  BY <1>1 DEF Ended, IsRun, Covers
<1>4. \/ \E s : ExecuteTransaction(L, inv, t, n) = Ended(x, s)
      \/ /\ SignatureValid(t, n)
         /\ ExecuteTransaction(L, inv, t, n) = UpdateLedger(x, t, NullAddress, 0, 0)
  BY DEF ExecuteTransaction, x
<1>5. SignatureValid(t, n) =>
        UpdateLedger(x, t, NullAddress, 0, 0) = ExecuteBlockTx(x, t, n, NullAddress, 0, 0)
  BY DEF ExecuteBlockTx
<1>6. Covers(ExecuteBlockTx(x, t, n, NullAddress, 0, 0), w, Balance(L, w))
  BY <1>1, <1>2, ExecuteBlockTxMoves, TxAssumption
<1>. QED  BY <1>3, <1>4, <1>5, <1>6

\* Executor::Rollback, if it does not throw, takes every balance back to what
\* the deltas separate it from.
LEMMA RollbackMoves ==
  ASSUME NEW L \in Ledgers, NEW deltas \in Ledgers, ~RollbackThrows(L, deltas),
         NEW w \in Wallet, NEW c \in Amount, Balance(deltas, w) = Minus(Balance(L, w), c)
  PROVE  Balance(Rollback(L, deltas), w) = c
<1>1. RollbackStops(L, deltas) = {}
  BY DEF RollbackThrows
<1>2. PICK i \in DOMAIN WalletOrder : WalletOrder[i] = w
  BY TxAssumption
<1>3. w \in RolledBack(L, deltas) <=> HasWallet(deltas, w)
  BY <1>1, <1>2 DEF RolledBack
<1>4. Rollback(L, deltas)[w] = IF HasWallet(deltas, w) THEN Minus(L[w], deltas[w]) ELSE L[w]
  BY <1>3 DEF Rollback
<1>5. Balance(L, w) \in Amount
  BY BalanceFacts
<1>6. CASE HasWallet(deltas, w)
  <2>1. HasWallet(L, w)
    BY <1>1, <1>2, <1>6 DEF RollbackStops, CanWithdraw
  <2>2. Balance(L, w) = L[w] /\ Balance(deltas, w) = deltas[w]
    BY <1>6, <2>1 DEF Balance
  <2>3. Rollback(L, deltas)[w] = c
    BY <1>4, <1>5, <1>6, <2>2, WrapFacts
  <2>. QED  BY <2>3, AmountIsRecord DEF Balance, HasWallet
<1>7. CASE ~HasWallet(deltas, w)
  <2>1. Minus(Balance(L, w), c) = 0
    BY <1>7 DEF Balance
  <2>2. Balance(L, w) = c
    BY <1>5, <2>1, WrapFacts
  <2>. QED  BY <1>4, <1>7, <2>2 DEF Balance, HasWallet
<1>. QED  BY <1>6, <1>7

\* What is paid back in unsigned arithmetic, in the order rollbackLedger does it,
\* is what was paid if that is an amount.
LEMMA PaidBack ==
  ASSUME NEW a \in Amount, NEW amount \in Amount, NEW fee \in Amount,
         NEW to \in BOOLEAN, NEW miner \in BOOLEAN, NEW from \in BOOLEAN,
         a - ((IF to THEN amount ELSE 0) + (IF miner THEN fee ELSE 0)
                - IF from THEN amount + fee ELSE 0) \in Amount
  PROVE  LET unmined == IF miner THEN Minus(a, fee) ELSE a
             repaid  == IF from THEN Plus(unmined, fee) ELSE unmined
             unpaid  == IF to THEN Minus(repaid, amount) ELSE repaid
         IN  (IF from THEN Plus(unpaid, amount) ELSE unpaid)
               = a - ((IF to THEN amount ELSE 0) + (IF miner THEN fee ELSE 0)
                        - IF from THEN amount + fee ELSE 0)
<1>1. CASE to /\ miner    BY <1>1, AmountAssumption DEF Amount, Plus, Minus
<1>2. CASE to /\ ~miner   BY <1>2, AmountAssumption DEF Amount, Plus, Minus
<1>3. CASE ~to /\ miner   BY <1>3, AmountAssumption DEF Amount, Plus, Minus
<1>4. CASE ~to /\ ~miner  BY <1>4, AmountAssumption DEF Amount, Plus, Minus
<1>. QED  BY <1>1, <1>2, <1>3, <1>4

\* rollbackLedger takes from every balance what the transaction moved into it, if
\* that leaves an amount.
LEMMA RollbackLedgerMoves ==
  ASSUME NEW L \in Ledgers, NEW t \in Tx, NEW miner \in Wallet,
         \A v \in RollbackWallets(t, miner) : HasWallet(L, v),
         NEW w \in Wallet, NEW id, id # 1, Balance(L, w) - Moves(t, miner, id, w) \in Amount
  PROVE  Balance(RollbackLedger(L, t, miner), w) = Balance(L, w) - Moves(t, miner, id, w)
<1>t. /\ t.from \in Wallet /\ t.to \in Wallet /\ t.amount \in Amount /\ t.fee \in Amount
      /\ t.isFee \in BOOLEAN
  BY TxAssumption
<1>1. \A M \in Ledgers, v \in Wallet, amt \in Amount : HasWallet(M, v) =>
        /\ RevertDeposit(M, v, amt) \in Ledgers /\ Grows(M, RevertDeposit(M, v, amt))
        /\ RevertSend(M, v, amt) \in Ledgers /\ Grows(M, RevertSend(M, v, amt))
        /\ Balance(RevertDeposit(M, v, amt), w)
             = IF v = w THEN Minus(Balance(M, w), amt) ELSE Balance(M, w)
        /\ Balance(RevertSend(M, v, amt), w)
             = IF v = w THEN Plus(Balance(M, w), amt) ELSE Balance(M, w)
  <2>. SUFFICES ASSUME NEW M \in Ledgers, NEW v \in Wallet, NEW amt \in Amount, HasWallet(M, v)
                PROVE  /\ Debited(M, v, amt) \in Ledgers /\ Grows(M, Debited(M, v, amt))
                       /\ Credited(M, v, amt) \in Ledgers /\ Grows(M, Credited(M, v, amt))
                       /\ Balance(Debited(M, v, amt), w)
                            = IF v = w THEN Minus(Balance(M, w), amt) ELSE Balance(M, w)
                       /\ Balance(Credited(M, v, amt), w)
                            = IF v = w THEN Plus(Balance(M, w), amt) ELSE Balance(M, w)
    BY DEF RevertDeposit, RevertSend
  <2>1. /\ Debited(M, v, amt) \in Ledgers /\ Grows(M, Debited(M, v, amt))
        /\ Credited(M, v, amt) \in Ledgers /\ Grows(M, Credited(M, v, amt))
    BY EntryFacts
  <2>2. /\ Balance(Debited(M, v, amt), w)
             = IF v = w THEN Minus(Balance(M, w), amt) ELSE Balance(M, w)
        /\ Balance(Credited(M, v, amt), w)
             = IF v = w THEN Plus(Balance(M, w), amt) ELSE Balance(M, w)
    BY EntryBalance
  <2>. QED  BY <2>1, <2>2
<1>2. Balance(L, w) \in Amount
  BY BalanceFacts
<1>3. CASE t.isFee
  <2>1. HasWallet(L, t.to) /\ RollbackLedger(L, t, miner) = RevertDeposit(L, t.to, t.amount)
    BY <1>3 DEF RollbackWallets, RollbackLedger
  <2>2. Moves(t, miner, id, w) = IF t.to = w THEN t.amount ELSE 0
    BY <1>3 DEF Moves
  <2>3. t.to = w => t.amount <= Balance(L, w)
    BY <1>2, <1>t, <2>2 DEF Amount
  <2>. QED  BY <1>1, <1>2, <1>t, <2>1, <2>2, <2>3, WrapFacts DEF Amount
<1>4. CASE ~t.isFee
  <2>. DEFINE a == RevertDeposit(L, miner, t.fee)
              b == RevertSend(a, t.from, t.fee)
              u == IF t.fee > 0 THEN b ELSE L
              c == RevertDeposit(u, t.to, t.amount)
              d == RevertSend(c, t.from, t.amount)
              f == IF t.from = w THEN Plus(IF miner = w THEN Minus(Balance(L, w), t.fee)
                                           ELSE Balance(L, w), t.fee)
                   ELSE IF miner = w THEN Minus(Balance(L, w), t.fee) ELSE Balance(L, w)
  <2>1. HasWallet(L, t.from) /\ HasWallet(L, t.to) /\ (t.fee > 0 => HasWallet(L, miner))
    BY <1>4 DEF RollbackWallets
  <2>2. t.fee > 0 => /\ a \in Ledgers /\ Grows(L, a)
                     /\ Balance(a, w) = IF miner = w THEN Minus(Balance(L, w), t.fee)
                                        ELSE Balance(L, w)
    BY <1>1, <1>t, <2>1
  <2>. HIDE DEF a
  <2>3. t.fee > 0 => HasWallet(a, t.from)
    BY <1>t, <2>1, <2>2 DEF Grows
  <2>4. t.fee > 0 => /\ b \in Ledgers /\ Grows(a, b)
                     /\ Balance(b, w) = f
    BY <1>1, <1>t, <2>2, <2>3
  <2>. HIDE DEF b
  <2>5. t.fee > 0 => Grows(L, b)
    BY <2>2, <2>4, GrowsTransitive
  <2>6. ~(t.fee > 0) => f = Balance(L, w)
    <3>. SUFFICES ASSUME ~(t.fee > 0)  PROVE f = Balance(L, w)
      OBVIOUS
    <3>1. t.fee = 0
      BY <1>t DEF Amount
    <3>2. Plus(Balance(L, w), 0) = Balance(L, w) /\ Minus(Balance(L, w), 0) = Balance(L, w)
      BY <1>2, AmountAssumption DEF Amount, Plus, Minus
    <3>. QED  BY <3>1, <3>2
  <2>7. u \in Ledgers /\ Grows(L, u) /\ Balance(u, w) = f
    BY <2>4, <2>5, <2>6 DEF Grows
  <2>. HIDE DEF u
  <2>8. /\ c \in Ledgers /\ Grows(u, c)
        /\ Balance(c, w) = IF t.to = w THEN Minus(f, t.amount) ELSE f
    <3>1. HasWallet(u, t.to)
      BY <1>t, <2>1, <2>7 DEF Grows
    <3>. HIDE DEF f
    <3>. QED  BY <1>1, <1>t, <2>7, <3>1
  <2>. HIDE DEF c
  <2>9. Balance(d, w) = IF t.from = w THEN Plus(IF t.to = w THEN Minus(f, t.amount) ELSE f, t.amount)
                        ELSE IF t.to = w THEN Minus(f, t.amount) ELSE f
    <3>1. Grows(L, c)
      BY <2>7, <2>8, GrowsTransitive
    <3>2. HasWallet(c, t.from)
      BY <1>t, <2>1, <3>1 DEF Grows
    <3>. HIDE DEF f
    <3>. QED  BY <1>1, <1>t, <2>8, <3>2
  <2>. HIDE DEF d
  <2>10. Moves(t, miner, id, w)
           = (IF t.to = w THEN t.amount ELSE 0) + (IF miner = w THEN t.fee ELSE 0)
               - IF t.from = w THEN t.amount + t.fee ELSE 0
    BY <1>4 DEF Moves
  <2>11. Balance(d, w) = Balance(L, w) - Moves(t, miner, id, w)
    <3>. DEFINE to == t.to = w
                mine == miner = w
                from == t.from = w
    <3>1. to \in BOOLEAN /\ mine \in BOOLEAN /\ from \in BOOLEAN
      OBVIOUS
    <3>2. Moves(t, miner, id, w)
            = (IF to THEN t.amount ELSE 0) + (IF mine THEN t.fee ELSE 0)
                - IF from THEN t.amount + t.fee ELSE 0
      BY <2>10
    <3>3. Balance(d, w) = LET unmined == IF mine THEN Minus(Balance(L, w), t.fee) ELSE Balance(L, w)
                              repaid  == IF from THEN Plus(unmined, t.fee) ELSE unmined
                              unpaid  == IF to THEN Minus(repaid, t.amount) ELSE repaid
                          IN  IF from THEN Plus(unpaid, t.amount) ELSE unpaid
      BY <2>9
    <3>. HIDE DEF to, mine, from
    <3>. QED  BY <1>2, <1>t, <3>1, <3>2, <3>3, PaidBack
  <2>. QED  BY <1>4, <2>11 DEF RollbackLedger, a, b, u, c, d
<1>. QED  BY <1>3, <1>4, <1>t
=============================================================================
