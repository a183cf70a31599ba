------------------------------ MODULE Executor ------------------------------
(***************************************************************************)
(* Executor of src/src/server: what running a transaction or a block does  *)
(* to the ledger, and how it is undone.                                    *)
(*                                                                         *)
(* A transaction is a record                                               *)
(*   isFee      the transaction pays the block's mining fee                *)
(*   from, to   wallets (a fee's `from' is not looked at)                  *)
(*   signer     the wallet its signing key belongs to                      *)
(*   amount, fee, time                                                     *)
(*   signed     the nonce its signature was made over, or Unsigned         *)
(*   signature  tells signatures over the same contents apart              *)
(* The nonce is no part of the record: the copy constructor and the        *)
(* constructors from the wire and from disk leave Transaction::nonce       *)
(* uninitialised, so every copy of a transaction may read it as any value  *)
(* of Nonce.  Operators that hash a transaction take the value their copy  *)
(* happens to hold.                                                        *)
(***************************************************************************)
EXTENDS Ledger, Sequences

CONSTANTS
  Tx,           \* the transactions that are ever offered to the node
  Nonce,        \* the values an uninitialised nonce may read as
  Unsigned,     \* not a nonce: the transaction's signature verifies for none
  NullAddress,  \* the wallet ExecuteTransaction names as the miner
  WalletOrder   \* the wallets in the order LedgerState, a std::map, has them

ASSUME TxAssumption ==
  /\ \A t \in Tx : /\ t.isFee \in BOOLEAN
                   /\ {t.from, t.to} \subseteq Wallet
                   /\ {t.amount, t.fee} \subseteq Amount
  /\ NullAddress \in Wallet
  /\ WalletOrder \in Seq(Wallet)
  /\ \A w \in Wallet : \E i \in DOMAIN WalletOrder : WalletOrder[i] = w

\* Transaction::hashContents of a copy whose nonce reads n; fees hash no sender.
Contents(t) == <<t.isFee, IF t.isFee THEN t.to ELSE t.from, t.to, t.fee, t.amount, t.time>>
TxKey(t, n) == <<Contents(t), n>>
TxKeys      == {TxKey(t, n) : t \in Tx, n \in Nonce}

\* Transaction::getHash adds the signature.
TxHash(t, n) == <<TxKey(t, n), t.signature>>

SignatureValid(t, n) == t.isFee \/ t.signed = n

-----------------------------------------------------------------------------
(***************************************************************************)
(* Running transactions.  A run is a record of the ledger, the deltas it   *)
(* collects, the entries of invalid.json and a status; once the status is  *)
(* not "SUCCESS" the run is over.  "THROWN" is an exception.               *)
(***************************************************************************)
Run(L, deltas, invalid) ==
  [ledger |-> L, deltas |-> deltas, invalid |-> invalid, status |-> "SUCCESS"]

Ended(x, status) == [x EXCEPT !.status = status]

Deposit(x, to, amt) ==
  LET L == WithRecord(x.ledger, to) IN
  IF x.status # "SUCCESS" THEN x
  ELSE IF ~CanDeposit(L, to, amt) THEN [x EXCEPT !.ledger = L, !.status = "THROWN"]
  ELSE [x EXCEPT !.ledger = Credited(L, to, amt),
                 !.deltas = Credited(WithRecord(@, to), to, amt)]

Withdraw(x, from, amt) ==
  IF x.status # "SUCCESS" THEN x
  ELSE IF ~CanWithdraw(x.ledger, from, amt) THEN Ended(x, "THROWN")
  ELSE [x EXCEPT !.ledger = Debited(@, from, amt),
                 !.deltas = Debited(WithRecord(@, from), from, amt)]

\* Money moves from the sender to the recipient, then the fee to the miner.
Transfer(x, t, miner) ==
  LET paid == Deposit(Withdraw(x, t.from, t.amount), t.to, t.amount) IN
  IF t.fee > 0 THEN Deposit(Withdraw(paid, t.from, t.fee), miner, t.fee) ELSE paid

\* Entries of invalid.json and blockId 0 excuse a sender whose balance is low.
Waived(x, t, blockId) == <<blockId, t.from>> \in x.invalid \/ blockId = 0

Short(L, t) == L[t.from] < t.amount \/ Minus(L[t.from], t.amount) < t.fee

UpdateLedger(x, t, miner, miningFee, blockId) ==
  IF t.isFee
  THEN IF t.amount = miningFee THEN Deposit(x, t.to, t.amount)
       ELSE Ended(x, "INCORRECT_MINING_FEE")
  ELSE IF blockId > 1 /\ t.signer # t.from THEN Ended(x, "WALLET_SIGNATURE_MISMATCH")
  ELSE IF blockId = 1 THEN Deposit(x, t.to, t.amount)
  ELSE IF ~HasWallet(x.ledger, t.from) THEN Ended(x, "SENDER_DOES_NOT_EXIST")
  ELSE IF Short(x.ledger, t) /\ ~Waived(x, t, blockId)
  THEN Ended([x EXCEPT !.invalid = @ \cup {<<blockId, t.from>>}], "BALANCE_TOO_LOW")
  ELSE Transfer(x, t, miner)

\* Executor::ExecuteTransaction, run on a copy whose nonce reads n.
ExecuteTransaction(L, invalid, t, n) ==
  LET x == Run(L, EmptyLedger, invalid) IN
  IF ~SignatureValid(t, n) THEN Ended(x, "INVALID_SIGNATURE")
  ELSE IF ~t.isFee /\ t.signer # t.from THEN Ended(x, "WALLET_SIGNATURE_MISMATCH")
  ELSE UpdateLedger(x, t, NullAddress, 0, 0)

-----------------------------------------------------------------------------
(***************************************************************************)
(* Executor::ExecuteBlock.  Its first loop only looks at the transactions; *)
(* `nonces' gives the value each loop copy's nonce reads as, and known is *)
(* the set of keys in the transaction store.                               *)
(***************************************************************************)
Fees(txs) == {i \in DOMAIN txs : txs[i].isFee}

TheFee(txs) == txs[CHOOSE i \in Fees(txs) : TRUE]

MinerOf(txs) == TheFee(txs).to

\* (Mutant: the transaction store is not asked.)
RepeatedInBlock(txs, id, nonces, known, i) ==
  \E j \in (1 .. i - 1) \ Fees(txs) : TxHash(txs[j], nonces[j]) = TxHash(txs[i], nonces[i])

\* Transaction i repeats one before it, by its hash, or is in a block already.
Repeated(txs, id, nonces, known, i) ==
  \/ \E j \in (1 .. i - 1) \ Fees(txs) : TxHash(txs[j], nonces[j]) = TxHash(txs[i], nonces[i])
  \/ id # 1 /\ TxKey(txs[i], nonces[i]) \in known

\* The block gets past the first loop and the checks of its fee.  A block that
\* does not is refused with nothing to take back.
ScanAccepts(txs, id, nonces, known, miningFee) ==
  /\ \A i, j \in Fees(txs) : i = j
  /\ \A i \in DOMAIN txs \ Fees(txs) :
       /\ ~Repeated(txs, id, nonces, known, i)
       /\ id > 1 => txs[i].signer = txs[i].from
  /\ Fees(txs) # {}
  /\ TheFee(txs).amount = miningFee

\* One iteration of its second loop, on a copy whose nonce reads n.
ExecuteBlockTx(x, t, n, miner, miningFee, id) ==
  IF ~SignatureValid(t, n) /\ id # 1 THEN Ended(x, "INVALID_SIGNATURE")
  ELSE UpdateLedger(x, t, miner, miningFee, id)

-----------------------------------------------------------------------------
(***************************************************************************)
(* Undoing.  Executor::Rollback withdraws every wallet's delta, wallet by  *)
(* wallet; the first wallet whose balance is smaller than its delta, taken *)
(* as an unsigned number, makes it throw and leaves the rest as it is.     *)
(***************************************************************************)
RollbackStops(L, deltas) ==
  {i \in DOMAIN WalletOrder :
     /\ HasWallet(deltas, WalletOrder[i])
     /\ ~CanWithdraw(L, WalletOrder[i], deltas[WalletOrder[i]])}

\* The wallets restored before Rollback returns or throws.
RolledBack(L, deltas) ==
  {WalletOrder[i] : i \in {i \in DOMAIN WalletOrder :
     /\ HasWallet(deltas, WalletOrder[i])
     /\ \A j \in RollbackStops(L, deltas) : i < j}}

\* (Mutant: a record that is empty again is removed.)
RollbackDropsEmpty(L, deltas) ==
  [w \in Wallet |-> IF w \in RolledBack(L, deltas)
                    THEN IF L[w] = deltas[w] THEN Absent ELSE Minus(L[w], deltas[w])
                    ELSE L[w]]

Rollback(L, deltas) ==
  [w \in Wallet |-> IF w \in RolledBack(L, deltas) THEN Minus(L[w], deltas[w]) ELSE L[w]]

RollbackThrows(L, deltas) == RollbackStops(L, deltas) # {}

\* rollbackLedger undoes one transaction of a block that is popped.  It needs
\* a record for every wallet it touches.
RollbackWallets(t, miner) ==
  IF t.isFee THEN {t.to} ELSE {t.from, t.to} \cup IF t.fee > 0 THEN {miner} ELSE {}

\* (Mutant: the miner keeps the fee.)
RollbackLedgerKeepsFee(L, t, miner) ==
  IF t.isFee THEN RevertDeposit(L, t.to, t.amount)
  ELSE LET repaid == IF t.fee > 0 THEN RevertSend(L, t.from, t.fee) ELSE L
       IN  RevertSend(RevertDeposit(repaid, t.to, t.amount), t.from, t.amount)

RollbackLedger(L, t, miner) ==
  IF t.isFee THEN RevertDeposit(L, t.to, t.amount)
  ELSE LET unpaid == IF t.fee > 0
                     THEN RevertSend(RevertDeposit(L, miner, t.fee), t.from, t.fee)
                     ELSE L
       IN  RevertSend(RevertDeposit(unpaid, t.to, t.amount), t.from, t.amount)
=============================================================================
