---------------------------- MODULE ChainContents ----------------------------
(***************************************************************************)
(* The inductive invariants behind what the chain's databases say about    *)
(* its blocks: their times, their work, the payments in them and the money *)
(* they move.  Each goes with ChainInv and says, for every point of a      *)
(* call, how a database differs from what the blocks add up to.            *)
(***************************************************************************)
EXTENDS ChainInvariant

Clearing == {"clearLedger", "clearBlocks", "clearCounts", "clearTxdb"}

\* No call was cut short by the process's death, and none is clearing databases.
Intact == crashes = 0 /\ pc \notin Clearing \cup {"dead"}

\* The blocks that no call in flight is adding or taking away.
Settled == IF pc \in {"undo", "popWork", "popCount"} THEN storeCount - 1 ELSE storeCount

-----------------------------------------------------------------------------
\* The block in flight was let through against the blocks below it.
TimesOK ==
  /\ \A h \in (MedianSpan + 2) .. storeCount : blocks[h].timestamp >= MedianTime(h - 1)
  /\ pc \in Writing /\ cur.id > MedianSpan + 1 => cur.timestamp >= MedianTime(cur.id - 1)

\* Work moves together with numBlocks, and a reset takes both back to nothing.
WorkOK ==
  /\ Intact => totalWork = ChainWork(numBlocks) /\ storeWork = totalWork
  /\ crashes = 0 =>
       /\ pc \in Clearing \ {"clearLedger"} => totalWork = 0
       /\ pc = "clearTxdb" => storeWork = 0
       /\ pc = "dead" => storeCount = 0

-----------------------------------------------------------------------------
\* Every copy of a transaction reads the same nonce: what TransactionStore and
\* the wallet index need for a key to find what another copy stored.
CopiesAgree == \A m, n \in Nonce : m = n

\* The keys of the transactions of b from position i on.
KeysFrom(b, i) == {TxKey(b.txs[j], n) : j \in {j \in DOMAIN b.txs : j >= i}, n \in Nonce}
Keys(b)        == KeysFrom(b, 1)

PaymentKeys == {TxKey(t, n) : t \in Payments, n \in Nonce}

\* The keys the transaction store holds for the block in flight.
KeysInFlight ==
  IF pc \in {"store", "work", "count"} THEN Keys(cur)
  ELSE IF pc = "undo" THEN Keys(cur) \ KeysFrom(cur, pos + 1)
  ELSE {}

\* The transaction store maps the payment with key k to the one settled block it
\* is in, or to the block in flight; those two never share a payment.
Placed(k) ==
  /\ \A h \in 1 .. Settled :
       k \in Keys(blocks[h]) => txdb[k] = h /\ (pc \in Writing \cup Popping => k \notin Keys(cur))
  /\ (\A h \in 1 .. Settled : k \notin Keys(blocks[h])) =>
       txdb[k] = IF k \in KeysInFlight THEN cur.id ELSE 0

PaymentsOK == CopiesAgree /\ Intact => \A k \in PaymentKeys : Placed(k)

\* The payments of b are listed under the wallets they concern.
Listed(b) ==
  \A i \in DOMAIN b.txs : ~b.txs[i].isFee =>
    \A w \in Parties(b.txs[i]), n \in Nonce : <<w, TxKey(b.txs[i], n)>> \in index

\* The index lists a payment only under its own wallets, and the payments of the
\* settled blocks under all of them.
IndexOK ==
  /\ \A t \in Tx, n \in Nonce, w \in Wallet : <<w, TxKey(t, n)>> \in index => w \in Parties(t)
  /\ CopiesAgree /\ Intact =>
       /\ \A h \in 1 .. Settled : Listed(blocks[h])
       /\ pc \in {"work", "count"} => Listed(cur)

-----------------------------------------------------------------------------
\* How many transactions of the block in flight the ledger has in it.
Executed ==
  IF pc = "execute" THEN pos - 1
  ELSE IF pc \in {"insert", "store", "work", "count"} THEN Len(cur.txs)
  ELSE IF pc = "undo" THEN pos
  ELSE 0

\* What they moved into w.
InFlight(w) == IF pc \in Writing \cup {"undo"} THEN FlowUpTo(cur, Executed, w) ELSE 0

\* Whatever part of it is executed, block h leaves w a balance that fits an
\* amount: executing it never wrapped around.
InRange(h, w) ==
  \A k \in 0 .. Len(blocks[h].txs) : ChainFlow(h - 1, w) + FlowUpTo(blocks[h], k, w) \in Amount

\* No call was cut short, and the databases are not being cleared.
Steady == ~torn /\ pc \notin Clearing \cup {"dead"}

\* The balance of w is the chain's flows and those of the transactions in flight;
\* the deltas are what separates it from the chain; and no balance on the way
\* here was out of range, so undoing meets the same balances on the way back.
Balanced(w) ==
  /\ \A h \in 1 .. storeCount : InRange(h, w)
  /\ ChainFlow(Settled, w) \in Amount
  /\ pc \in Writing => \A k \in 0 .. Executed :
                         ChainFlow(Settled, w) + FlowUpTo(cur, k, w) \in Amount
  /\ pc # "rollback" => Balance(ledger, w) = ChainFlow(Settled, w) + InFlight(w)
  /\ pc \in {"execute", "rollback"} =>
       Balance(deltas, w) = Minus(Balance(ledger, w), ChainFlow(Settled, w))

BalancesOK ==
  /\ pc \in Clearing \ {"clearLedger"} => ledger = EmptyLedger
  /\ Steady => \A w \in Wallet : Balanced(w)

\* Inductive: the chain's invariant and what its databases hold at every point.
ContentsInv == ChainInv /\ TimesOK /\ WorkOK /\ PaymentsOK /\ IndexOK /\ BalancesOK
=============================================================================
