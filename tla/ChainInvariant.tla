--------------------------- MODULE ChainInvariant ---------------------------
(***************************************************************************)
(* The inductive invariant behind the chain's safety properties: where a   *)
(* call has got to decides how memory, disk and the block in flight differ *)
(* from one another.                                                       *)
(***************************************************************************)
EXTENDS ChainProperties

\* The hash the next block has to name when h blocks are stored.
TipHash(h) == IF h = 0 THEN NullHash ELSE HashOf(blocks[h])

Writing == {"execute", "insert", "store", "work", "count"}
Popping == {"undo", "popWork", "popCount", "popIndex"}

\* The block in flight is a block, and the next transaction is one of its own.
CallOK ==
  /\ pc \in Writing \cup Popping => IsBlock(cur)
  /\ pc \in {"execute", "undo"} => pos \in 1 .. Len(cur.txs)

\* Memory against disk: they agree except while one is written after the other.
MemoryOK ==
  /\ pc \in {"idle", "execute", "rollback", "insert", "store", "work", "undo", "popWork"} =>
       numBlocks = storeCount /\ lastHash = TipHash(storeCount)
  /\ pc \in {"idle", "undo", "popWork", "popIndex"} => storeCount > 0
  /\ pc = "count" => numBlocks = storeCount + 1
  /\ pc = "popCount" => numBlocks = storeCount - 1 /\ numBlocks > 0
  /\ pc = "popIndex" => numBlocks = storeCount
  /\ pc = "clearLedger" => numBlocks = storeCount /\ storeCount <= 1
  /\ pc \in {"clearBlocks", "clearCounts"} =>
       numBlocks = 0 /\ storeCount <= 1 /\ lastHash = NullHash
  /\ pc = "clearTxdb" => numBlocks = 0 /\ storeCount = 0 /\ lastHash = NullHash
  /\ pc = "dead" => numBlocks = 0

\* The store is wiped only while it is cleared and once that was cut short.
LinkOK ==
  /\ Linked \/ Wiped
  /\ pc \notin {"clearCounts", "dead"} => Linked

\* The block in flight against the chain: it is the next block, or the last.
FlightOK ==
  /\ pc \in Writing => cur.id = storeCount + 1 /\ cur.prev = TipHash(storeCount)
  /\ pc \in {"work", "count"} => blocks[cur.id] = cur
  /\ pc \in {"undo", "popWork"} => storeCount > 1 /\ cur = blocks[storeCount]

\* In L, the first n transactions of b left a record for every wallet they name.
Recorded(L, b, n) ==
  \A i \in 1 .. n : \A w \in RollbackWallets(b.txs[i], MinerOf(b.txs)) : HasWallet(L, w)

\* Records outlive everything but resetChain, so what is executed can be undone.
RecordsOK ==
  /\ \A h \in 2 .. storeCount : Recorded(ledger, blocks[h], Len(blocks[h].txs))
  /\ pc = "execute" /\ cur.id > 1 => Recorded(ledger, cur, pos - 1)
  /\ pc \in {"insert", "store", "work", "count"} /\ cur.id > 1 =>
       Recorded(ledger, cur, Len(cur.txs))

\* Inductive: type correctness, the linked chain, and the relations above.
ChainInv == TypeOK /\ CallOK /\ LinkOK /\ MemoryOK /\ FlightOK /\ RecordsOK
=============================================================================
