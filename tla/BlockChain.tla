----------------------------- MODULE BlockChain -----------------------------
(***************************************************************************)
(* BlockChain of src/src/server with the three databases it keeps: the     *)
(* ledger, the transaction store and the block store.  Blocks are added    *)
(* and popped and transactions are verified by calls that write the        *)
(* databases one after the other; the module has one action per write, so  *)
(* the process may die between any two of them and start again from what   *)
(* is on disk.                                                             *)
(*                                                                         *)
(* One call is in flight at a time: the calls are those of a caller that   *)
(* does not hold BlockChain::lock, as the constructor, the tests and the   *)
(* loader make them.                                                       *)
(***************************************************************************)
EXTENDS Executor, Difficulty, FiniteSets

CONSTANTS
  Body,              \* the transaction vectors of the blocks that are offered
  BlockTime,         \* the time stamps blocks carry
  NetworkTime,       \* what HostManager::getNetworkTimestamp may answer
  FutureSlack,       \* how far a block may lie in the future, 120*60 s
  BlockDifficulty,   \* the difficulties blocks are offered with
  WorkOf,            \* the work of a block by its difficulty, 2^difficulty
  Genesis,           \* the block of genesis.json
  GenesisDifficulty, \* the difficulty resetChain sets, 16
  MiningFee,         \* getCurrentMiningFee, by height
  MaxBlockTxs,       \* MAX_TRANSACTIONS_PER_BLOCK
  MedianSpan,        \* blocks the median time is taken of, 10; even
  Lookback,          \* DIFFICULTY_LOOKBACK
  DesiredTime,       \* DESIRED_BLOCK_TIME_SEC
  WaivedHeights,     \* heights at which WaivedDifficulty is let through,
  WaivedDifficulty,  \*   536100..536200 and 27
  NullHash,          \* NULL_SHA256_HASH
  MaxHeight,         \* bound: no block is added above this height
  MaxCrashes,        \* bound: how often the process may die during a call
  CallsWhenTorn      \* bound: whether calls start after one was cut short

Height == 1 .. MaxHeight

\* What the block store has for a height without a block.
NoBlock == [id |-> 0]

ASSUME ChainAssumption ==
  /\ Body \subseteq Seq(Tx)
  /\ Lookback \in Nat \ {0} /\ DesiredTime \in Nat
  /\ MedianSpan \in Nat \ {0} /\ MedianSpan % 2 = 0
  /\ MaxHeight \in Nat \ {0, 1} /\ MaxCrashes \in Nat /\ CallsWhenTorn \in BOOLEAN
  /\ GenesisDifficulty \in Nat
  /\ BlockTime \subseteq Nat /\ BlockDifficulty \subseteq Nat
  /\ DOMAIN WorkOf = BlockDifficulty \cup {GenesisDifficulty}
  /\ \A d \in DOMAIN WorkOf : WorkOf[d] \in Nat
  /\ MiningFee \in [Height -> Amount]

\* What the constructor's resetChain relies on: genesis.json is a valid block 1.
ASSUME GenesisAssumption ==
  /\ Genesis.id = 1 /\ Genesis.prev = NullHash
  /\ Genesis.difficulty = GenesisDifficulty
  /\ Genesis.timestamp \in Nat
  /\ Genesis.txs \in Seq(Tx)
  /\ \E nonces \in [DOMAIN Genesis.txs -> Nonce] :
       ScanAccepts(Genesis.txs, 1, nonces, {}, MiningFee[1])

VARIABLES
  \* on disk
  ledger,      \* data/ledger: balances
  txdb,        \* data/txdb: the block a transaction key was last stored for, or 0
  blocks,      \* data/blocks: the block stored under each height
  index,       \* data/blocks: wallet and transaction key pairs
  storeCount,  \* data/blocks: BLOCK_COUNT, 0 when there is none
  storeWork,   \* data/blocks: TOTAL_WORK
  invalid,     \* invalid.json: the height and wallet of overdrawn transactions
  \* in memory
  numBlocks, totalWork, lastHash, difficulty,
  \* the call in flight
  pc,          \* what it does next, "idle" when there is none
  cur,         \* the block it adds or pops
  pos,         \* the transaction it has come to
  deltas,      \* the deltas Executor::Rollback would take back
  booting,     \* it is initChain's resetChain
  \* history
  torn,        \* a call was cut short by an exception or the process's death
  crashes      \* how often the process died during a call

disk   == <<ledger, txdb, blocks, index, storeCount, storeWork, invalid>>
memory == <<numBlocks, totalWork, lastHash, difficulty>>
call   == <<pc, cur, pos, deltas, booting>>
vars   == <<disk, memory, call, torn, crashes>>

-----------------------------------------------------------------------------
\* Block::getHash covers the Merkle root, which stands for the transactions.
HashOf(b) == <<b.txs, b.prev, b.difficulty, b.timestamp>>

\* The wallet index lists a transaction under both its wallets; the sender of a
\* fee is an uninitialised address, which is no one's.
Parties(t) == IF t.isFee THEN {t.to} ELSE {t.from, t.to}

\* (Mutant: only the recipient's history lists a transaction.)
IndexEntriesOfRecipient(b, nonces) ==
  {<<b.txs[i].to, TxKey(b.txs[i], nonces[i])>> : i \in DOMAIN b.txs}

IndexEntries(b, nonces) ==
  UNION {Parties(b.txs[i]) \X {TxKey(b.txs[i], nonces[i])} : i \in DOMAIN b.txs}

\* The median of an even number of time stamps: the mean of the middle two.
Median(time) ==
  LET Ranked(k) == CHOOSE i \in DOMAIN time :
                     /\ Cardinality({j \in DOMAIN time : time[j] < time[i]}) < k
                     /\ Cardinality({j \in DOMAIN time : time[j] <= time[i]}) >= k
      middle == MedianSpan \div 2
  IN  (time[Ranked(middle)] + time[Ranked(middle + 1)]) \div 2

\* The median time of the last MedianSpan of h blocks.
MedianTime(h) == Median([i \in (h - MedianSpan + 1) .. h |-> blocks[i].timestamp])

\* (Mutant: the time is measured one block too early.)
UpdatedDifficultyLate(S, h) ==
  IF h <= 2 * Lookback \/ h % Lookback # 0 THEN difficulty
  ELSE ComputeDifficulty(S[h].difficulty, S[h - 1].timestamp - S[h - 1 - Lookback].timestamp,
                         Lookback * DesiredTime)

\* updateDifficulty: what the difficulty becomes with h blocks stored as in S.
UpdatedDifficulty(S, h) ==
  IF h <= 2 * Lookback \/ h % Lookback # 0 THEN difficulty
  ELSE ComputeDifficulty(S[h].difficulty, S[h].timestamp - S[h - Lookback].timestamp,
                         Lookback * DesiredTime)

DifficultyAccepted(b) ==
  \/ b.difficulty = difficulty
  \/ b.id \in WaivedHeights /\ b.difficulty = WaivedDifficulty

\* (Mutant: the median leaves out the last block.)
TimeAcceptedLate(b, now) ==
  /\ b.timestamp <= now + FutureSlack
  /\ numBlocks > MedianSpan => b.timestamp >= MedianTime(numBlocks - 1)

TimeAccepted(b, now) ==
  /\ b.timestamp <= now + FutureSlack
  /\ numBlocks > MedianSpan => b.timestamp >= MedianTime(numBlocks)

\* (Mutant: the parent is not checked.)
AcceptedAnyParent(b, now) ==
  /\ Len(b.txs) <= MaxBlockTxs /\ b.id = numBlocks + 1 /\ DifficultyAccepted(b)
  /\ b.id # 1 => TimeAccepted(b, now)

\* addBlock's checks.  A block that fails one is turned away with no effect,
\* and so is one whose nonce or Merkle root does not verify: blocks are offered
\* here with both in order.  Checking the root sorts the transactions in place by
\* hash, and they are executed and stored in that order, so Body holds vectors as
\* they are once sorted.
Accepted(b, now) ==
  /\ Len(b.txs) <= MaxBlockTxs
  /\ b.id = numBlocks + 1
  /\ DifficultyAccepted(b)
  /\ b.prev = lastHash
  /\ b.id # 1 => TimeAccepted(b, now)

Stored == {k \in TxKeys : txdb[k] # 0}

\* Transaction counts of ledger.cpp: nothing ever increments a wallet's nonce.
WalletNonce(w) == 0

Return(to) ==
  /\ pc' = to
  /\ cur' = NoBlock /\ pos' = 0 /\ deltas' = EmptyLedger
  /\ booting' = FALSE

\* An exception or a refusal of the genesis block ends the process.
Back == IF numBlocks = 0 THEN "dead" ELSE "idle"

\* A call starts.
Idle == pc = "idle" /\ (torn => CallsWhenTorn)

Begin(b) ==
  /\ pc' = "execute" /\ cur' = b /\ pos' = 1 /\ deltas' = EmptyLedger

Init ==
  /\ ledger = EmptyLedger /\ invalid = {}
  /\ txdb = [k \in TxKeys |-> 0]
  /\ blocks = [h \in Height |-> NoBlock] /\ index = {}
  /\ storeCount = 0 /\ storeWork = 0
  /\ numBlocks = 0 /\ totalWork = 0 /\ lastHash = NullHash
  /\ difficulty = GenesisDifficulty
  /\ pc = "clearLedger" /\ cur = NoBlock /\ pos = 0 /\ deltas = EmptyLedger
  /\ booting = TRUE
  /\ torn = FALSE /\ crashes = 0

-----------------------------------------------------------------------------
(***************************************************************************)
(* Adding a block.                                                         *)
(***************************************************************************)
AddBlock ==
  /\ Idle
  /\ \E txs \in Body, id \in Height, prev \in {lastHash, NullHash},
        d \in BlockDifficulty, time \in BlockTime :
       LET b == [id |-> id, prev |-> prev, txs |-> txs, difficulty |-> d, timestamp |-> time]
       IN  /\ \E now \in NetworkTime : Accepted(b, now)
           /\ \E nonces \in [DOMAIN txs -> Nonce] :
                ScanAccepts(txs, id, nonces, Stored, MiningFee[id])
           /\ Begin(b)
  /\ UNCHANGED <<disk, memory, booting, torn, crashes>>

\* ExecuteBlock's second loop, one transaction at a time.
ExecuteNext ==
  /\ pc = "execute"
  /\ \E n \in Nonce :
       LET x == ExecuteBlockTx(Run(ledger, deltas, invalid), cur.txs[pos], n,
                               MinerOf(cur.txs), MiningFee[cur.id], cur.id)
       IN  /\ ledger' = x.ledger /\ invalid' = x.invalid
           /\ \/ /\ x.status = "SUCCESS"
                 /\ deltas' = x.deltas
                 /\ pc' = IF pos = Len(cur.txs) THEN "insert" ELSE "execute"
                 /\ pos' = IF pos = Len(cur.txs) THEN pos ELSE pos + 1
                 /\ UNCHANGED <<cur, booting, torn>>
              \/ /\ x.status = "THROWN"
                 /\ Return(Back)
                 /\ torn' = TRUE
              \/ /\ x.status \notin {"SUCCESS", "THROWN"}
                 /\ deltas' = x.deltas
                 /\ pc' = "rollback"
                 /\ UNCHANGED <<cur, pos, booting, torn>>
  /\ UNCHANGED <<txdb, blocks, index, storeCount, storeWork, memory, crashes>>

\* Executor::Rollback, of a block that failed and of a verified transaction.
TakeBack ==
  /\ pc = "rollback"
  /\ ledger' = Rollback(ledger, deltas)
  /\ torn' = (torn \/ RollbackThrows(ledger, deltas))
  /\ Return(Back)
  /\ UNCHANGED <<txdb, blocks, index, storeCount, storeWork, invalid, memory, crashes>>

\* (Mutant: BLOCK_COUNT is written before the block.)
InsertTransactionsCounts ==
  /\ pc = "insert"
  /\ storeCount' = cur.id
  /\ pc' = "store"
  /\ UNCHANGED <<ledger, txdb, blocks, index, storeWork, invalid, memory,
                 cur, pos, deltas, booting, torn, crashes>>

\* TransactionStore::insertTransaction, for each transaction of the block.
InsertTransactions ==
  /\ pc = "insert"
  /\ \E nonces \in [DOMAIN cur.txs -> Nonce] :
       LET keys == {TxKey(cur.txs[i], nonces[i]) : i \in DOMAIN cur.txs}
       IN  txdb' = [k \in TxKeys |-> IF k \in keys THEN cur.id ELSE txdb[k]]
  /\ pc' = "store"
  /\ UNCHANGED <<ledger, blocks, index, storeCount, storeWork, invalid, memory,
                 cur, pos, deltas, booting, torn, crashes>>

\* BlockStore::setBlock: the block under its height, and the wallet index.
SetBlock ==
  /\ pc = "store"
  /\ blocks' = [blocks EXCEPT ![cur.id] = cur]
  /\ \E nonces \in [DOMAIN cur.txs -> Nonce] :
       index' = index \cup IndexEntries(cur, nonces)
  /\ pc' = "work"
  /\ UNCHANGED <<ledger, txdb, storeCount, storeWork, invalid, memory,
                 cur, pos, deltas, booting, torn, crashes>>

AddWork ==
  /\ pc = "work"
  /\ numBlocks' = numBlocks + 1
  /\ totalWork' = totalWork + WorkOf[cur.difficulty]
  /\ storeWork' = totalWork'
  /\ pc' = "count"
  /\ UNCHANGED <<ledger, txdb, blocks, index, storeCount, invalid, lastHash, difficulty,
                 cur, pos, deltas, booting, torn, crashes>>

\* The block counts from here on.  initChain overrides the difficulty that
\* resetChain and its addBlock leave behind.
SetBlockCount ==
  /\ pc = "count"
  /\ storeCount' = numBlocks
  /\ lastHash' = HashOf(cur)
  /\ difficulty' = IF booting THEN MinDifficulty ELSE UpdatedDifficulty(blocks, numBlocks)
  /\ Return("idle")
  /\ UNCHANGED <<ledger, txdb, blocks, index, storeWork, invalid, numBlocks, totalWork,
                 torn, crashes>>

-----------------------------------------------------------------------------
(***************************************************************************)
(* Popping the last block; every caller stops at the genesis block.        *)
(***************************************************************************)
\* (Mutant: the genesis block is popped like any other.)
PopAnyBlock ==
  /\ Idle /\ numBlocks > 0
  /\ pc' = "undo"
  /\ cur' = blocks[numBlocks]
  /\ pos' = Len(cur'.txs)
  /\ UNCHANGED <<disk, memory, deltas, booting, torn, crashes>>

PopBlock ==
  /\ Idle /\ numBlocks > 1
  /\ pc' = "undo"
  /\ cur' = blocks[numBlocks]
  /\ pos' = Len(cur'.txs)
  /\ UNCHANGED <<disk, memory, deltas, booting, torn, crashes>>

\* (Mutant: the transaction store still lists what is undone.)
UndoNextKeepsKey ==
  /\ pc = "undo"
  /\ ledger' = RollbackLedger(ledger, cur.txs[pos], MinerOf(cur.txs))
  /\ pos' = pos - 1
  /\ pc' = IF pos = 1 THEN "popWork" ELSE "undo"
  /\ UNCHANGED <<txdb, blocks, index, storeCount, storeWork, invalid, memory,
                 cur, deltas, booting, torn, crashes>>

\* One iteration of Executor::RollbackBlock, last transaction first.
UndoNext ==
  /\ pc = "undo"
  /\ LET t == cur.txs[pos] IN
       /\ ledger' = RollbackLedger(ledger, t, MinerOf(cur.txs))
       /\ \E n \in Nonce :
            txdb' = IF t.isFee THEN txdb ELSE [txdb EXCEPT ![TxKey(t, n)] = 0]
  /\ pos' = pos - 1
  /\ pc' = IF pos = 1 THEN "popWork" ELSE "undo"
  /\ UNCHANGED <<blocks, index, storeCount, storeWork, invalid, memory,
                 cur, deltas, booting, torn, crashes>>

\* (Mutant: the current difficulty's work is taken.)
RemoveCurrentWork ==
  /\ pc = "popWork"
  /\ numBlocks' = numBlocks - 1
  /\ totalWork' = totalWork - WorkOf[difficulty]
  /\ storeWork' = totalWork'
  /\ pc' = "popCount"
  /\ UNCHANGED <<ledger, txdb, blocks, index, storeCount, invalid, lastHash, difficulty,
                 cur, pos, deltas, booting, torn, crashes>>

RemoveWork ==
  /\ pc = "popWork"
  /\ numBlocks' = numBlocks - 1
  /\ totalWork' = totalWork - WorkOf[cur.difficulty]
  /\ storeWork' = totalWork'
  /\ pc' = "popCount"
  /\ UNCHANGED <<ledger, txdb, blocks, index, storeCount, invalid, lastHash, difficulty,
                 cur, pos, deltas, booting, torn, crashes>>

PopBlockCount ==
  /\ pc = "popCount"
  /\ storeCount' = numBlocks
  /\ pc' = "popIndex"
  /\ UNCHANGED <<ledger, txdb, blocks, index, storeWork, invalid, memory,
                 cur, pos, deltas, booting, torn, crashes>>

\* (Mutant: lastHash still names the popped block.)
FinishPopStaleHash ==
  /\ pc = "popIndex"
  /\ \E nonces \in [DOMAIN cur.txs -> Nonce] : index' = index \ IndexEntries(cur, nonces)
  /\ difficulty' = UpdatedDifficulty(blocks, numBlocks)
  /\ Return(IF numBlocks > 1 THEN "idle" ELSE "clearLedger")
  /\ UNCHANGED <<ledger, txdb, blocks, storeCount, storeWork, invalid, numBlocks, totalWork,
                 lastHash, torn, crashes>>

\* removeBlockWalletTransactions, and what is left to do in memory; when only
\* the genesis block remains, everything is cleared and it is added again.
FinishPop ==
  /\ pc = "popIndex"
  /\ \E nonces \in [DOMAIN cur.txs -> Nonce] : index' = index \ IndexEntries(cur, nonces)
  /\ IF numBlocks > 1
     THEN /\ difficulty' = UpdatedDifficulty(blocks, numBlocks)
          /\ lastHash' = HashOf(blocks[numBlocks])
          /\ Return("idle")
     ELSE /\ Return("clearLedger")
          /\ UNCHANGED <<difficulty, lastHash>>
  /\ UNCHANGED <<ledger, txdb, blocks, storeCount, storeWork, invalid, numBlocks, totalWork,
                 torn, crashes>>

-----------------------------------------------------------------------------
(***************************************************************************)
(* resetChain: the three databases are cleared in turn and the genesis     *)
(* block is added.  A chain rebuilt like this owes nothing to earlier      *)
(* calls that were cut short.                                              *)
(***************************************************************************)
\* (Mutant: numBlocks is not reset.)
ClearLedgerKeepsCount ==
  /\ pc = "clearLedger"
  /\ difficulty' = GenesisDifficulty /\ totalWork' = 0 /\ lastHash' = NullHash
  /\ ledger' = EmptyLedger
  /\ pc' = "clearBlocks"
  /\ UNCHANGED <<txdb, blocks, index, storeCount, storeWork, invalid, numBlocks,
                 cur, pos, deltas, booting, torn, crashes>>

ClearLedger ==
  /\ pc = "clearLedger"
  /\ difficulty' = GenesisDifficulty /\ numBlocks' = 0 /\ totalWork' = 0
  /\ lastHash' = NullHash
  /\ ledger' = EmptyLedger
  /\ pc' = "clearBlocks"
  /\ UNCHANGED <<txdb, blocks, index, storeCount, storeWork, invalid,
                 cur, pos, deltas, booting, torn, crashes>>

\* DataStore::clear deletes key after key in their order: the blocks and the
\* wallet index are gone before BLOCK_COUNT and TOTAL_WORK are.
ClearBlocks ==
  /\ pc = "clearBlocks"
  /\ blocks' = [h \in Height |-> NoBlock] /\ index' = {}
  /\ pc' = "clearCounts"
  /\ UNCHANGED <<ledger, txdb, storeCount, storeWork, invalid, memory,
                 cur, pos, deltas, booting, torn, crashes>>

ClearCounts ==
  /\ pc = "clearCounts"
  /\ storeCount' = 0 /\ storeWork' = 0
  /\ pc' = "clearTxdb"
  /\ UNCHANGED <<ledger, txdb, blocks, index, invalid, memory,
                 cur, pos, deltas, booting, torn, crashes>>

ClearTxdb ==
  /\ pc = "clearTxdb"
  /\ txdb' = [k \in TxKeys |-> 0]
  /\ Begin(Genesis)
  /\ torn' = FALSE
  /\ UNCHANGED <<ledger, blocks, index, storeCount, storeWork, invalid, memory, booting, crashes>>

-----------------------------------------------------------------------------
(***************************************************************************)
(* verifyTransaction runs the transaction on the ledger itself, then takes *)
(* its deltas back.  A transaction it turns down before it has moved any   *)
(* money has no effect and is left out.                                    *)
(***************************************************************************)
VerifyTransaction ==
  /\ Idle
  /\ \E t \in Tx, n, m \in Nonce :
       LET x == ExecuteTransaction(ledger, invalid, t, m)
       IN  /\ ~t.isFee /\ SignatureValid(t, n) /\ n = WalletNonce(t.from)
           /\ ledger' = x.ledger
           /\ \/ x.status = "SUCCESS" /\ pc' = "rollback" /\ deltas' = x.deltas
                 /\ UNCHANGED torn
              \/ x.status = "THROWN" /\ torn' = TRUE
                 /\ UNCHANGED <<pc, deltas>>
  /\ UNCHANGED <<txdb, blocks, index, storeCount, storeWork, invalid, memory,
                 cur, pos, booting, crashes>>

-----------------------------------------------------------------------------
(***************************************************************************)
(* The process stops between calls or dies during one, and initChain runs  *)
(* on what is on disk.                                                     *)
(***************************************************************************)
Stop ==
  /\ pc \notin {"idle", "dead"} => crashes < MaxCrashes
  /\ crashes' = IF pc \in {"idle", "dead"} THEN crashes ELSE crashes + 1
  /\ torn' = (torn \/ pc # "idle")

LoadChain ==
  /\ storeCount > 0 /\ blocks[storeCount] # NoBlock
  /\ Stop
  /\ numBlocks' = storeCount /\ totalWork' = storeWork
  /\ lastHash' = HashOf(blocks[storeCount])
  /\ difficulty' = blocks[storeCount].difficulty
  /\ Return("idle")
  /\ UNCHANGED disk

\* getBlock throws when the last block is missing, and the process ends again.
StartFails ==
  /\ storeCount > 0 /\ blocks[storeCount] = NoBlock
  /\ Stop
  /\ numBlocks' = 0 /\ totalWork' = 0 /\ lastHash' = NullHash
  /\ Return("dead")
  /\ UNCHANGED <<disk, difficulty>>

StartChain ==
  /\ storeCount = 0
  /\ Stop
  /\ numBlocks' = 0 /\ totalWork' = 0 /\ lastHash' = NullHash
  /\ difficulty' = GenesisDifficulty
  /\ pc' = "clearLedger" /\ cur' = NoBlock /\ pos' = 0 /\ deltas' = EmptyLedger
  /\ booting' = TRUE
  /\ UNCHANGED disk

Next ==
  \/ AddBlock \/ ExecuteNext \/ TakeBack
  \/ InsertTransactions \/ SetBlock \/ AddWork \/ SetBlockCount
  \/ PopBlock \/ UndoNext \/ RemoveWork \/ PopBlockCount \/ FinishPop
  \/ ClearLedger \/ ClearBlocks \/ ClearCounts \/ ClearTxdb
  \/ VerifyTransaction
  \/ LoadChain \/ StartFails \/ StartChain

Spec == Init /\ [][Next]_vars
=============================================================================
