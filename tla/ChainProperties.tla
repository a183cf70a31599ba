-------------------------- MODULE ChainProperties --------------------------
(***************************************************************************)
(* What BlockChain is to guarantee, stated over its databases and memory.  *)
(***************************************************************************)
EXTENDS BlockChain

PcValues ==
  {"idle", "execute", "rollback", "insert", "store", "work", "count", "undo", "popWork",
   "popCount", "popIndex", "clearLedger", "clearBlocks", "clearCounts", "clearTxdb", "dead"}

IsBlock(b) ==
  /\ b.id \in Height
  /\ b.txs \in Seq(Tx) /\ Fees(b.txs) # {}
  /\ b.difficulty \in DOMAIN WorkOf
  /\ b.timestamp \in Nat

\* Type correctness: the databases, the memory and the call in flight hold
\* values of their C++ types.
TypeOK ==
  /\ ledger \in Ledgers /\ deltas \in Ledgers
  /\ txdb \in [TxKeys -> 0 .. MaxHeight]
  /\ DOMAIN blocks = Height
  /\ \A h \in Height : blocks[h] # NoBlock => IsBlock(blocks[h])
  /\ index \subseteq Wallet \X TxKeys
  /\ invalid \subseteq Nat \X Wallet
  /\ storeCount \in 0 .. MaxHeight /\ numBlocks \in 0 .. MaxHeight
  /\ storeWork \in Int /\ totalWork \in Int
  /\ pc \in PcValues
  /\ cur # NoBlock => IsBlock(cur) /\ pos \in 0 .. Len(cur.txs)
  /\ booting \in BOOLEAN /\ torn \in BOOLEAN /\ crashes \in 0 .. MaxCrashes

-----------------------------------------------------------------------------
\* Every block the block store counts is there under its height and names the
\* block below it by hash.
Linked ==
  \A h \in 1 .. storeCount :
    /\ blocks[h] # NoBlock
    /\ blocks[h].id = h
    /\ blocks[h].prev = IF h = 1 THEN NullHash ELSE HashOf(blocks[h - 1])

\* The block store has no block left but may still count the genesis block.
Wiped == storeCount <= 1 /\ \A h \in Height : blocks[h] = NoBlock

\* Whatever a crash interrupts, initChain and peers find one unbroken chain on
\* disk, except that a reset of the chain which dies in DataStore::clear leaves
\* a block store without blocks; a chain is never broken part way.
ChainLinked == Linked \/ Wiped

\* getBlock and getRaw are called by the request handlers without the lock, at
\* heights up to numBlocks: at every point of addBlock, popBlock and resetChain
\* the store has those blocks, although numBlocks runs ahead of BLOCK_COUNT.
TipReadable ==
  \A h \in 1 .. numBlocks : blocks[h] # NoBlock /\ blocks[h].id = h

\* lastHash, which the next block has to name, is the hash of the last block
\* whenever a call starts.
LastHashIsTip ==
  pc = "idle" => numBlocks = storeCount /\ numBlocks > 0 /\ lastHash = HashOf(blocks[numBlocks])

\* The blocks that are on disk and counted.
StoredChain ==
  IF storeCount > 0 /\ blocks[storeCount] = NoBlock THEN <<>>
  ELSE [h \in 1 .. storeCount |-> blocks[h]]

AtomicChain == INSTANCE AbstractChain WITH chain <- StoredChain

\* addBlock, popBlock, resetChain and initChain, with all their writes and
\* wherever the process dies, change the chain on disk as if at once: each step
\* is one of AbstractChain or leaves the chain alone.
ImplementsAtomicChain == AtomicChain!Spec

\* A block below the tip never changes: the block store replaces no block it
\* counts before and after a write, so a reorganisation pops what it replaces;
\* only a reset removes one, the genesis block.
CountedBlocksStay ==
  [][\A h \in Height : h <= storeCount /\ h <= storeCount' =>
       blocks'[h] = blocks[h] \/ (h = 1 /\ Wiped')]_vars

-----------------------------------------------------------------------------
\* The sum F[1] + ... + F[n].
Total(F, n) ==
  LET sum[i \in 0 .. n] == IF i = 0 THEN 0 ELSE sum[i - 1] + F[i] IN sum[n]

\* What transaction i of block b moves into wallet w, counted the way a reader
\* of the chain would: fees and genesis grants are minted, transfers are not.
Flow(b, i, w) ==
  LET t     == b.txs[i]
      In    == IF t.to = w THEN t.amount ELSE 0
      Mined == IF MinerOf(b.txs) = w THEN t.fee ELSE 0
      Out   == IF t.from = w THEN t.amount + t.fee ELSE 0
  IN  IF t.isFee \/ b.id = 1 THEN In ELSE In + Mined - Out

\* What the first k transactions of b, and the first n blocks, move into w.
FlowUpTo(b, k, w) == Total([i \in DOMAIN b.txs |-> Flow(b, i, w)], k)

ChainFlow(n, w) == Total([h \in 1 .. n |-> FlowUpTo(blocks[h], Len(blocks[h].txs), w)], n)

NetFlow(w) == ChainFlow(numBlocks, w)

\* Between calls every balance is what the transactions of the chain add up
\* to, however many blocks were added, refused and popped: execution, rollback
\* and undoing agree.  Calls that were cut short are excepted (see torn).
BalancesMatchChain ==
  pc = "idle" /\ ~torn => \A w \in Wallet : Balance(ledger, w) = NetFlow(w)

\* Undoing a block's transactions finds a record for every wallet: Ledger's
\* getWalletValue does not throw out of RollbackBlock half way.
UndoFindsRecords ==
  pc = "undo" => \A w \in RollbackWallets(cur.txs[pos], MinerOf(cur.txs)) : HasWallet(ledger, w)

\* The work of the first n blocks.
ChainWork(n) == Total([h \in 1 .. n |-> WorkOf[blocks[h].difficulty]], n)

\* TOTAL_WORK is the work of the chain, on disk and in memory, as long as the
\* process did not die between the write of TOTAL_WORK and of BLOCK_COUNT.
WorkMatchesChain ==
  pc = "idle" /\ crashes = 0 => totalWork = ChainWork(numBlocks) /\ storeWork = totalWork

\* Every block of the chain is at least as late as the median of the blocks
\* before it, through pops, refusals and restarts.
MedianRespected ==
  pc = "idle" => \A h \in (MedianSpan + 2) .. numBlocks : blocks[h].timestamp >= MedianTime(h - 1)

\* A block changes the difficulty only at a multiple of DIFFICULTY_LOOKBACK, and
\* then away from its own difficulty in the direction that brings the block time
\* closer to DESIRED_BLOCK_TIME_SEC: down when blocks were slow, else up.
RetargetDirection ==
  [][SetBlockCount /\ ~booting /\ difficulty' # difficulty =>
       LET elapsed == cur.timestamp - blocks[numBlocks - Lookback].timestamp IN
       /\ numBlocks % Lookback = 0
       /\ IF elapsed > Lookback * DesiredTime THEN difficulty' <= cur.difficulty
                                              ELSE difficulty' >= cur.difficulty]_vars

-----------------------------------------------------------------------------
Payments == {t \in Tx : ~t.isFee}

\* The transactions of the chain, as pairs of a height and a position.
Entries == UNION {{h} \X DOMAIN blocks[h].txs : h \in 1 .. numBlocks}

TxAt(e) == blocks[e[1]].txs[e[2]]

PaymentEntries(t) == {e \in Entries : ~TxAt(e).isFee /\ Contents(TxAt(e)) = Contents(t)}

\* No payment is in two blocks: once a transaction is in the chain, its contents
\* are refused in every later block until it is popped.  A process that dies
\* while a block is written or popped leaves the transaction store and the block
\* store apart, here and in the next two properties.
NoReplay ==
  pc = "idle" /\ crashes = 0 =>
    \A t \in Payments : \A d, e \in PaymentEntries(t) : d[1] = e[1]

\* getTransactionStatus and blockForTransaction answer from the transaction
\* store: for a payment they name the block it is in, and none if it is in none.
PaymentStatus ==
  pc = "idle" /\ crashes = 0 => \A t \in Payments, n \in Nonce :
    LET at == {e[1] : e \in PaymentEntries(t)} IN
    IF at = {} THEN txdb[TxKey(t, n)] = 0 ELSE txdb[TxKey(t, n)] \in at

\* getTransactionsForWallet, which joins the index, the transaction store and
\* the block store, lists exactly the payments of the chain the wallet is part of.
WalletHistory(w) ==
  {k \in TxKeys : /\ <<w, k>> \in index /\ txdb[k] > 0
                  /\ \E i \in DOMAIN blocks[txdb[k]].txs, n \in Nonce :
                       TxKey(blocks[txdb[k]].txs[i], n) = k}

HistoryMatchesChain ==
  pc = "idle" /\ crashes = 0 => \A w \in Wallet, t \in Payments, n \in Nonce :
    TxKey(t, n) \in WalletHistory(w) <=> w \in Parties(t) /\ PaymentEntries(t) # {}

\* API.md: a transaction whose status is IN_CHAIN is written to the chain,
\* mining fees included.
StatusInChain ==
  pc = "idle" => \A t \in Tx, n \in Nonce :
    txdb[TxKey(t, n)] # 0 => \E e \in Entries : Contents(TxAt(e)) = Contents(t)

\* The difficulty of a chain with only the genesis block is MIN_DIFFICULTY.
PufferfishFromBlockOne ==
  pc = "idle" /\ numBlocks = 1 => difficulty = MinDifficulty

\* addBlock: "Rollback on failure", verifyTransaction: "Rollback changes".  A
\* block that fails while its transactions are executed, and a question whether
\* a transaction could be, leave every balance as it was.
RollsBack == [][TakeBack => \A w \in Wallet : Balance(ledger', w) = NetFlow(w)]_vars

\* Balance operations are atomic: a process that dies while a block is executed
\* finds the balances of its chain when it starts again.
BalancesSurviveCrash ==
  [][LoadChain /\ ~torn /\ cur # NoBlock => \A w \in Wallet : Balance(ledger, w) = NetFlow(w)']_vars
=============================================================================
