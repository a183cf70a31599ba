---------------------------- MODULE ChainProofs ----------------------------
(***************************************************************************)
(* ChainInv is an invariant of BlockChain for every set of wallets and     *)
(* transactions, every chain height and any number of crashes, and with it *)
(* the safety properties that follow from it and the abstract chain that   *)
(* BlockChain implements.  One lemma per action says that the action       *)
(* preserves ChainInv.                                                     *)
(***************************************************************************)
EXTENDS ChainInvariant, ExecutorLemmas

-----------------------------------------------------------------------------
(***************************************************************************)
(* Blocks, keys and wallets have their types.                              *)
(***************************************************************************)

\* The bound on heights is a natural number past 1.
LEMMA Heights == MaxHeight \in Nat /\ MaxHeight > 1 /\ Height = 1 .. MaxHeight
BY ChainAssumption DEF Height

\* A block is not the answer for a height without one.
LEMMA BlockIsSome == \A b : IsBlock(b) => b # NoBlock /\ b.id \in Nat
<1>1. NoBlock.id = 0
  BY DEF NoBlock
<1>. QED  BY <1>1, Heights DEF IsBlock

\* The transactions of a block are transactions, and there are some.
LEMMA BlockTxs ==
  ASSUME NEW b, IsBlock(b)
  PROVE  /\ Len(b.txs) \in Nat /\ Len(b.txs) > 0
         /\ DOMAIN b.txs = 1 .. Len(b.txs)
         /\ \A i \in 1 .. Len(b.txs) : b.txs[i] \in Tx
         /\ MinerOf(b.txs) \in Wallet
<1>1. b.txs \in Seq(Tx)
  BY DEF IsBlock
<1>2. /\ Len(b.txs) \in Nat
      /\ DOMAIN b.txs = 1 .. Len(b.txs)
      /\ \A i \in 1 .. Len(b.txs) : b.txs[i] \in Tx
  BY <1>1
<1>. DEFINE f == CHOOSE i \in Fees(b.txs) : TRUE
<1>3. f \in Fees(b.txs)
  BY DEF IsBlock
<1>4. f \in DOMAIN b.txs
  BY <1>3 DEF Fees
<1>. HIDE DEF f
<1>5. b.txs[f] \in Tx /\ Len(b.txs) > 0
  BY <1>2, <1>4
<1>6. MinerOf(b.txs) = b.txs[f].to
  BY DEF MinerOf, TheFee, f
<1>. QED  BY <1>2, <1>5, <1>6, TxAssumption

\* genesis.json is a block.
LEMMA GenesisIsBlock == IsBlock(Genesis)
BY GenesisAssumption, ChainAssumption, Heights DEF IsBlock, ScanAccepts

\* A copy of a transaction has a key the transaction store knows.
LEMMA KeyType == \A t \in Tx, n \in Nonce : TxKey(t, n) \in TxKeys
BY DEF TxKeys

\* The wallets undoing a transaction touches are wallets.
LEMMA RollbackWalletsType ==
  \A t \in Tx, m \in Wallet : RollbackWallets(t, m) \subseteq Wallet
BY TxAssumption DEF RollbackWallets

\* The index pairs wallets with keys.
LEMMA IndexEntriesType ==
  ASSUME NEW b, IsBlock(b), NEW nonces \in [DOMAIN b.txs -> Nonce]
  PROVE  IndexEntries(b, nonces) \subseteq Wallet \X TxKeys
<1>1. ASSUME NEW i \in DOMAIN b.txs
      PROVE  Parties(b.txs[i]) \X {TxKey(b.txs[i], nonces[i])} \subseteq Wallet \X TxKeys
  <2>1. b.txs[i] \in Tx /\ nonces[i] \in Nonce
    BY BlockTxs
  <2>2. Parties(b.txs[i]) \subseteq Wallet
    BY <2>1, TxAssumption DEF Parties
  <2>. QED  BY <2>1, <2>2, KeyType
<1>. QED  BY <1>1 DEF IndexEntries

\* Records that are there stay there when the ledger grows.
LEMMA RecordedGrows ==
  ASSUME NEW L, NEW M, Grows(L, M), NEW b, IsBlock(b), NEW n \in Int, n <= Len(b.txs),
         Recorded(L, b, n)
  PROVE  Recorded(M, b, n)
<1>. SUFFICES ASSUME NEW i \in 1 .. n, NEW w \in RollbackWallets(b.txs[i], MinerOf(b.txs))
              PROVE  HasWallet(M, w)
  BY DEF Recorded
<1>1. b.txs[i] \in Tx /\ MinerOf(b.txs) \in Wallet
  BY BlockTxs
<1>2. w \in Wallet
  BY <1>1, RollbackWalletsType
<1>. QED  BY <1>2 DEF Recorded, Grows

\* A block of the chain, or in flight while pc says so, has its type.
LEMMA BlocksTyped ==
  ASSUME ChainInv
  PROVE  /\ \A h \in 1 .. storeCount : h \in Height /\ (Linked => IsBlock(blocks[h]))
         /\ pc \in Writing \cup Popping => IsBlock(cur)
<1>1. storeCount \in 0 .. MaxHeight
  BY DEF ChainInv, TypeOK
<1>2. \A h \in 1 .. storeCount : h \in Height
  BY <1>1, Heights
<1>. QED  BY <1>2 DEF ChainInv, TypeOK, Linked, CallOK

\* When a call only lets records be added, those of the chain's blocks stay.
LEMMA ChainRecordsGrow ==
  ASSUME ChainInv, NEW L, Grows(ledger, L)
  PROVE  \A h \in 2 .. storeCount : Recorded(L, blocks[h], Len(blocks[h].txs))
<1>. SUFFICES ASSUME NEW h \in 2 .. storeCount
              PROVE  Recorded(L, blocks[h], Len(blocks[h].txs))
  OBVIOUS
<1>0. h \in 1 .. storeCount
  BY DEF ChainInv, TypeOK
<1>1. IsBlock(blocks[h])
  <2>1. Linked
    BY Heights DEF ChainInv, TypeOK, LinkOK, Wiped
  <2>. QED  BY <1>0, <2>1, BlocksTyped
<1>2. Len(blocks[h].txs) \in Nat
  BY <1>1, BlockTxs
<1>3. Recorded(ledger, blocks[h], Len(blocks[h].txs))
  BY DEF ChainInv, RecordsOK
<1>. QED  BY <1>1, <1>2, <1>3, RecordedGrows

\* A step that leaves the block store alone leaves the chain in one piece.
LEMMA LinkKept ==
  ASSUME ChainInv, pc \notin {"clearCounts", "dead"}, UNCHANGED <<blocks, storeCount>>
  PROVE  LinkOK'
BY DEF ChainInv, LinkOK, Linked, Wiped

-----------------------------------------------------------------------------
(***************************************************************************)
(* Every action preserves the invariant.                                   *)
(***************************************************************************)

\* The chain starts out empty, on its way to be reset.
LEMMA InitEstablishes == Init => ChainInv
<1>. SUFFICES ASSUME Init  PROVE ChainInv
  OBVIOUS
<1>1. EmptyLedger \in Ledgers
  BY DEF EmptyLedger, Ledgers
<1>2. TypeOK
  <2>1. txdb \in [TxKeys -> 0 .. MaxHeight]
    BY Heights DEF Init
  <2>2. DOMAIN blocks = Height /\ \A h \in Height : blocks[h] = NoBlock
    BY DEF Init
  <2>3. booting \in BOOLEAN /\ torn \in BOOLEAN
    BY DEF Init
  <2>4. crashes \in 0 .. MaxCrashes /\ 0 \in 0 .. MaxHeight /\ 0 \in Int
    BY Heights, ChainAssumption DEF Init
  <2>. QED  BY <1>1, <2>1, <2>2, <2>3, <2>4 DEF Init, TypeOK, PcValues
<1>3. CallOK /\ MemoryOK /\ FlightOK
  BY DEF Init, CallOK, MemoryOK, FlightOK, Writing, Popping
<1>4. LinkOK /\ RecordsOK
  BY DEF Init, LinkOK, Linked, RecordsOK
<1>. QED  BY <1>2, <1>3, <1>4 DEF ChainInv

\* addBlock's checks let through the block that comes next.
LEMMA AddBlockKeeps ==
  ASSUME ChainInv, AddBlock
  PROVE  ChainInv'
<1>1. PICK b : IsBlock(b) /\ b.id = numBlocks + 1 /\ b.prev = lastHash /\ Begin(b)
  <2>1. PICK txs \in Body, id \in Height, prev \in {lastHash, NullHash},
             d \in BlockDifficulty, time \in BlockTime :
               LET c == [id |-> id, prev |-> prev, txs |-> txs, difficulty |-> d,
                         timestamp |-> time]
               IN  /\ \E now \in NetworkTime : Accepted(c, now)
                   /\ \E nonces \in [DOMAIN txs -> Nonce] :
                        ScanAccepts(txs, id, nonces, Stored, MiningFee[id])
                   /\ Begin(c)
    BY DEF AddBlock
  <2>. DEFINE c == [id |-> id, prev |-> prev, txs |-> txs, difficulty |-> d, timestamp |-> time]
  <2>2. c.id = id /\ c.prev = prev /\ c.txs = txs /\ c.difficulty = d /\ c.timestamp = time
    OBVIOUS
  <2>. HIDE DEF c
  <2>3. c.id = numBlocks + 1 /\ c.prev = lastHash
    BY <2>1 DEF Accepted, c
  <2>4. Fees(txs) # {}
    BY <2>1 DEF ScanAccepts
  <2>5. IsBlock(c)
    BY <2>2, <2>4, ChainAssumption DEF IsBlock
  <2>. QED  BY <2>1, <2>3, <2>5 DEF c
<1>2. /\ pc = "idle" /\ pc' = "execute" /\ cur' = b /\ pos' = 1 /\ deltas' = EmptyLedger
      /\ UNCHANGED <<ledger, txdb, blocks, index, storeCount, storeWork, invalid, numBlocks,
                     totalWork, lastHash, booting, torn, crashes>>
  BY <1>1 DEF AddBlock, Idle, Begin, disk, memory
<1>3. Len(b.txs) \in Nat /\ Len(b.txs) > 0
  BY <1>1, BlockTxs
<1>4. TypeOK'
  <2>1. EmptyLedger \in Ledgers
    BY DEF EmptyLedger, Ledgers
  <2>. QED  BY <1>1, <1>2, <1>3, <2>1 DEF ChainInv, TypeOK, PcValues
<1>5. CallOK'
  BY <1>1, <1>2, <1>3 DEF CallOK
<1>6. LinkOK'
  BY <1>2, LinkKept
<1>7. MemoryOK'
  BY <1>2 DEF ChainInv, MemoryOK, TipHash
<1>8. FlightOK'
  BY <1>1, <1>2 DEF ChainInv, MemoryOK, FlightOK, Popping, TipHash
<1>9. RecordsOK'
  BY <1>2 DEF ChainInv, RecordsOK, Recorded
<1>. QED  BY <1>4, <1>5, <1>6, <1>7, <1>8, <1>9 DEF ChainInv

\* A call that returns or throws leaves memory and disk in agreement.
LEMMA ReturnKeeps ==
  ASSUME ChainInv, Return(Back),
         pc \in {"idle", "execute", "rollback"},
         NEW L \in Ledgers, ledger' = L, Grows(ledger, L),
         NEW inv, invalid' = inv, inv \subseteq Nat \X Wallet,
         torn' \in BOOLEAN,
         UNCHANGED <<txdb, blocks, index, storeCount, storeWork, memory, crashes>>
  PROVE  ChainInv'
<1>1. /\ pc' = (IF numBlocks = 0 THEN "dead" ELSE "idle")
      /\ cur' = NoBlock /\ pos' = 0 /\ deltas' = EmptyLedger /\ booting' = FALSE
      /\ UNCHANGED <<txdb, blocks, index, storeCount, storeWork, numBlocks, totalWork,
                     lastHash, crashes>>
  BY DEF Return, Back, memory
<1>2. EmptyLedger \in Ledgers
  BY DEF EmptyLedger, Ledgers
<1>3. numBlocks \in Nat /\ numBlocks = storeCount /\ lastHash = TipHash(storeCount)
  BY Heights DEF ChainInv, TypeOK, MemoryOK
<1>4. TypeOK'
  BY <1>1, <1>2 DEF ChainInv, TypeOK, PcValues
<1>5. CallOK' /\ FlightOK'
  BY <1>1 DEF CallOK, FlightOK, Writing, Popping
<1>6. LinkOK'
  BY <1>1, LinkKept
<1>7. MemoryOK'
  BY <1>1, <1>3 DEF MemoryOK, TipHash
<1>8. RecordsOK'
  <2>1. \A h \in 2 .. storeCount : Recorded(L, blocks[h], Len(blocks[h].txs))
    BY ChainRecordsGrow
  <2>. QED  BY <1>1, <2>1 DEF RecordsOK, Recorded
<1>. QED  BY <1>4, <1>5, <1>6, <1>7, <1>8 DEF ChainInv

\* One more transaction is executed, or the call ends, or is to be rolled back.
LEMMA ExecuteNextKeeps ==
  ASSUME ChainInv, ExecuteNext
  PROVE  ChainInv'
<1>1. /\ pc = "execute" /\ IsBlock(cur) /\ pos \in 1 .. Len(cur.txs)
      /\ cur.id = storeCount + 1 /\ cur.prev = TipHash(storeCount)
      /\ numBlocks = storeCount /\ lastHash = TipHash(storeCount)
  BY DEF ChainInv, ExecuteNext, CallOK, FlightOK, MemoryOK, Writing
<1>2. /\ cur.txs[pos] \in Tx /\ MinerOf(cur.txs) \in Wallet /\ cur.id \in Nat
      /\ Len(cur.txs) \in Nat
  BY <1>1, BlockTxs, BlockIsSome
<1>. DEFINE start == Run(ledger, deltas, invalid)
            After(n) == ExecuteBlockTx(start, cur.txs[pos], n, MinerOf(cur.txs),
                                       MiningFee[cur.id], cur.id)
<1>3. IsRun(start) /\ start.ledger = ledger
  BY DEF Run, IsRun, ChainInv, TypeOK
<1>4. PICK n \in Nonce :
        /\ ledger' = After(n).ledger /\ invalid' = After(n).invalid
        /\ \/ /\ After(n).status = "SUCCESS"
              /\ deltas' = After(n).deltas
              /\ pc' = IF pos = Len(cur.txs) THEN "insert" ELSE "execute"
              /\ pos' = IF pos = Len(cur.txs) THEN pos ELSE pos + 1
              /\ UNCHANGED <<cur, booting, torn>>
           \/ Return(Back) /\ torn' = TRUE
           \/ /\ deltas' = After(n).deltas
              /\ pc' = "rollback"
              /\ UNCHANGED <<cur, pos, booting, torn>>
  BY DEF ExecuteNext
<1>. DEFINE x == After(n)
<1>5. /\ IsRun(x) /\ Grows(ledger, x.ledger)
      /\ x.status = "SUCCESS" /\ cur.id > 1 =>
           \A w \in RollbackWallets(cur.txs[pos], MinerOf(cur.txs)) : HasWallet(x.ledger, w)
  <2>. HIDE DEF start
  <2>. QED  BY <1>2, <1>3, ExecuteBlockTxFacts
<1>6. UNCHANGED <<txdb, blocks, index, storeCount, storeWork, numBlocks, totalWork, lastHash,
                  difficulty, crashes>>
  BY DEF ExecuteNext, memory
<1>7. ledger' = x.ledger /\ invalid' = x.invalid
  BY <1>4
<1>8. \/ /\ x.status = "SUCCESS" /\ pc' = "insert" /\ pos = Len(cur.txs)
         /\ deltas' = x.deltas /\ UNCHANGED <<pos, cur, booting, torn>>
      \/ /\ x.status = "SUCCESS" /\ pc' = "execute" /\ pos # Len(cur.txs) /\ pos' = pos + 1
         /\ deltas' = x.deltas /\ UNCHANGED <<cur, booting, torn>>
      \/ Return(Back) /\ torn' = TRUE
      \/ deltas' = x.deltas /\ pc' = "rollback" /\ UNCHANGED <<cur, pos, booting, torn>>
  BY <1>4
<1>. HIDE DEF After, start, x
<1>9. x.ledger \in Ledgers /\ x.deltas \in Ledgers /\ x.invalid \subseteq Nat \X Wallet
  BY <1>5 DEF IsRun
<1>10. \A h \in 2 .. storeCount : Recorded(x.ledger, blocks[h], Len(blocks[h].txs))
  BY <1>5, ChainRecordsGrow
<1>11. cur.id > 1 => Recorded(x.ledger, cur, pos - 1)
  <2>1. cur.id > 1 => Recorded(ledger, cur, pos - 1)
    BY <1>1 DEF ChainInv, RecordsOK
  <2>. QED  BY <1>1, <1>2, <1>5, <2>1, RecordedGrows
<1>12. x.status = "SUCCESS" /\ cur.id > 1 => Recorded(x.ledger, cur, pos)
  BY <1>1, <1>2, <1>5, <1>11 DEF Recorded
<1>13. CASE Return(Back)
  <2>1. torn' \in BOOLEAN
    BY <1>8 DEF ChainInv, TypeOK
  <2>. QED  BY <1>1, <1>5, <1>6, <1>7, <1>9, <1>13, <2>1, ReturnKeeps DEF memory
<1>14. CASE ~Return(Back)
  <2>1. /\ pc' \in {"insert", "execute", "rollback"}
        /\ deltas' = x.deltas /\ UNCHANGED <<cur, booting, torn>>
        /\ pos' \in 1 .. Len(cur.txs)
        /\ pc' = "insert" => x.status = "SUCCESS" /\ pos = Len(cur.txs)
        /\ pc' = "execute" => x.status = "SUCCESS" /\ pos' = pos + 1
    BY <1>1, <1>2, <1>8, <1>14
  <2>2. TypeOK'
    BY <1>1, <1>2, <1>6, <1>7, <1>9, <2>1 DEF ChainInv, TypeOK, PcValues
  <2>3. CallOK' /\ FlightOK'
    BY <1>1, <1>6, <2>1 DEF CallOK, FlightOK, Writing, Popping, TipHash
  <2>4. LinkOK'
    BY <1>1, <1>6, LinkKept
  <2>5. MemoryOK'
    BY <1>1, <1>6, <2>1 DEF MemoryOK, TipHash
  <2>6. RecordsOK'
    <3>1. pc' = "execute" => pos' - 1 = pos
      BY <1>1, <1>2, <2>1
    <3>2. pc' = "execute" /\ cur'.id > 1 => Recorded(ledger', cur', pos' - 1)
      BY <1>7, <1>12, <2>1, <3>1
    <3>3. pc' = "insert" /\ cur'.id > 1 => Recorded(ledger', cur', Len(cur'.txs))
      BY <1>7, <1>12, <2>1
    <3>4. \A h \in 2 .. storeCount' : Recorded(ledger', blocks'[h], Len(blocks'[h].txs))
      BY <1>6, <1>7, <1>10
    <3>. QED  BY <2>1, <3>2, <3>3, <3>4 DEF RecordsOK, Recorded
  <2>. QED  BY <2>2, <2>3, <2>4, <2>5, <2>6 DEF ChainInv
<1>. QED  BY <1>13, <1>14

\* What was executed is taken back.
LEMMA TakeBackKeeps ==
  ASSUME ChainInv, TakeBack
  PROVE  ChainInv'
<1>1. Rollback(ledger, deltas) \in Ledgers /\ Grows(ledger, Rollback(ledger, deltas))
  BY RollbackFacts DEF ChainInv, TypeOK
<1>2. torn' \in BOOLEAN /\ invalid' \subseteq Nat \X Wallet
  BY DEF TakeBack, ChainInv, TypeOK
<1>. QED  BY <1>1, <1>2, ReturnKeeps DEF TakeBack

\* The transaction store learns the block's transactions.
LEMMA InsertTransactionsKeeps ==
  ASSUME ChainInv, InsertTransactions
  PROVE  ChainInv'
<1>1. /\ pc = "insert" /\ pc' = "store"
      /\ UNCHANGED <<ledger, blocks, index, storeCount, storeWork, invalid, numBlocks,
                     totalWork, lastHash, cur, pos, deltas, booting, torn, crashes>>
  BY DEF InsertTransactions, memory
<1>2. cur.id \in 0 .. MaxHeight
  BY <1>1, Heights DEF ChainInv, CallOK, IsBlock, Writing
<1>3. txdb' \in [TxKeys -> 0 .. MaxHeight]
  <2>1. txdb \in [TxKeys -> 0 .. MaxHeight]
    BY DEF ChainInv, TypeOK
  <2>2. \E S : txdb' = [k \in TxKeys |-> IF k \in S THEN cur.id ELSE txdb[k]]
    BY DEF InsertTransactions
  <2>. QED  BY <1>2, <2>1, <2>2
<1>4. TypeOK'
  BY <1>1, <1>3 DEF ChainInv, TypeOK, PcValues
<1>5. LinkOK'
  BY <1>1, LinkKept
<1>6. CallOK' /\ MemoryOK' /\ FlightOK'
  BY <1>1 DEF ChainInv, CallOK, MemoryOK, FlightOK, TipHash, Writing, Popping
<1>7. RecordsOK'
  BY <1>1 DEF ChainInv, RecordsOK, Recorded
<1>. QED  BY <1>4, <1>5, <1>6, <1>7 DEF ChainInv

\* The block store takes the block, above every block it counts.
LEMMA SetBlockKeeps ==
  ASSUME ChainInv, SetBlock
  PROVE  ChainInv'
<1>1. /\ pc = "store" /\ pc' = "work" /\ IsBlock(cur) /\ blocks' = [blocks EXCEPT ![cur.id] = cur]
      /\ UNCHANGED <<ledger, txdb, storeCount, storeWork, invalid, numBlocks,
                     totalWork, lastHash, cur, pos, deltas, booting, torn, crashes>>
  BY DEF SetBlock, memory, ChainInv, CallOK, Writing
<1>2. /\ cur.id = storeCount + 1 /\ storeCount \in Nat /\ cur.id \in Height
      /\ DOMAIN blocks = Height
  BY <1>1, Heights DEF ChainInv, FlightOK, TypeOK, Writing, IsBlock
<1>3. /\ DOMAIN blocks' = Height /\ blocks'[cur.id] = cur
      /\ \A h \in Height \ {cur.id} : blocks'[h] = blocks[h]
  BY <1>1, <1>2
<1>4. \A h \in 1 .. storeCount : h \in Height /\ blocks'[h] = blocks[h]
  BY <1>2, <1>3, BlocksTyped
<1>5. index' \subseteq Wallet \X TxKeys
  <2>1. PICK nonces \in [DOMAIN cur.txs -> Nonce] : index' = index \cup IndexEntries(cur, nonces)
    BY DEF SetBlock
  <2>2. index \subseteq Wallet \X TxKeys
    BY DEF ChainInv, TypeOK
  <2>. QED  BY <1>1, <2>1, <2>2, IndexEntriesType
<1>6. TypeOK'
  BY <1>1, <1>2, <1>3, <1>5 DEF ChainInv, TypeOK, PcValues
<1>7. LinkOK'
  <2>1. \A h \in 1 .. storeCount : h # 1 => h - 1 \in 1 .. storeCount
    BY <1>2
  <2>. QED  BY <1>1, <1>4, <2>1 DEF ChainInv, LinkOK, Linked
<1>8. TipHash(storeCount)' = TipHash(storeCount)
  BY <1>1, <1>2, <1>4 DEF TipHash
<1>9. CallOK' /\ MemoryOK'
  BY <1>1, <1>8 DEF ChainInv, CallOK, MemoryOK, Writing, Popping
<1>10. FlightOK'
  BY <1>1, <1>3, <1>8 DEF ChainInv, FlightOK, Writing, Popping
<1>11. RecordsOK'
  <2>1. \A h \in 2 .. storeCount : h \in 1 .. storeCount
    BY <1>2
  <2>. QED  BY <1>1, <1>4, <2>1 DEF ChainInv, RecordsOK, Recorded
<1>. QED  BY <1>6, <1>7, <1>9, <1>10, <1>11 DEF ChainInv

\* TOTAL_WORK is written, and numBlocks runs ahead of the store.
LEMMA AddWorkKeeps ==
  ASSUME ChainInv, AddWork
  PROVE  ChainInv'
<1>1. /\ pc = "work" /\ pc' = "count" /\ IsBlock(cur)
      /\ numBlocks' = numBlocks + 1 /\ totalWork' = totalWork + WorkOf[cur.difficulty]
      /\ storeWork' = totalWork'
      /\ UNCHANGED <<ledger, txdb, blocks, index, storeCount, invalid, lastHash,
                     cur, pos, deltas, booting, torn, crashes>>
  BY DEF AddWork, ChainInv, CallOK, Writing
<1>2. cur.id = storeCount + 1 /\ numBlocks = storeCount /\ cur.id \in 0 .. MaxHeight
  BY <1>1, Heights DEF ChainInv, FlightOK, MemoryOK, IsBlock, Writing
<1>3. WorkOf[cur.difficulty] \in Nat
  BY <1>1, ChainAssumption DEF IsBlock
<1>4. TypeOK'
  BY <1>1, <1>2, <1>3 DEF ChainInv, TypeOK, PcValues
<1>5. LinkOK'
  BY <1>1, LinkKept
<1>6. CallOK' /\ MemoryOK' /\ FlightOK'
  BY <1>1, <1>2 DEF ChainInv, CallOK, MemoryOK, FlightOK, TipHash, Writing, Popping
<1>7. RecordsOK'
  BY <1>1 DEF ChainInv, RecordsOK, Recorded
<1>. QED  BY <1>4, <1>5, <1>6, <1>7 DEF ChainInv

\* BLOCK_COUNT is written, and the block in flight is the last of the chain.
LEMMA SetBlockCountKeeps ==
  ASSUME ChainInv, SetBlockCount
  PROVE  ChainInv'
<1>1. /\ pc = "count" /\ pc' = "idle" /\ IsBlock(cur)
      /\ storeCount' = numBlocks /\ lastHash' = HashOf(cur)
      /\ cur' = NoBlock /\ pos' = 0 /\ deltas' = EmptyLedger /\ booting' = FALSE
      /\ UNCHANGED <<ledger, txdb, blocks, index, storeWork, invalid, numBlocks, totalWork,
                     torn, crashes>>
  BY DEF SetBlockCount, Return, ChainInv, CallOK, Writing
<1>2. /\ cur.id = storeCount + 1 /\ numBlocks = storeCount + 1 /\ storeCount \in Nat
      /\ blocks[storeCount + 1] = cur /\ cur.prev = TipHash(storeCount)
  BY <1>1, Heights DEF ChainInv, FlightOK, MemoryOK, TypeOK, Writing
<1>3. TypeOK'
  <2>1. EmptyLedger \in Ledgers
    BY DEF EmptyLedger, Ledgers
  <2>. QED  BY <1>1, <2>1 DEF ChainInv, TypeOK, PcValues
<1>4. LinkOK'
  <2>1. \A h \in 1 .. storeCount' : h \in 1 .. storeCount \/ h = storeCount + 1
    BY <1>1, <1>2
  <2>2. \A h \in 1 .. storeCount :
          /\ blocks[h] # NoBlock /\ blocks[h].id = h
          /\ blocks[h].prev = IF h = 1 THEN NullHash ELSE HashOf(blocks[h - 1])
    BY <1>1 DEF ChainInv, LinkOK, Linked
  <2>3. /\ cur # NoBlock
        /\ cur.prev = IF storeCount + 1 = 1 THEN NullHash ELSE HashOf(blocks[storeCount + 1 - 1])
    BY <1>1, <1>2, BlockIsSome DEF TipHash
  <2>. QED  BY <1>1, <1>2, <2>1, <2>2, <2>3 DEF LinkOK, Linked
<1>5. CallOK' /\ FlightOK'
  BY <1>1 DEF CallOK, FlightOK, Writing, Popping
<1>6. MemoryOK'
  BY <1>1, <1>2 DEF MemoryOK, TipHash
<1>7. RecordsOK'
  <2>1. \A h \in 2 .. storeCount' : h \in 2 .. storeCount \/ (h = storeCount + 1 /\ cur.id > 1)
    BY <1>1, <1>2
  <2>2. \A h \in 2 .. storeCount' : Recorded(ledger, blocks[h], Len(blocks[h].txs))
    BY <1>1, <1>2, <2>1 DEF ChainInv, RecordsOK
  <2>. QED  BY <1>1, <2>2 DEF RecordsOK, Recorded
<1>. QED  BY <1>3, <1>4, <1>5, <1>6, <1>7 DEF ChainInv

\* popBlock takes up the last block.
LEMMA PopBlockKeeps ==
  ASSUME ChainInv, PopBlock
  PROVE  ChainInv'
<1>1. /\ pc = "idle" /\ pc' = "undo" /\ numBlocks > 1 /\ cur' = blocks[numBlocks]
      /\ pos' = Len(cur'.txs)
      /\ UNCHANGED <<ledger, txdb, blocks, index, storeCount, storeWork, invalid, numBlocks,
                     totalWork, lastHash, deltas, booting, torn, crashes>>
  BY DEF PopBlock, Idle, disk, memory
<1>2. numBlocks = storeCount /\ numBlocks \in 1 .. storeCount
  BY <1>1, Heights DEF ChainInv, MemoryOK, TypeOK
<1>3. IsBlock(cur')
  BY <1>1, <1>2, BlocksTyped DEF ChainInv, LinkOK
<1>4. pos' \in 1 .. Len(cur'.txs) /\ pos' \in 0 .. Len(cur'.txs)
  BY <1>1, <1>3, BlockTxs
<1>5. TypeOK'
  BY <1>1, <1>3, <1>4 DEF ChainInv, TypeOK, PcValues
<1>6. LinkOK'
  BY <1>1, LinkKept
<1>7. CallOK' /\ MemoryOK' /\ FlightOK'
  BY <1>1, <1>2, <1>3, <1>4
     DEF ChainInv, CallOK, MemoryOK, FlightOK, TipHash, Writing, Popping
<1>8. RecordsOK'
  BY <1>1 DEF ChainInv, RecordsOK, Recorded
<1>. QED  BY <1>5, <1>6, <1>7, <1>8 DEF ChainInv

\* A transaction of the last block is undone, from records it left.
LEMMA UndoNextKeeps ==
  ASSUME ChainInv, UndoNext
  PROVE  ChainInv'
<1>. DEFINE t == cur.txs[pos]
            miner == MinerOf(cur.txs)
<1>1. /\ pc = "undo" /\ IsBlock(cur) /\ pos \in 1 .. Len(cur.txs)
      /\ ledger' = RollbackLedger(ledger, t, miner)
      /\ pos' = pos - 1 /\ pc' = IF pos = 1 THEN "popWork" ELSE "undo"
      /\ UNCHANGED <<blocks, index, storeCount, storeWork, invalid, numBlocks, totalWork,
                     lastHash, cur, deltas, booting, torn, crashes>>
  BY DEF UndoNext, memory, ChainInv, CallOK, Popping
<1>2. t \in Tx /\ miner \in Wallet /\ Len(cur.txs) \in Nat
  BY <1>1, BlockTxs
<1>3. storeCount > 1 /\ cur = blocks[storeCount] /\ storeCount \in 2 .. storeCount
  BY <1>1, Heights DEF ChainInv, FlightOK, TypeOK
<1>4. \A w \in RollbackWallets(t, miner) : HasWallet(ledger, w)
  BY <1>1, <1>3 DEF ChainInv, RecordsOK, Recorded
<1>5. ledger' \in Ledgers /\ Grows(ledger, ledger')
  BY <1>1, <1>2, <1>4, RollbackLedgerFacts DEF ChainInv, TypeOK
<1>6. txdb' \in [TxKeys -> 0 .. MaxHeight]
  <2>1. txdb \in [TxKeys -> 0 .. MaxHeight] /\ 0 \in 0 .. MaxHeight
    BY Heights DEF ChainInv, TypeOK
  <2>2. \/ txdb' = txdb
        \/ \E n \in Nonce : txdb' = [txdb EXCEPT ![TxKey(t, n)] = 0]
    BY DEF UndoNext
  <2>. QED  BY <2>1, <2>2
<1>7. /\ pos' \in 0 .. Len(cur.txs)
      /\ pc' = "undo" => pos' \in 1 .. Len(cur.txs)
      /\ pc' \in {"popWork", "undo"}
  BY <1>1, <1>2
<1>. HIDE DEF t, miner
<1>8. TypeOK'
  BY <1>1, <1>5, <1>6, <1>7 DEF ChainInv, TypeOK, PcValues
<1>9. LinkOK'
  BY <1>1, LinkKept
<1>10. CallOK' /\ MemoryOK' /\ FlightOK'
  BY <1>1, <1>3, <1>7 DEF ChainInv, CallOK, MemoryOK, FlightOK, TipHash, Writing, Popping
<1>11. RecordsOK'
  <2>1. \A h \in 2 .. storeCount : Recorded(ledger', blocks[h], Len(blocks[h].txs))
    BY <1>5, ChainRecordsGrow
  <2>. QED  BY <1>1, <1>7, <2>1 DEF RecordsOK, Recorded
<1>. QED  BY <1>8, <1>9, <1>10, <1>11 DEF ChainInv

\* TOTAL_WORK is written, and numBlocks falls behind the store.
LEMMA RemoveWorkKeeps ==
  ASSUME ChainInv, RemoveWork
  PROVE  ChainInv'
<1>1. /\ pc = "popWork" /\ pc' = "popCount" /\ IsBlock(cur)
      /\ numBlocks' = numBlocks - 1 /\ totalWork' = totalWork - WorkOf[cur.difficulty]
      /\ storeWork' = totalWork'
      /\ UNCHANGED <<ledger, txdb, blocks, index, storeCount, invalid, lastHash,
                     cur, pos, deltas, booting, torn, crashes>>
  BY DEF RemoveWork, ChainInv, CallOK, Popping
<1>2. numBlocks = storeCount /\ storeCount > 1 /\ storeCount \in Nat
  BY <1>1, Heights DEF ChainInv, FlightOK, MemoryOK, TypeOK
<1>3. WorkOf[cur.difficulty] \in Nat
  BY <1>1, ChainAssumption DEF IsBlock
<1>4. TypeOK'
  BY <1>1, <1>2, <1>3, Heights DEF ChainInv, TypeOK, PcValues
<1>5. LinkOK'
  BY <1>1, LinkKept
<1>6. CallOK' /\ MemoryOK' /\ FlightOK'
  BY <1>1, <1>2 DEF ChainInv, CallOK, MemoryOK, FlightOK, TipHash, Writing, Popping
<1>7. RecordsOK'
  BY <1>1 DEF ChainInv, RecordsOK, Recorded
<1>. QED  BY <1>4, <1>5, <1>6, <1>7 DEF ChainInv

\* BLOCK_COUNT is written: the chain is one block shorter.
LEMMA PopBlockCountKeeps ==
  ASSUME ChainInv, PopBlockCount
  PROVE  ChainInv'
<1>1. /\ pc = "popCount" /\ pc' = "popIndex" /\ storeCount' = numBlocks
      /\ UNCHANGED <<ledger, txdb, blocks, index, storeWork, invalid, numBlocks, totalWork,
                     lastHash, cur, pos, deltas, booting, torn, crashes>>
  BY DEF PopBlockCount, memory
<1>2. numBlocks = storeCount - 1 /\ numBlocks > 0 /\ storeCount \in Nat
  BY <1>1, Heights DEF ChainInv, MemoryOK, TypeOK
<1>3. TypeOK'
  BY <1>1 DEF ChainInv, TypeOK, PcValues
<1>4. \A h \in 1 .. storeCount' : h \in 1 .. storeCount
  BY <1>1, <1>2
<1>5. LinkOK'
  BY <1>1, <1>4 DEF ChainInv, LinkOK, Linked
<1>6. CallOK' /\ MemoryOK' /\ FlightOK'
  BY <1>1, <1>2 DEF ChainInv, CallOK, MemoryOK, FlightOK, Writing, Popping
<1>7. RecordsOK'
  <2>1. \A h \in 2 .. storeCount' : h \in 2 .. storeCount
    BY <1>1, <1>2
  <2>. QED  BY <1>1, <2>1 DEF ChainInv, RecordsOK, Recorded
<1>. QED  BY <1>3, <1>5, <1>6, <1>7 DEF ChainInv

\* The wallet index forgets the block, and memory catches up with the store.
LEMMA FinishPopKeeps ==
  ASSUME ChainInv, FinishPop
  PROVE  ChainInv'
<1>1. /\ pc = "popIndex" /\ IsBlock(cur)
      /\ \/ numBlocks > 1 /\ pc' = "idle" /\ lastHash' = HashOf(blocks[numBlocks])
         \/ ~(numBlocks > 1) /\ pc' = "clearLedger"
      /\ cur' = NoBlock /\ pos' = 0 /\ deltas' = EmptyLedger /\ booting' = FALSE
      /\ UNCHANGED <<ledger, txdb, blocks, storeCount, storeWork, invalid, numBlocks,
                     totalWork, torn, crashes>>
  BY DEF FinishPop, Return, ChainInv, CallOK, Popping
<1>2. numBlocks = storeCount /\ storeCount > 0 /\ storeCount \in Nat
  BY <1>1, Heights DEF ChainInv, MemoryOK, TypeOK
<1>3. index' \subseteq Wallet \X TxKeys
  <2>1. index' \subseteq index
    BY DEF FinishPop
  <2>. QED  BY <2>1 DEF ChainInv, TypeOK
<1>4. TypeOK'
  <2>1. EmptyLedger \in Ledgers
    BY DEF EmptyLedger, Ledgers
  <2>. QED  BY <1>1, <1>3, <2>1 DEF ChainInv, TypeOK, PcValues
<1>5. LinkOK'
  BY <1>1, LinkKept
<1>6. CallOK' /\ MemoryOK' /\ FlightOK'
  BY <1>1, <1>2 DEF CallOK, MemoryOK, FlightOK, TipHash, Writing, Popping
<1>7. RecordsOK'
  BY <1>1 DEF ChainInv, RecordsOK, Recorded
<1>. QED  BY <1>4, <1>5, <1>6, <1>7 DEF ChainInv

\* resetChain empties the ledger first.
LEMMA ClearLedgerKeeps ==
  ASSUME ChainInv, ClearLedger
  PROVE  ChainInv'
<1>1. /\ pc = "clearLedger" /\ pc' = "clearBlocks" /\ numBlocks' = 0 /\ totalWork' = 0
      /\ lastHash' = NullHash /\ ledger' = EmptyLedger
      /\ UNCHANGED <<txdb, blocks, index, storeCount, storeWork, invalid,
                     cur, pos, deltas, booting, torn, crashes>>
  BY DEF ClearLedger
<1>2. storeCount <= 1 /\ storeCount \in Nat
  BY <1>1, Heights DEF ChainInv, MemoryOK, TypeOK
<1>3. TypeOK'
  <2>1. EmptyLedger \in Ledgers /\ 0 \in 0 .. MaxHeight /\ 0 \in Int
    BY Heights DEF EmptyLedger, Ledgers
  <2>. QED  BY <1>1, <2>1 DEF ChainInv, TypeOK, PcValues
<1>4. LinkOK'
  BY <1>1, LinkKept
<1>5. CallOK' /\ MemoryOK' /\ FlightOK'
  BY <1>1, <1>2 DEF CallOK, MemoryOK, FlightOK, Writing, Popping
<1>6. RecordsOK'
  <2>1. 2 .. storeCount = {}
    BY <1>2
  <2>. QED  BY <1>1, <2>1 DEF RecordsOK
<1>. QED  BY <1>3, <1>4, <1>5, <1>6 DEF ChainInv

\* Then the blocks; the store may still count the genesis block.
LEMMA ClearBlocksKeeps ==
  ASSUME ChainInv, ClearBlocks
  PROVE  ChainInv'
<1>1. /\ pc = "clearBlocks" /\ pc' = "clearCounts"
      /\ blocks' = [h \in Height |-> NoBlock] /\ index' = {}
      /\ UNCHANGED <<ledger, txdb, storeCount, storeWork, invalid, numBlocks, totalWork,
                     lastHash, cur, pos, deltas, booting, torn, crashes>>
  BY DEF ClearBlocks, memory
<1>2. storeCount <= 1 /\ storeCount \in Nat
  BY <1>1, Heights DEF ChainInv, MemoryOK, TypeOK
<1>3. DOMAIN blocks' = Height /\ \A h \in Height : blocks'[h] = NoBlock
  BY <1>1
<1>4. TypeOK'
  <2>1. index' \subseteq Wallet \X TxKeys
    BY <1>1
  <2>. QED  BY <1>1, <1>3, <2>1 DEF ChainInv, TypeOK, PcValues
<1>5. LinkOK'
  BY <1>1, <1>2, <1>3 DEF LinkOK, Wiped
<1>6. RecordsOK'
  <2>1. 2 .. storeCount' = {}
    BY <1>1, <1>2
  <2>. QED  BY <1>1, <2>1 DEF RecordsOK
<1>7. CallOK' /\ MemoryOK' /\ FlightOK'
  BY <1>1 DEF ChainInv, CallOK, MemoryOK, FlightOK, Writing, Popping
<1>. QED  BY <1>4, <1>5, <1>6, <1>7 DEF ChainInv

\* Then its counts.
LEMMA ClearCountsKeeps ==
  ASSUME ChainInv, ClearCounts
  PROVE  ChainInv'
<1>1. /\ pc = "clearCounts" /\ pc' = "clearTxdb" /\ storeCount' = 0 /\ storeWork' = 0
      /\ UNCHANGED <<ledger, txdb, blocks, index, invalid, numBlocks, totalWork, lastHash,
                     cur, pos, deltas, booting, torn, crashes>>
  BY DEF ClearCounts, memory
<1>2. TypeOK'
  <2>1. 0 \in 0 .. MaxHeight /\ 0 \in Int
    BY Heights
  <2>. QED  BY <1>1, <2>1 DEF ChainInv, TypeOK, PcValues
<1>3. LinkOK' /\ RecordsOK'
  BY <1>1 DEF LinkOK, Linked, RecordsOK
<1>4. CallOK' /\ MemoryOK' /\ FlightOK'
  BY <1>1 DEF ChainInv, CallOK, MemoryOK, FlightOK, Writing, Popping
<1>. QED  BY <1>2, <1>3, <1>4 DEF ChainInv

\* Then the transaction store, and the genesis block is added.
LEMMA ClearTxdbKeeps ==
  ASSUME ChainInv, ClearTxdb
  PROVE  ChainInv'
<1>1. /\ pc = "clearTxdb" /\ pc' = "execute" /\ cur' = Genesis /\ pos' = 1
      /\ deltas' = EmptyLedger /\ txdb' = [k \in TxKeys |-> 0] /\ torn' = FALSE
      /\ UNCHANGED <<ledger, blocks, index, storeCount, storeWork, invalid, numBlocks,
                     totalWork, lastHash, booting, crashes>>
  BY DEF ClearTxdb, Begin, memory
<1>2. numBlocks = 0 /\ storeCount = 0 /\ lastHash = NullHash
  BY <1>1 DEF ChainInv, MemoryOK
<1>3. IsBlock(Genesis) /\ Genesis.id = 1 /\ Genesis.prev = NullHash
  BY GenesisIsBlock, GenesisAssumption
<1>4. 1 \in 1 .. Len(Genesis.txs) /\ 1 \in 0 .. Len(Genesis.txs)
  BY <1>3, BlockTxs
<1>5. TypeOK'
  <2>1. EmptyLedger \in Ledgers
    BY DEF EmptyLedger, Ledgers
  <2>2. txdb' \in [TxKeys -> 0 .. MaxHeight]
    BY <1>1, Heights
  <2>3. torn' \in BOOLEAN
    BY <1>1
  <2>. QED  BY <1>1, <1>3, <1>4, <2>1, <2>2, <2>3 DEF ChainInv, TypeOK, PcValues
<1>6. LinkOK'
  BY <1>1, LinkKept
<1>7. CallOK' /\ MemoryOK' /\ FlightOK'
  BY <1>1, <1>2, <1>3, <1>4 DEF CallOK, MemoryOK, FlightOK, TipHash, Writing, Popping
<1>8. RecordsOK'
  BY <1>1, <1>2, <1>3 DEF RecordsOK
<1>. QED  BY <1>5, <1>6, <1>7, <1>8 DEF ChainInv

\* A transaction is run on the ledger, to be taken back.
LEMMA VerifyTransactionKeeps ==
  ASSUME ChainInv, VerifyTransaction
  PROVE  ChainInv'
<1>1. PICK t \in Tx, m \in Nonce :
        LET x == ExecuteTransaction(ledger, invalid, t, m) IN
        /\ ledger' = x.ledger
        /\ \/ pc' = "rollback" /\ deltas' = x.deltas /\ UNCHANGED torn
           \/ torn' = TRUE /\ UNCHANGED <<pc, deltas>>
  BY DEF VerifyTransaction
<1>. DEFINE x == ExecuteTransaction(ledger, invalid, t, m)
<1>2. IsRun(x) /\ Grows(ledger, x.ledger)
  BY ExecuteTransactionFacts DEF ChainInv, TypeOK
<1>3. /\ ledger' = x.ledger
      /\ \/ pc' = "rollback" /\ deltas' = x.deltas /\ UNCHANGED torn
         \/ torn' = TRUE /\ UNCHANGED <<pc, deltas>>
  BY <1>1
<1>. HIDE DEF x
<1>4. ledger' \in Ledgers /\ deltas' \in Ledgers /\ torn' \in BOOLEAN
  BY <1>2, <1>3 DEF IsRun, ChainInv, TypeOK
<1>5. /\ pc = "idle" /\ pc' \in {"idle", "rollback"}
      /\ UNCHANGED <<txdb, blocks, index, storeCount, storeWork, invalid, numBlocks,
                     totalWork, lastHash, cur, pos, booting, crashes>>
  BY <1>3 DEF VerifyTransaction, Idle, memory
<1>6. TypeOK'
  BY <1>4, <1>5 DEF ChainInv, TypeOK, PcValues
<1>7. LinkOK'
  BY <1>5, LinkKept
<1>8. CallOK' /\ MemoryOK' /\ FlightOK'
  BY <1>5 DEF ChainInv, CallOK, MemoryOK, FlightOK, TipHash, Writing, Popping
<1>9. RecordsOK'
  <2>1. \A h \in 2 .. storeCount : Recorded(ledger', blocks[h], Len(blocks[h].txs))
    BY <1>2, <1>3, ChainRecordsGrow
  <2>. QED  BY <1>5, <2>1 DEF RecordsOK, Recorded
<1>. QED  BY <1>6, <1>7, <1>8, <1>9 DEF ChainInv

\* The process starts from what is on disk, wherever it stopped.
LEMMA RestartKeeps ==
  ASSUME ChainInv, LoadChain \/ StartFails \/ StartChain
  PROVE  ChainInv'
<1>1. /\ \/ /\ storeCount > 0 /\ blocks[storeCount] # NoBlock
            /\ numBlocks' = storeCount /\ totalWork' = storeWork
            /\ lastHash' = HashOf(blocks[storeCount])
            /\ pc' = "idle" /\ booting' = FALSE
         \/ /\ storeCount > 0 /\ numBlocks' = 0 /\ totalWork' = 0
            /\ pc' = "dead" /\ booting' = FALSE
         \/ /\ storeCount = 0 /\ numBlocks' = 0 /\ totalWork' = 0 /\ lastHash' = NullHash
            /\ pc' = "clearLedger" /\ booting' = TRUE
      /\ cur' = NoBlock /\ pos' = 0 /\ deltas' = EmptyLedger
      /\ UNCHANGED <<ledger, txdb, blocks, index, storeCount, storeWork, invalid>>
  BY DEF LoadChain, StartFails, StartChain, Return, disk
<1>2. crashes' \in 0 .. MaxCrashes /\ torn' \in BOOLEAN
  <2>1. Stop
    BY DEF LoadChain, StartFails, StartChain
  <2>2. crashes' \in 0 .. MaxCrashes
    BY <2>1, ChainAssumption DEF Stop, ChainInv, TypeOK
  <2>3. torn' \in BOOLEAN
    BY <2>1 DEF Stop, ChainInv, TypeOK
  <2>. QED  BY <2>2, <2>3
<1>3. storeCount \in 0 .. MaxHeight /\ storeCount \in Nat /\ 0 \in 0 .. MaxHeight
  BY Heights DEF ChainInv, TypeOK
<1>4. TypeOK'
  <2>1. EmptyLedger \in Ledgers /\ booting' \in BOOLEAN
    BY <1>1 DEF EmptyLedger, Ledgers
  <2>. QED  BY <1>1, <1>2, <1>3, <2>1 DEF ChainInv, TypeOK, PcValues
<1>5. LinkOK'
  <2>1. Linked' <=> Linked
    BY <1>1 DEF Linked
  <2>2. Wiped' <=> Wiped
    BY <1>1 DEF Wiped
  <2>3. storeCount = 0 => Linked
    BY DEF Linked
  <2>4. storeCount > 0 /\ blocks[storeCount] # NoBlock => Linked
    BY <1>3, Heights DEF ChainInv, LinkOK, Wiped
  <2>. QED  BY <1>1, <2>1, <2>2, <2>3, <2>4 DEF ChainInv, LinkOK
<1>6. CallOK' /\ MemoryOK' /\ FlightOK'
  BY <1>1, <1>3 DEF CallOK, MemoryOK, FlightOK, TipHash, Writing, Popping
<1>7. RecordsOK'
  BY <1>1 DEF ChainInv, RecordsOK, Recorded
<1>. QED  BY <1>4, <1>5, <1>6, <1>7 DEF ChainInv

\* A step that changes nothing.
LEMMA StutterKeeps ==
  ASSUME ChainInv, UNCHANGED vars
  PROVE  ChainInv'
<1>1. UNCHANGED <<ledger, txdb, blocks, index, storeCount, storeWork, invalid, numBlocks,
                  totalWork, lastHash, pc, cur, pos, deltas, booting, torn, crashes>>
  BY DEF vars, disk, memory, call
<1>2. TypeOK'
  BY <1>1 DEF ChainInv, TypeOK
<1>3. LinkOK'
  BY <1>1 DEF ChainInv, LinkOK, Linked, Wiped
<1>4. CallOK' /\ MemoryOK' /\ FlightOK'
  BY <1>1 DEF ChainInv, CallOK, MemoryOK, FlightOK, TipHash
<1>5. RecordsOK'
  BY <1>1 DEF ChainInv, RecordsOK, Recorded
<1>. QED  BY <1>2, <1>3, <1>4, <1>5 DEF ChainInv

\* Every step preserves the invariant.
LEMMA NextKeeps ==
  ASSUME ChainInv, [Next]_vars
  PROVE  ChainInv'
<1>1. CASE AddBlock  BY <1>1, AddBlockKeeps
<1>2. CASE ExecuteNext  BY <1>2, ExecuteNextKeeps
<1>3. CASE TakeBack  BY <1>3, TakeBackKeeps
<1>4. CASE InsertTransactions  BY <1>4, InsertTransactionsKeeps
<1>5. CASE SetBlock  BY <1>5, SetBlockKeeps
<1>6. CASE AddWork  BY <1>6, AddWorkKeeps
<1>7. CASE SetBlockCount  BY <1>7, SetBlockCountKeeps
<1>8. CASE PopBlock  BY <1>8, PopBlockKeeps
<1>9. CASE UndoNext  BY <1>9, UndoNextKeeps
<1>10. CASE RemoveWork  BY <1>10, RemoveWorkKeeps
<1>11. CASE PopBlockCount  BY <1>11, PopBlockCountKeeps
<1>12. CASE FinishPop  BY <1>12, FinishPopKeeps
<1>13. CASE ClearLedger  BY <1>13, ClearLedgerKeeps
<1>14. CASE ClearBlocks  BY <1>14, ClearBlocksKeeps
<1>15. CASE ClearTxdb  BY <1>15, ClearTxdbKeeps
<1>16. CASE VerifyTransaction  BY <1>16, VerifyTransactionKeeps
<1>17. CASE LoadChain \/ StartFails \/ StartChain  BY <1>17, RestartKeeps
<1>18. CASE ClearCounts  BY <1>18, ClearCountsKeeps
<1>19. CASE UNCHANGED vars  BY <1>19, StutterKeeps
<1>. QED  BY <1>1, <1>2, <1>3, <1>4, <1>5, <1>6, <1>7, <1>8, <1>9, <1>10, <1>11, <1>12, <1>13,
             <1>14, <1>15, <1>16, <1>17, <1>18, <1>19 DEF Next

-----------------------------------------------------------------------------
(***************************************************************************)
(* The theorems.                                                           *)
(***************************************************************************)

\* Whatever calls are made, wherever they are cut short and however often the
\* process restarts, the chain's invariant holds.
THEOREM InvariantHolds == Spec => []ChainInv
<1>1. Init => ChainInv
  BY InitEstablishes
<1>2. ChainInv /\ [Next]_vars => ChainInv'
  BY NextKeeps
<1>. QED  BY <1>1, <1>2, PTL DEF Spec

\* The databases, the memory and the call in flight keep to their types.
THEOREM TypesHold == Spec => []TypeOK
<1>1. ChainInv => TypeOK
  BY DEF ChainInv
<1>. QED  BY <1>1, InvariantHolds, PTL

\* The block store never counts a block that is missing or that does not name
\* the block below it, not even between two writes of a call that never ends;
\* only while the chain is reset may it have no block at all.
THEOREM StoredChainLinked == Spec => []ChainLinked
<1>1. ChainInv => ChainLinked
  BY DEF ChainInv, LinkOK, ChainLinked
<1>. QED  BY <1>1, InvariantHolds, PTL

\* A reader without the lock finds every block up to numBlocks.
THEOREM ReadersFindBlocks == Spec => []TipReadable
<1>1. ASSUME ChainInv  PROVE TipReadable
  <2>1. storeCount \in Nat /\ numBlocks \in Nat
    BY <1>1, Heights DEF ChainInv, TypeOK
  <2>2. \/ numBlocks <= storeCount
        \/ numBlocks = storeCount + 1 /\ blocks[numBlocks] = cur /\ cur.id = numBlocks
           /\ IsBlock(cur)
    BY <1>1, <2>1 DEF ChainInv, TypeOK, PcValues, CallOK, MemoryOK, FlightOK, Writing
  <2>0. CASE pc \in {"clearCounts", "dead"}
    BY <1>1, <2>0, <2>1 DEF ChainInv, MemoryOK, TipReadable
  <2>. SUFFICES ASSUME pc \notin {"clearCounts", "dead"}  PROVE TipReadable
    BY <2>0
  <2>3. \A h \in 1 .. storeCount : blocks[h] # NoBlock /\ blocks[h].id = h
    BY <1>1 DEF ChainInv, LinkOK, Linked
  <2>4. CASE numBlocks <= storeCount
    <3>1. \A h \in 1 .. numBlocks : h \in 1 .. storeCount
      BY <2>1, <2>4
    <3>. QED  BY <2>3, <3>1 DEF TipReadable
  <2>5. CASE /\ numBlocks = storeCount + 1 /\ blocks[numBlocks] = cur /\ cur.id = numBlocks
             /\ IsBlock(cur)
    <3>1. cur # NoBlock
      BY <2>5, BlockIsSome
    <3>2. \A h \in 1 .. storeCount + 1 : h \in 1 .. storeCount \/ h = storeCount + 1
      BY <2>1
    <3>. QED  BY <2>3, <2>5, <3>1, <3>2 DEF TipReadable
  <2>. QED  BY <2>2, <2>4, <2>5
<1>. QED  BY <1>1, InvariantHolds, PTL

\* Between calls memory and disk agree on the chain's last block.
THEOREM LastHashFollowsTip == Spec => []LastHashIsTip
<1>1. ASSUME ChainInv  PROVE LastHashIsTip
  BY <1>1 DEF ChainInv, MemoryOK, TipHash, LastHashIsTip
<1>. QED  BY <1>1, InvariantHolds, PTL

\* Undoing a block never comes upon a wallet without a record, although blocks
\* fail, transactions are verified and the process dies in between.
THEOREM UndoNeverMissesRecord == Spec => []UndoFindsRecords
<1>1. ASSUME ChainInv  PROVE UndoFindsRecords
  <2>. SUFFICES ASSUME pc = "undo"
                PROVE  \A w \in RollbackWallets(cur.txs[pos], MinerOf(cur.txs)) : HasWallet(ledger, w)
    BY DEF UndoFindsRecords
  <2>1. pos \in 1 .. Len(cur.txs) /\ storeCount > 1 /\ cur = blocks[storeCount]
    BY <1>1 DEF ChainInv, CallOK, FlightOK
  <2>2. storeCount \in 2 .. storeCount
    BY <1>1, <2>1 DEF ChainInv, TypeOK
  <2>3. Recorded(ledger, cur, Len(cur.txs))
    BY <1>1, <2>1, <2>2 DEF ChainInv, RecordsOK
  <2>. QED  BY <2>1, <2>3 DEF Recorded
<1>. QED  BY <1>1, InvariantHolds, PTL

\* No step replaces a block the store counts before it and after it, except
\* that a reset removes the genesis block it is about to add again.
THEOREM NoBlockIsReplaced == Spec => CountedBlocksStay
<1>1. ASSUME ChainInv, [Next]_vars
      PROVE  [\A h \in Height : h <= storeCount /\ h <= storeCount' =>
                blocks'[h] = blocks[h] \/ (h = 1 /\ Wiped')]_vars
  <2>. SUFFICES ASSUME NEW h \in Height, h <= storeCount, h <= storeCount'
                PROVE  blocks'[h] = blocks[h] \/ (h = 1 /\ Wiped')
    OBVIOUS
  <2>0. h \in Nat /\ h > 0 /\ storeCount \in Nat
    BY <1>1, Heights DEF ChainInv, TypeOK
  <2>1. CASE SetBlock
    <3>1. cur.id = storeCount + 1 /\ blocks' = [blocks EXCEPT ![cur.id] = cur] /\ DOMAIN blocks = Height
      BY <1>1, <2>1 DEF SetBlock, ChainInv, FlightOK, TypeOK, Writing
    <3>2. h # cur.id
      BY <2>0, <3>1
    <3>. QED  BY <3>1, <3>2
  <2>2. CASE ClearBlocks
    <3>1. storeCount <= 1 /\ storeCount' = storeCount
      BY <1>1, <2>2 DEF ClearBlocks, ChainInv, MemoryOK
    <3>2. \A k \in Height : blocks'[k] = NoBlock
      BY <2>2 DEF ClearBlocks
    <3>3. h = 1 /\ storeCount' <= 1
      BY <2>0, <3>1
    <3>. QED  BY <3>2, <3>3 DEF Wiped
  <2>3. CASE ~SetBlock /\ ~ClearBlocks
    <3>1. blocks' = blocks
      BY <1>1, <2>3
         DEF Next, AddBlock, ExecuteNext, TakeBack, InsertTransactions, AddWork, SetBlockCount,
             PopBlock, UndoNext, RemoveWork, PopBlockCount, FinishPop, ClearLedger, ClearCounts,
             ClearTxdb, VerifyTransaction, LoadChain, StartFails, StartChain, vars, disk
    <3>. QED  BY <3>1
  <2>. QED  BY <2>1, <2>2, <2>3
<1>. QED  BY <1>1, InvariantHolds, PTL DEF Spec, CountedBlocksStay

-----------------------------------------------------------------------------
(***************************************************************************)
(* BlockChain implements AbstractChain: every step of a call, of a restart *)
(* or of a reset changes the chain on disk as one step of AbstractChain    *)
(* does, or not at all.  ChainInv says what is on disk at each step; two   *)
(* more facts are needed about a reset, what it removes and what it adds.  *)
(***************************************************************************)

\* A block that is added to an empty store is the genesis block, and the counts
\* are cleared after the blocks.
ResetOK ==
  /\ pc \in Writing /\ storeCount = 0 => cur = Genesis
  /\ pc = "clearCounts" => \A h \in Height : blocks[h] = NoBlock

AtomicInv == ChainInv /\ ResetOK

-----------------------------------------------------------------------------
(***************************************************************************)
(* The chain that is stored, as a sequence.                                *)
(***************************************************************************)

\* A function on 1 .. n is a sequence of length n.
LEMMA TableIsSeq ==
  ASSUME NEW n \in Nat, NEW f
  PROVE  /\ [h \in 1 .. n |-> f[h]] \in Seq({f[h] : h \in 1 .. n})
         /\ Len([h \in 1 .. n |-> f[h]]) = n
OBVIOUS

\* One more entry at its end is appended.
LEMMA TableGrows ==
  ASSUME NEW n \in Nat, NEW f
  PROVE  [h \in 1 .. n + 1 |-> f[h]] = Append([h \in 1 .. n |-> f[h]], f[n + 1])
<1>. DEFINE S == {f[h] : h \in 1 .. n + 1}
            s == [h \in 1 .. n |-> f[h]]
            t == [h \in 1 .. n + 1 |-> f[h]]
<1>1. s \in Seq(S) /\ Len(s) = n
  OBVIOUS
<1>2. t \in Seq(S) /\ Len(t) = n + 1
  OBVIOUS
<1>3. f[n + 1] \in S
  OBVIOUS
<1>4. Append(s, f[n + 1]) \in Seq(S) /\ Len(Append(s, f[n + 1])) = n + 1
  BY <1>1, <1>3
<1>5. \A h \in 1 .. n + 1 : t[h] = Append(s, f[n + 1])[h]
  BY <1>1, <1>3
<1>. QED  BY <1>2, <1>4, <1>5

\* Without its last entry it is the table of those before.
LEMMA TableShrinks ==
  ASSUME NEW n \in Nat, NEW f
  PROVE  [h \in 1 .. n |-> f[h]] = SubSeq([h \in 1 .. n + 1 |-> f[h]], 1, n)
OBVIOUS

\* The chain on disk is the table of the blocks that are counted, or nothing.
LEMMA StoredIsTable ==
  ChainInv => /\ Linked => StoredChain = [h \in 1 .. storeCount |-> blocks[h]]
              /\ Wiped  => StoredChain = <<>>
<1>. SUFFICES ASSUME ChainInv
              PROVE  /\ Linked => StoredChain = [h \in 1 .. storeCount |-> blocks[h]]
                     /\ Wiped  => StoredChain = <<>>
  OBVIOUS
<1>0. storeCount \in Nat /\ storeCount <= MaxHeight
  BY Heights DEF ChainInv, TypeOK
<1>1. ASSUME Linked  PROVE StoredChain = [h \in 1 .. storeCount |-> blocks[h]]
  <2>1. storeCount > 0 => blocks[storeCount] # NoBlock
    BY <1>0, <1>1 DEF Linked
  <2>. QED  BY <2>1 DEF StoredChain
<1>2. ASSUME Wiped  PROVE StoredChain = <<>>
  <2>1. CASE storeCount = 0
    BY <2>1 DEF StoredChain
  <2>2. CASE storeCount > 0
    BY <1>0, <1>2, <2>2, Heights DEF StoredChain, Wiped
  <2>. QED  BY <1>0, <2>1, <2>2
<1>. QED  BY <1>1, <1>2

\* And so it is after a step.
LEMMA StoredIsTableNext ==
  ChainInv' => /\ Linked' => StoredChain' = [h \in 1 .. storeCount' |-> blocks'[h]]
               /\ Wiped'  => StoredChain' = <<>>
<1>1. ChainInv' => (/\ Linked => StoredChain = [h \in 1 .. storeCount |-> blocks[h]]
                    /\ Wiped  => StoredChain = <<>>)'
  BY StoredIsTable, PTL
<1>. QED  BY <1>1

-----------------------------------------------------------------------------
(***************************************************************************)
(* What is known of a reset is inductive.                                  *)
(***************************************************************************)
LEMMA ResetKept ==
  ASSUME AtomicInv, [Next]_vars
  PROVE  ResetOK'
<1>. USE DEF AtomicInv, ResetOK, Writing
<1>1. CASE AddBlock
  BY <1>1 DEF AddBlock, Idle, Begin, disk, memory, ChainInv, MemoryOK
<1>2. CASE ExecuteNext
  BY <1>2 DEF ExecuteNext, Return, Back, memory
<1>3. CASE InsertTransactions \/ SetBlock \/ AddWork
  BY <1>3 DEF InsertTransactions, SetBlock, AddWork, memory
<1>4. CASE TakeBack \/ SetBlockCount \/ FinishPop
  BY <1>4 DEF TakeBack, SetBlockCount, FinishPop, Return, Back
<1>5. CASE PopBlock \/ UndoNext \/ RemoveWork \/ PopBlockCount \/ ClearLedger \/ ClearBlocks
  BY <1>5 DEF PopBlock, UndoNext, RemoveWork, PopBlockCount, ClearLedger, ClearBlocks
<1>6. CASE ClearCounts \/ ClearTxdb
  BY <1>6 DEF ClearCounts, ClearTxdb, Begin
<1>7. CASE VerifyTransaction
  BY <1>7 DEF VerifyTransaction, Idle
<1>8. CASE LoadChain \/ StartFails \/ StartChain
  BY <1>8 DEF LoadChain, StartFails, StartChain, Return
<1>9. CASE UNCHANGED vars
  BY <1>9 DEF vars, disk, memory, call
<1>. QED  BY <1>1, <1>2, <1>3, <1>4, <1>5, <1>6, <1>7, <1>8, <1>9 DEF Next

-----------------------------------------------------------------------------
(***************************************************************************)
(* The steps that change the chain, and the ones that do not.              *)
(***************************************************************************)

\* Writing BLOCK_COUNT adds the block.
LEMMA CountExtends ==
  ASSUME AtomicInv, ChainInv', SetBlockCount
  PROVE  AtomicChain!Extend
<1>1. /\ pc = "count" /\ storeCount' = storeCount + 1 /\ blocks' = blocks
      /\ cur.id = storeCount + 1 /\ cur.prev = TipHash(storeCount) /\ blocks[cur.id] = cur
      /\ storeCount = 0 => cur = Genesis
  BY DEF SetBlockCount, AtomicInv, ResetOK, ChainInv, MemoryOK, FlightOK, Writing
<1>2. storeCount \in Nat
  BY DEF AtomicInv, ChainInv, TypeOK
<1>3. Linked /\ Linked'
  BY <1>1 DEF AtomicInv, ChainInv, LinkOK, SetBlockCount, Return
<1>. DEFINE n == storeCount
            s == [h \in 1 .. n |-> blocks[h]]
            t == [h \in 1 .. n + 1 |-> blocks[h]]
<1>4. StoredChain = s /\ StoredChain' = t
  BY <1>1, <1>3, StoredIsTable, StoredIsTableNext DEF AtomicInv
<1>5. Len(s) = n /\ Len(t) = n + 1 /\ t = Append(s, blocks[n + 1])
  BY <1>2, TableIsSeq, TableGrows
<1>6. t[n + 1] = cur /\ n + 1 \in Nat
  BY <1>1, <1>2
<1>7. CASE n = 0
  <2>1. s = <<>> /\ cur = Genesis /\ cur.prev = NullHash
    BY <1>1, <1>7, GenesisAssumption
  <2>. QED  BY <1>1, <1>4, <1>5, <1>6, <2>1 DEF AtomicChain!Extend
<1>8. CASE n > 0
  <2>1. s # <<>> /\ s[n] = blocks[n] /\ cur.prev = HashOf(blocks[n])
    BY <1>1, <1>2, <1>5, <1>8 DEF TipHash
  <2>2. cur.prev = AtomicChain!Hash(s[Len(s)])
    BY <1>5, <2>1 DEF HashOf, AtomicChain!Hash
  <2>. QED  BY <1>1, <1>4, <1>5, <1>6, <2>1, <2>2 DEF AtomicChain!Extend
<1>. QED  BY <1>2, <1>7, <1>8

\* Writing a BLOCK_COUNT that is one less takes the last block away.
LEMMA CountRetracts ==
  ASSUME AtomicInv, ChainInv', PopBlockCount
  PROVE  AtomicChain!Retract
<1>1. /\ pc = "popCount" /\ storeCount' = numBlocks /\ blocks' = blocks
      /\ numBlocks = storeCount - 1 /\ numBlocks > 0
  BY DEF PopBlockCount, AtomicInv, ChainInv, MemoryOK
<1>2. numBlocks \in Nat /\ storeCount = numBlocks + 1
  BY <1>1 DEF AtomicInv, ChainInv, TypeOK
<1>3. Linked /\ Linked'
  BY <1>1 DEF AtomicInv, ChainInv, LinkOK, PopBlockCount
<1>4. /\ StoredChain = [h \in 1 .. numBlocks + 1 |-> blocks[h]]
      /\ StoredChain' = [h \in 1 .. numBlocks |-> blocks[h]]
  BY <1>1, <1>2, <1>3, StoredIsTable, StoredIsTableNext DEF AtomicInv
<1>5. Len(StoredChain) = numBlocks + 1
  BY <1>2, <1>4, TableIsSeq
<1>6. StoredChain' = SubSeq(StoredChain, 1, Len(StoredChain) - 1)
  BY <1>2, <1>4, <1>5, TableShrinks
<1>. QED  BY <1>1, <1>2, <1>5, <1>6 DEF AtomicChain!Retract

\* Clearing the block store takes the genesis block away, if it is there.
LEMMA ClearingClears ==
  ASSUME AtomicInv, ChainInv', ClearBlocks
  PROVE  AtomicChain!Clear \/ StoredChain' = StoredChain
<1>1. pc = "clearBlocks" /\ storeCount <= 1 /\ storeCount' = storeCount
  BY DEF ClearBlocks, AtomicInv, ChainInv, MemoryOK
<1>2. storeCount \in Nat
  BY DEF AtomicInv, ChainInv, TypeOK
<1>3. Linked /\ Wiped'
  BY <1>1 DEF ClearBlocks, AtomicInv, ChainInv, LinkOK, Wiped
<1>4. StoredChain = [h \in 1 .. storeCount |-> blocks[h]] /\ StoredChain' = <<>>
  BY <1>3, StoredIsTable, StoredIsTableNext DEF AtomicInv
<1>5. Len(StoredChain) = storeCount
  BY <1>2, <1>4, TableIsSeq
<1>6. CASE storeCount = 0
  BY <1>4, <1>6
<1>7. CASE storeCount = 1
  BY <1>4, <1>5, <1>7 DEF AtomicChain!Clear
<1>. QED  BY <1>1, <1>2, <1>6, <1>7

\* A block that is written but not counted is not part of the chain, and the
\* counts of an empty store count nothing.
LEMMA OthersStutter ==
  ASSUME AtomicInv, ChainInv', [Next]_vars, ~SetBlockCount, ~PopBlockCount, ~ClearBlocks
  PROVE  StoredChain' = StoredChain
<1>1. CASE SetBlock
  <2>1. /\ storeCount' = storeCount /\ cur.id = storeCount + 1
        /\ blocks' = [blocks EXCEPT ![cur.id] = cur] /\ DOMAIN blocks = Height
    BY <1>1 DEF SetBlock, AtomicInv, ChainInv, FlightOK, TypeOK, Writing
  <2>2. storeCount \in Nat
    BY DEF AtomicInv, ChainInv, TypeOK
  <2>3. \A h \in 1 .. storeCount : blocks'[h] = blocks[h]
    BY <2>1, <2>2
  <2>4. Linked /\ Linked'
    BY <1>1 DEF AtomicInv, ChainInv, LinkOK, SetBlock
  <2>5. /\ StoredChain = [h \in 1 .. storeCount |-> blocks[h]]
        /\ StoredChain' = [h \in 1 .. storeCount |-> blocks'[h]]
    BY <2>1, <2>4, StoredIsTable, StoredIsTableNext DEF AtomicInv
  <2>. QED  BY <2>3, <2>5
<1>2. CASE ClearCounts
  <2>1. /\ \A h \in Height : blocks[h] = NoBlock /\ blocks'[h] = NoBlock
        /\ storeCount <= 1 /\ storeCount' <= 1
    BY <1>2 DEF ClearCounts, AtomicInv, ResetOK, ChainInv, MemoryOK
  <2>2. Wiped /\ Wiped'
    BY <2>1 DEF Wiped
  <2>. QED  BY <2>2, StoredIsTable, StoredIsTableNext DEF AtomicInv
<1>3. CASE ~SetBlock /\ ~ClearCounts
  <2>1. UNCHANGED <<blocks, storeCount>>
    BY <1>3
       DEF Next, AddBlock, ExecuteNext, TakeBack, InsertTransactions, AddWork, PopBlock, UndoNext,
           RemoveWork, FinishPop, ClearLedger, ClearTxdb, VerifyTransaction, LoadChain,
           StartFails, StartChain, vars, disk
  <2>. QED  BY <2>1 DEF StoredChain
<1>. QED  BY <1>1, <1>2, <1>3

-----------------------------------------------------------------------------
\* Whatever calls are made and wherever they are cut short, the chain on disk
\* changes by one whole block at its end, and shrinks to nothing only from the
\* genesis block: addBlock and popBlock are atomic for it.
THEOREM ChainIsAtomic == Spec => ImplementsAtomicChain
<1>1. Init => ResetOK /\ AtomicChain!Init
  BY DEF Init, ResetOK, Writing, AtomicChain!Init, StoredChain
<1>2. AtomicInv /\ ChainInv' /\ [Next]_vars => ResetOK'
  BY ResetKept
<1>3. AtomicInv /\ ChainInv' /\ [Next]_vars => [AtomicChain!Next]_StoredChain
  BY CountExtends, CountRetracts, ClearingClears, OthersStutter DEF AtomicChain!Next
<1>. QED  BY <1>1, <1>2, <1>3, InvariantHolds, PTL
          DEF Spec, AtomicInv, ImplementsAtomicChain, AtomicChain!Spec
=============================================================================
