------------------------------- MODULE Readers -------------------------------
(***************************************************************************)
(* A request that reads blocks, on the HTTP thread and with no lock, while *)
(* another thread adds and pops them one write at a time: the block store, *)
(* the transaction store, the index of wallets and numBlocks are separate. *)
(*                                                                         *)
(* The thread that writes is the algorithm of addBlock and popBlock, as if *)
(* BlockChain::lock let it in (NodeLocks shows when it does not).  The     *)
(* transactions are payments: that the transaction store keeps the fees    *)
(* of popped blocks is ChainProperties' StatusInChain.                     *)
(***************************************************************************)
EXTENDS Integers, Sequences, SequencesExt

CONSTANTS
  Block,
  Height,      \* the number of a block
  TxsOf,       \* its transactions, in their order
  Base,        \* the blocks that are never popped
  NoBlock

Tx       == UNION {ToSet(TxsOf[b]) : b \in Block}
Heights  == {Height[b] : b \in Block}
MostTxs  == CHOOSE n \in {Len(TxsOf[b]) : b \in Block} : \A b \in Block : Len(TxsOf[b]) <= n
NoTx     == NoBlock

\* The blocks that are never popped are at their numbers and share no payment;
\* some block has the most transactions.
ReadersAssumption ==
  /\ NoBlock \notin Block \cup Tx
  /\ Height \in [Block -> Nat \ {0}]
  /\ \A b \in Block : TxsOf[b] \in Seq(Tx)
  /\ \E b \in Block : \A c \in Block : Len(TxsOf[c]) <= Len(TxsOf[b])
  /\ Base \in Seq(Block)
  /\ \A x, y \in 1 .. Len(Base) :
       /\ Height[Base[x]] = x
       /\ x # y => ToSet(TxsOf[Base[x]]) \cap ToSet(TxsOf[Base[y]]) = {}

VARIABLES
  header,      \* blockStore, by number: the header
  slot,        \* blockStore, by number and index: the transaction
  walletTxs,   \* blockStore: the wallet's transactions
  txdb,        \* the number of the block of a transaction, or 0
  numBlocks,
  chain,       \* the blocks that numBlocks counts
  cur, wpc, k, \* the block that is added or popped, and how far that is
  op, at,      \* what is asked for: a block, a status or a wallet's payments
  rpc, n,      \* where the request is
  got,         \* the header it has read
  txs,         \* the transactions it has read
  todo,        \* the transactions it has yet to look up
  found,       \* those it has found
  answer,
  everIn, everOut,  \* transactions that were in the chain, or not, since it began
  rewritten    \* the block at its number has been written since it began

store   == <<header, slot, walletTxs, txdb, numBlocks, chain>>
writer  == <<cur, wpc, k>>
request == <<op, at, rpc, n, got, txs, todo, found, answer>>
ghosts  == <<everIn, everOut, rewritten>>
vars    == <<header, slot, walletTxs, txdb, numBlocks, chain, cur, wpc, k,
             op, at, rpc, n, got, txs, todo, found, answer, everIn, everOut, rewritten>>

\* A transaction whose block is being added or popped may be said to be in the
\* chain or not.
Changing(c)  == IF c = NoBlock THEN {} ELSE ToSet(TxsOf[c])
InChain(s)   == UNION {ToSet(TxsOf[b]) : b \in ToSet(s)}
Watch(s, c, written) ==
  IF rpc = "idle" THEN UNCHANGED <<everIn, everOut, rewritten>>
  ELSE /\ everIn' = everIn \cup InChain(s) \cup Changing(c)
       /\ everOut' = everOut \cup (Tx \ InChain(s)) \cup Changing(c)
       /\ rewritten' = (rewritten \/ written = n)

-----------------------------------------------------------------------------
AddBlock(b) ==
  /\ wpc = "idle" /\ Height[b] = numBlocks + 1 /\ ToSet(TxsOf[b]) \cap InChain(chain) = {}
  /\ cur' = b /\ wpc' = "insert" /\ k' = 0
  /\ Watch(chain, b, 0)
  /\ UNCHANGED <<store, request>>

InsertTransactions ==
  /\ wpc = "insert"
  /\ txdb' = [t \in Tx |-> IF t \in ToSet(TxsOf[cur]) THEN Height[cur] ELSE txdb[t]]
  /\ wpc' = "header"
  /\ Watch(chain, cur, 0)
  /\ UNCHANGED <<header, slot, walletTxs, numBlocks, chain, cur, k, request>>

SetBlock ==
  /\ wpc = "header"
  /\ header' = [header EXCEPT ![Height[cur]] = cur]
  /\ wpc' = "slots" /\ k' = 1
  /\ Watch(chain, cur, Height[cur])
  /\ UNCHANGED <<slot, walletTxs, txdb, numBlocks, chain, cur, request>>

SetTransaction ==
  /\ wpc = "slots" /\ k <= Len(TxsOf[cur])
  /\ slot' = [slot EXCEPT ![Height[cur]][k] = TxsOf[cur][k]]
  /\ walletTxs' = walletTxs \cup {TxsOf[cur][k]}
  /\ k' = k + 1
  /\ Watch(chain, cur, Height[cur])
  /\ UNCHANGED <<header, txdb, numBlocks, chain, cur, wpc, request>>

CountBlock ==
  /\ wpc = "slots" /\ k > Len(TxsOf[cur])
  /\ numBlocks' = numBlocks + 1
  /\ chain' = Append(chain, cur)
  /\ cur' = NoBlock /\ wpc' = "idle" /\ k' = 0
  /\ Watch(chain', NoBlock, 0)
  /\ UNCHANGED <<header, slot, walletTxs, txdb, request>>

PopBlock ==
  /\ wpc = "idle" /\ numBlocks > Len(Base)
  /\ cur' = Last(chain) /\ wpc' = "rollback" /\ k' = 0
  /\ Watch(chain, cur', 0)
  /\ UNCHANGED <<store, request>>

\* (Mutant: popBlock leaves the block's transactions in the transaction store.)
RollbackBlockKeepsTxs ==
  /\ wpc = "rollback"
  /\ wpc' = "uncount"
  /\ Watch(chain, cur, 0)
  /\ UNCHANGED <<header, slot, walletTxs, txdb, numBlocks, chain, cur, k, request>>

RollbackBlock ==
  /\ wpc = "rollback"
  /\ txdb' = [t \in Tx |-> IF t \in ToSet(TxsOf[cur]) THEN 0 ELSE txdb[t]]
  /\ wpc' = "uncount"
  /\ Watch(chain, cur, 0)
  /\ UNCHANGED <<header, slot, walletTxs, numBlocks, chain, cur, k, request>>

UncountBlock ==
  /\ wpc = "uncount"
  /\ numBlocks' = numBlocks - 1
  /\ chain' = Front(chain)
  /\ wpc' = "unlist"
  /\ Watch(chain', cur, 0)
  /\ UNCHANGED <<header, slot, walletTxs, txdb, cur, k, request>>

RemoveBlockWalletTransactions ==
  /\ wpc = "unlist"
  /\ walletTxs' = walletTxs \ ToSet(TxsOf[cur])
  /\ cur' = NoBlock /\ wpc' = "idle"
  /\ Watch(chain, NoBlock, 0)
  /\ UNCHANGED <<header, slot, txdb, numBlocks, chain, k, request>>

Write == \/ \E b \in Block : AddBlock(b)
         \/ InsertTransactions \/ SetBlock \/ SetTransaction \/ CountBlock
         \/ PopBlock \/ RollbackBlock \/ UncountBlock \/ RemoveBlockWalletTransactions

-----------------------------------------------------------------------------
Begin(what, of, number, where) ==
  /\ rpc = "idle"
  /\ op' = what /\ at' = of /\ n' = number
  /\ rpc' = where
  /\ got' = NoBlock /\ txs' = <<>> /\ todo' = {} /\ found' = {} /\ answer' = "none"
  /\ everIn' = InChain(chain) \cup Changing(cur)
  /\ everOut' = (Tx \ InChain(chain)) \cup Changing(cur)
  /\ rewritten' = FALSE
  /\ UNCHANGED <<store, writer>>

Answer(what) == answer' = what /\ rpc' = "idle"
NotThere     == IF op = "status" THEN "NOT_IN_CHAIN" ELSE "threw"

\* getBlock and getRaw, for GET /block, /mine_status and /sync.
GetBlock(number) == Begin("block", NoTx, number, "count")

\* For POST /verify_transaction.
GetTransactionStatus(t) == Begin("status", t, 0, "find")

\* For GET /wallet_transactions.
GetTransactionsForWallet == Begin("wallet", NoTx, 0, "list")

FindBlockForTransaction ==
  /\ rpc = "find"
  /\ n' = txdb[at]
  /\ rpc' = CASE op = "status" -> "count"
              [] op = "wallet" -> IF n' > 0 THEN "header" ELSE "next"
  /\ UNCHANGED <<store, writer, op, at, got, txs, todo, found, answer, ghosts>>

\* (Mutant: a block that is stored may be read, counted or not.)
CheckStored ==
  /\ rpc = "count"
  /\ IF n \in Heights THEN rpc' = "header" /\ UNCHANGED answer ELSE Answer(NotThere)
  /\ UNCHANGED <<store, writer, op, at, n, got, txs, todo, found, ghosts>>

\* A number that is not counted throws; getTransactionStatus catches it.
CheckCount ==
  /\ rpc = "count"
  /\ IF n \in 1 .. numBlocks THEN rpc' = "header" /\ UNCHANGED answer ELSE Answer(NotThere)
  /\ UNCHANGED <<store, writer, op, at, n, got, txs, todo, found, ghosts>>

GetBlockHeader ==
  /\ rpc = "header"
  /\ IF header[n] = NoBlock THEN Answer(NotThere) /\ UNCHANGED <<got, txs>>
     ELSE got' = header[n] /\ txs' = <<>> /\ rpc' = "slots" /\ UNCHANGED answer
  /\ UNCHANGED <<store, writer, op, at, n, todo, found, ghosts>>

GetBlockTransaction ==
  /\ rpc = "slots" /\ Len(txs) < Len(TxsOf[got])
  /\ LET t == slot[n][Len(txs) + 1]
     IN IF t = NoTx THEN Answer(NotThere) /\ UNCHANGED txs
        ELSE txs' = Append(txs, t) /\ UNCHANGED <<rpc, answer>>
  /\ UNCHANGED <<store, writer, op, at, n, got, todo, found, ghosts>>

\* The block has been read.
UseBlock ==
  /\ rpc = "slots" /\ Len(txs) = Len(TxsOf[got])
  /\ \/ op = "block" /\ Answer("block") /\ UNCHANGED found
     \/ op = "status" /\ Answer("IN_CHAIN") /\ UNCHANGED found
     \/ /\ op = "wallet"
        /\ found' = found \cup ({at} \cap ToSet(txs))
        /\ rpc' = "next"
        /\ UNCHANGED answer
  /\ UNCHANGED <<store, writer, op, at, n, got, txs, todo, ghosts>>

ListTransactions ==
  /\ rpc = "list"
  /\ todo' = walletTxs
  /\ rpc' = "next"
  /\ UNCHANGED <<store, writer, op, at, n, got, txs, found, answer, ghosts>>

NextTransaction ==
  /\ rpc = "next"
  /\ \/ todo = {} /\ Answer("list") /\ UNCHANGED <<at, todo>>
     \/ /\ \E t \in todo : at' = t /\ todo' = todo \ {t}
        /\ rpc' = "find"
        /\ UNCHANGED answer
  /\ UNCHANGED <<store, writer, op, n, got, txs, found, ghosts>>

Read == \/ \E number \in Heights \cup {0} : GetBlock(number)
        \/ \E t \in Tx : GetTransactionStatus(t)
        \/ GetTransactionsForWallet
        \/ FindBlockForTransaction \/ CheckCount \/ GetBlockHeader \/ GetBlockTransaction
        \/ UseBlock \/ ListTransactions \/ NextTransaction

Next == Read \/ Write

Init ==
  /\ chain = Base /\ numBlocks = Len(Base)
  /\ header = [x \in Heights |-> IF x <= Len(Base) THEN Base[x] ELSE NoBlock]
  /\ slot = [x \in Heights |-> [y \in 1 .. MostTxs |->
               IF x <= Len(Base) /\ y <= Len(TxsOf[Base[x]]) THEN TxsOf[Base[x]][y] ELSE NoTx]]
  /\ walletTxs = InChain(Base)
  /\ txdb = [t \in Tx |-> IF \E b \in ToSet(Base) : t \in ToSet(TxsOf[b])
                          THEN Height[CHOOSE b \in ToSet(Base) : t \in ToSet(TxsOf[b])] ELSE 0]
  /\ cur = NoBlock /\ wpc = "idle" /\ k = 0
  /\ op = "block" /\ at = NoTx /\ rpc = "idle" /\ n = 0
  /\ got = NoBlock /\ txs = <<>> /\ todo = {} /\ found = {} /\ answer = "none"
  /\ everIn = {} /\ everOut = {} /\ rewritten = FALSE

Spec == Init /\ [][Next]_vars

-----------------------------------------------------------------------------
\* Headers and transactions are where their keys say, and each thread is at a
\* line of its own.
TypeOK ==
  /\ \A x \in Heights : header[x] = NoBlock \/ Height[header[x]] = x
  /\ numBlocks = Len(chain) /\ numBlocks \in Heights
  /\ wpc \in {"idle", "insert", "header", "slots", "rollback", "uncount", "unlist"}
  /\ rpc \in {"idle", "find", "count", "header", "slots", "list", "next"}
  /\ ToSet(txs) \cup todo \cup found \subseteq Tx /\ txdb \in [Tx -> Heights \cup {0}]

\* getRawData and getBlock read a block key by key, with no lock: it is torn, or
\* another one than was counted, only if that number was written meanwhile.  A
\* pop leaves the block in the store, and a block is counted when it is whole.
BlockWhole ==
  answer = "block" /\ ~rewritten => txs = TxsOf[got] /\ ToSet(txs) \subseteq everIn

\* getTransactionStatus asks the transaction store and then the chain: what it
\* says was so at some moment of the request.  getTransactionsForWallet looks
\* each transaction of the index up: it lists none that was at no moment in the
\* chain, and all that were at every moment.
AnswerWasSo ==
  /\ answer = "IN_CHAIN" => at \in everIn
  /\ answer = "NOT_IN_CHAIN" => at \in everOut
  /\ answer = "list" => found \subseteq everIn /\ Tx \ everOut \subseteq found

=============================================================================
