---------------------------- MODULE ReaderProofs ----------------------------
(***************************************************************************)
(* What a request that reads blocks without the lock may answer while      *)
(* another thread adds and pops them, for blocks and chains of every size. *)
(***************************************************************************)
EXTENDS NodeProofs

-----------------------------------------------------------------------------
\* The transactions of a block, of the blocks that are counted, and of the one
\* that is added or popped.
Txs     == [b \in Block |-> Reading!ToSet(TxsOf[b])]
Counted == UNION {Txs[chain[x]] : x \in 1 .. Len(chain)}
Changed == IF cur = NoBlock THEN {} ELSE Txs[cur]

\* Block b is stored at number x, up to its y-th transaction.
Stored(b, x, y) ==
  header[x] = b /\ \A z \in 1 .. y : slot[x][z] = TxsOf[b][z]

Whole(b, x) == Stored(b, x, Len(TxsOf[b]))

StoreTypes ==
  /\ chain \in Seq(Block) /\ numBlocks = Len(chain)
  /\ header \in [Reading!Heights -> Block \cup {NoBlock}]
  /\ slot \in [Reading!Heights -> [1 .. Reading!MostTxs -> Reading!Tx \cup {NoBlock}]]
  /\ walletTxs \subseteq Reading!Tx
  /\ txdb \in [Reading!Tx -> Reading!Heights \cup {0}]

\* The blocks that are counted are at their numbers, share no transaction and are
\* whole.
ChainStored ==
  \A x \in 1 .. Len(chain) :
    /\ Height[chain[x]] = x /\ Whole(chain[x], x)
    /\ \A y \in 1 .. Len(chain) : y # x => Txs[chain[x]] \cap Txs[chain[y]] = {}

\* How far the writer is: what it has written of a block that it adds, what it
\* has taken back of one that it pops.
Adding ==
  /\ wpc \in {"insert", "header", "slots", "unlist"}
  /\ cur \in Block /\ Height[cur] = Len(chain) + 1 /\ Txs[cur] \cap Counted = {}
  /\ wpc \in {"header", "slots"} => \A t \in Txs[cur] : txdb[t] = Height[cur]
  /\ wpc = "slots" =>
       /\ written \in 1 .. Len(TxsOf[cur]) + 1
       /\ Stored(cur, Height[cur], written - 1)
       /\ \A z \in 1 .. written - 1 : TxsOf[cur][z] \in walletTxs
  /\ wpc = "unlist" => \A t \in Txs[cur] : txdb[t] = 0

Popping ==
  /\ wpc \in {"rollback", "uncount"}
  /\ Len(chain) > 0 /\ cur = chain[Len(chain)]
  /\ wpc = "uncount" => \A t \in Txs[cur] : txdb[t] = 0

WriterAt == (wpc = "idle" /\ cur = NoBlock) \/ Adding \/ Popping

\* The transaction store and the index of wallets are right about everything but
\* the block that is being changed.
Indexed ==
  /\ \A t \in Reading!Tx : txdb[t] # 0 => t \in Counted \cup Changed
  /\ \A t \in Counted \ Changed :
       /\ txdb[t] \in 1 .. Len(chain) /\ t \in Txs[chain[txdb[t]]]
       /\ t \in walletTxs

WriterInv == StoreTypes /\ ChainStored /\ WriterAt /\ Indexed

-----------------------------------------------------------------------------
LEMMA BlockFacts ==
  ASSUME Reading!ReadersAssumption, NEW b \in Block
  PROVE  /\ Height[b] \in Nat \ {0} /\ Height[b] \in Reading!Heights
         /\ TxsOf[b] \in Seq(Reading!Tx)
         /\ Len(TxsOf[b]) \in Nat /\ Len(TxsOf[b]) <= Reading!MostTxs
         /\ Txs[b] \subseteq Reading!Tx
         /\ \A z \in 1 .. Len(TxsOf[b]) : TxsOf[b][z] \in Txs[b]
         /\ \A t \in Txs[b] : \E z \in 1 .. Len(TxsOf[b]) : t = TxsOf[b][z]
         /\ Reading!ToSet(TxsOf[b]) = Txs[b]
         /\ b # NoBlock
<1>1. TxsOf[b] \in Seq(Reading!Tx) /\ Len(TxsOf[b]) \in Nat /\ DOMAIN TxsOf[b] = 1 .. Len(TxsOf[b])
  BY DEF Reading!ReadersAssumption
<1>2. Height[b] \in Nat \ {0} /\ Height[b] \in Reading!Heights /\ b # NoBlock
  BY DEF Reading!ReadersAssumption, Reading!Heights
<1>3. Reading!ToSet(TxsOf[b]) = Txs[b]
  BY DEF Txs
<1>4. Txs[b] = {TxsOf[b][z] : z \in DOMAIN TxsOf[b]}
  BY <1>3 DEF Reading!ToSet
<1>5. Txs[b] \subseteq Reading!Tx
  BY <1>3 DEF Reading!Tx
<1>6. Len(TxsOf[b]) <= Reading!MostTxs
  <2>. DEFINE lens == {Len(TxsOf[c]) : c \in Block}
              Most(m) == \A c \in Block : Len(TxsOf[c]) <= m
  <2>1. \E m \in lens : Most(m)
    BY DEF Reading!ReadersAssumption
  <2>2. Reading!MostTxs \in lens /\ Most(Reading!MostTxs)
    BY <2>1 DEF Reading!MostTxs
  <2>. QED  BY <2>2
<1>. QED  BY <1>1, <1>2, <1>3, <1>4, <1>5, <1>6

LEMMA NumberFacts ==
  ASSUME Reading!ReadersAssumption
  PROVE  /\ Reading!Heights \subseteq Nat \ {0} /\ NoBlock \notin Reading!Tx /\ NoBlock \notin Block
         /\ Reading!MostTxs \in Nat
<1>1. Reading!Heights \subseteq Nat \ {0}
  BY BlockFacts DEF Reading!Heights
<1>2. Reading!MostTxs \in Nat
  <2>. DEFINE lens == {Len(TxsOf[c]) : c \in Block}
              Most(m) == \A c \in Block : Len(TxsOf[c]) <= m
  <2>1. \E m \in lens : Most(m)
    BY DEF Reading!ReadersAssumption
  <2>2. Reading!MostTxs \in lens
    BY <2>1 DEF Reading!MostTxs
  <2>3. lens \subseteq Nat
    BY BlockFacts
  <2>. QED  BY <2>2, <2>3
<1>. QED  BY <1>1, <1>2 DEF Reading!ReadersAssumption

LEMMA InChainIs ==
  ASSUME Reading!ReadersAssumption, NEW s \in Seq(Block)
  PROVE  Reading!InChain(s) = UNION {Txs[s[x]] : x \in 1 .. Len(s)}
<1>1. Reading!ToSet(s) = {s[x] : x \in 1 .. Len(s)}
  BY DEF Reading!ToSet
<1>2. \A x \in 1 .. Len(s) : s[x] \in Block /\ Reading!ToSet(TxsOf[s[x]]) = Txs[s[x]]
  BY BlockFacts
<1>. QED  BY <1>1, <1>2 DEF Reading!InChain

LEMMA ChangingIs ==
  ASSUME Reading!ReadersAssumption, NEW c \in Block \cup {NoBlock}
  PROVE  Reading!Changing(c) = IF c = NoBlock THEN {} ELSE Txs[c]
  BY BlockFacts DEF Reading!Changing

\* What the thread that writes leaves to the requests.
Beside ==
  /\ UNCHANGED <<op, at, rpc, number, got, txs, todo, found, answer>>
  /\ rpc = "idle" => UNCHANGED <<everIn, everOut, rewritten>>
  /\ rpc # "idle" =>
       /\ everIn' = everIn \cup Counted' \cup Changed'
       /\ everOut' = everOut \cup (Reading!Tx \ Counted') \cup Changed'
       /\ rewritten => rewritten'
  /\ \A x \in Reading!Heights :
       x # Len(chain) + 1 \/ (rpc # "idle" /\ x = number /\ ~rewritten') =>
         header'[x] = header[x] /\ slot'[x] = slot[x]
  /\ \A x \in 1 .. Len(chain) :
       \/ x \in 1 .. Len(chain') /\ chain'[x] = chain[x]
       \/ Txs[chain[x]] \subseteq Changed'

LEMMA WatchIs ==
  ASSUME Reading!ReadersAssumption, chain' \in Seq(Block), cur' \in Block \cup {NoBlock},
         NEW w, Reading!Watch(chain', cur', w)
  PROVE  /\ rpc = "idle" => UNCHANGED <<everIn, everOut, rewritten>>
         /\ rpc # "idle" =>
              /\ everIn' = everIn \cup Counted' \cup Changed'
              /\ everOut' = everOut \cup (Reading!Tx \ Counted') \cup Changed'
              /\ rewritten => rewritten'
              /\ w = number => rewritten'
<1>1. Reading!InChain(chain') = Counted' /\ Reading!Changing(cur') = Changed'
  BY InChainIs, ChangingIs DEF Counted, Changed
<1>. QED  BY <1>1 DEF Reading!Watch

LEMMA WriterIs ==
  ASSUME Reading!ReadersAssumption, WriterInv
  PROVE  /\ wpc = "idle" => cur = NoBlock /\ Changed = {}
         /\ wpc \in {"insert", "header", "slots", "unlist"} => Adding /\ Changed = Txs[cur]
         /\ wpc \in {"rollback", "uncount"} => Popping /\ cur \in Block /\ Changed = Txs[cur]
         /\ cur \in Block \cup {NoBlock}
         /\ Len(chain) \in Nat /\ \A x \in 1 .. Len(chain) : chain[x] \in Block
         /\ Counted \subseteq Reading!Tx /\ Changed \subseteq Reading!Tx
<1>1. Len(chain) \in Nat /\ \A x \in 1 .. Len(chain) : chain[x] \in Block
  BY DEF WriterInv, StoreTypes
<1>2. \A b \in Block : Txs[b] \subseteq Reading!Tx /\ b # NoBlock
  BY BlockFacts
<1>3. Counted \subseteq Reading!Tx
  BY <1>1, <1>2 DEF Counted
<1>4. CASE wpc = "idle" /\ cur = NoBlock
  BY <1>1, <1>3, <1>4 DEF Changed
<1>5. CASE Adding
  BY <1>1, <1>2, <1>3, <1>5 DEF Adding, Changed
<1>6. CASE Popping
  <2>1. cur \in Block
    BY <1>1, <1>6 DEF Popping
  <2>. QED  BY <1>1, <1>2, <1>3, <1>6, <2>1 DEF Popping, Changed
<1>. QED  BY <1>4, <1>5, <1>6 DEF WriterInv, WriterAt

LEMMA ChainNumbers ==
  ASSUME Reading!ReadersAssumption, WriterInv, NEW x \in 1 .. Len(chain)
  PROVE  x \in Reading!Heights /\ x # Len(chain) + 1 /\ chain[x] \in Block /\ Height[chain[x]] = x
<1>1. chain[x] \in Block /\ Height[chain[x]] = x /\ Len(chain) \in Nat
  BY DEF WriterInv, StoreTypes, ChainStored
<1>2. x # Len(chain) + 1
  BY <1>1
<1>. QED  BY <1>1, <1>2, BlockFacts

\* Other numbers than those of the chain are written.
LEMMA ChainStays ==
  ASSUME WriterInv, chain' = chain,
         \A x \in 1 .. Len(chain) : header'[x] = header[x] /\ slot'[x] = slot[x]
  PROVE  ChainStored'
<1>1. \A x \in 1 .. Len(chain) : Whole(chain[x], x)' <=> Whole(chain[x], x)
  BY DEF Whole, Stored
<1>. QED  BY <1>1 DEF WriterInv, ChainStored

\* The chain and the store stay as they are.
LEMMA SameStore ==
  ASSUME Reading!ReadersAssumption, WriterInv, UNCHANGED <<header, slot, numBlocks, chain>>
  PROVE  /\ ChainStored' /\ Counted' = Counted
         /\ walletTxs' \subseteq Reading!Tx /\ txdb' \in [Reading!Tx -> Reading!Heights \cup {0}] =>
              StoreTypes'
         /\ \A b \in Block, x \in Reading!Heights, y \in Nat : Stored(b, x, y)' <=> Stored(b, x, y)
<1>1. \A b \in Block, x \in Reading!Heights, y \in Nat : Stored(b, x, y)' <=> Stored(b, x, y)
  BY DEF Stored
<1>2. ChainStored'
  BY ChainStays DEF WriterInv
<1>3. Counted' = Counted
  BY DEF Counted
<1>4. walletTxs' \subseteq Reading!Tx /\ txdb' \in [Reading!Tx -> Reading!Heights \cup {0}] =>
        StoreTypes'
  BY DEF WriterInv, StoreTypes
<1>. QED  BY <1>1, <1>2, <1>3, <1>4

LEMMA AddBlockWrites ==
  ASSUME Reading!ReadersAssumption, WriterInv, NEW b \in Block, Reading!AddBlock(b)
  PROVE  WriterInv' /\ Beside
<1>1. /\ UNCHANGED <<header, slot, walletTxs, txdb, numBlocks, chain>>
      /\ UNCHANGED <<op, at, rpc, number, got, txs, todo, found, answer>>
      /\ wpc = "idle" /\ cur' = b /\ wpc' = "insert" /\ Reading!Watch(chain', cur', 0)
      /\ Height[b] = numBlocks + 1
      /\ Reading!ToSet(TxsOf[b]) \cap Reading!InChain(chain) = {}
  BY DEF Reading!AddBlock, Reading!store, Reading!request
<1>2. Height[b] = Len(chain) + 1 /\ Txs[b] \cap Counted = {}
  BY <1>1, BlockFacts, InChainIs DEF WriterInv, StoreTypes, Counted
<1>3. StoreTypes' /\ ChainStored' /\ Counted' = Counted
  BY <1>1, SameStore DEF WriterInv, StoreTypes
<1>4. Changed = {}
  BY <1>1, WriterIs
<1>5. Adding'
  BY <1>1, <1>2, <1>3 DEF Adding
<1>6. Indexed'
  BY <1>1, <1>3, <1>4 DEF WriterInv, Indexed
<1>7. chain' \in Seq(Block) /\ cur' \in Block \cup {NoBlock}
  BY <1>1 DEF WriterInv, StoreTypes
<1>8. Beside
  BY <1>1, <1>7, WatchIs DEF Beside
<1>. QED  BY <1>3, <1>5, <1>6, <1>8 DEF WriterInv, WriterAt

LEMMA InsertTransactionsWrites ==
  ASSUME Reading!ReadersAssumption, WriterInv, Reading!InsertTransactions
  PROVE  WriterInv' /\ Beside
<1>1. /\ UNCHANGED <<header, slot, walletTxs, numBlocks, chain, cur>>
      /\ UNCHANGED <<op, at, rpc, number, got, txs, todo, found, answer>>
      /\ wpc = "insert" /\ wpc' = "header" /\ Reading!Watch(chain', cur', 0)
      /\ txdb' = [t \in Reading!Tx |-> IF t \in Reading!ToSet(TxsOf[cur]) THEN Height[cur] ELSE txdb[t]]
  BY DEF Reading!InsertTransactions, Reading!request
<1>2. Adding /\ cur \in Block /\ Changed = Txs[cur]
  BY <1>1, WriterIs DEF Adding
<1>3. /\ txdb' = [t \in Reading!Tx |-> IF t \in Txs[cur] THEN Height[cur] ELSE txdb[t]]
      /\ Txs[cur] \subseteq Reading!Tx /\ Height[cur] \in Reading!Heights
  BY <1>1, <1>2, BlockFacts
<1>4. txdb' \in [Reading!Tx -> Reading!Heights \cup {0}]
  BY <1>3 DEF WriterInv, StoreTypes
<1>5. StoreTypes' /\ ChainStored' /\ Counted' = Counted
  BY <1>1, <1>4, SameStore DEF WriterInv, StoreTypes
<1>6. Changed' = Changed
  BY <1>1 DEF Changed
<1>7. Adding'
  BY <1>1, <1>2, <1>3, <1>5 DEF Adding
<1>8. Indexed'
  <2>1. \A t \in Reading!Tx : t \notin Changed => txdb'[t] = txdb[t]
    BY <1>2, <1>3
  <2>2. \A t \in Counted \ Changed : t \in Reading!Tx
    BY WriterIs
  <2>. QED  BY <1>1, <1>5, <1>6, <2>1, <2>2 DEF WriterInv, Indexed
<1>9. Beside
  BY <1>1, <1>2, WatchIs DEF Beside, WriterInv, StoreTypes
<1>. QED  BY <1>5, <1>7, <1>8, <1>9 DEF WriterInv, WriterAt

LEMMA SetBlockWrites ==
  ASSUME Reading!ReadersAssumption, WriterInv, Reading!SetBlock
  PROVE  WriterInv' /\ Beside
<1>1. /\ UNCHANGED <<slot, walletTxs, txdb, numBlocks, chain, cur>>
      /\ UNCHANGED <<op, at, rpc, number, got, txs, todo, found, answer>>
      /\ wpc = "header" /\ wpc' = "slots" /\ written' = 1
      /\ header' = [header EXCEPT ![Height[cur]] = cur]
      /\ Reading!Watch(chain', cur', Height[cur])
  BY DEF Reading!SetBlock, Reading!request
<1>2. /\ Adding /\ cur \in Block /\ Height[cur] \in Reading!Heights /\ Height[cur] = Len(chain) + 1
      /\ Len(TxsOf[cur]) \in Nat
  BY <1>1, WriterIs, BlockFacts DEF Adding
<1>3. /\ \A x \in Reading!Heights : x # Len(chain) + 1 => header'[x] = header[x]
      /\ header'[Len(chain) + 1] = cur
      /\ header' \in [Reading!Heights -> Block \cup {NoBlock}]
  BY <1>1, <1>2 DEF WriterInv, StoreTypes
<1>4. StoreTypes'
  BY <1>1, <1>3 DEF WriterInv, StoreTypes
<1>5. ChainStored'
  <2>1. \A x \in 1 .. Len(chain) : header'[x] = header[x]
    <3>. SUFFICES ASSUME NEW x \in 1 .. Len(chain)  PROVE header'[x] = header[x]
      OBVIOUS
    <3>1. x \in Reading!Heights /\ x # Len(chain) + 1
      BY ChainNumbers
    <3>. QED  BY <1>3, <3>1
  <2>. QED  BY <1>1, <2>1, ChainStays
<1>6. Counted' = Counted /\ Changed' = Changed
  BY <1>1 DEF Counted, Changed
<1>7. Adding'
  BY <1>1, <1>2, <1>3, <1>6 DEF Adding, Stored
<1>8. Indexed'
  BY <1>1, <1>6 DEF WriterInv, Indexed
<1>9. Beside
  <2>1. rpc # "idle" /\ Height[cur] = number => rewritten'
    BY <1>1, <1>2, WatchIs DEF WriterInv, StoreTypes
  <2>. QED  BY <1>1, <1>2, <1>3, <2>1, WatchIs DEF Beside, WriterInv, StoreTypes
<1>. QED  BY <1>4, <1>5, <1>7, <1>8, <1>9 DEF WriterInv, WriterAt

LEMMA SetTransactionWrites ==
  ASSUME Reading!ReadersAssumption, WriterInv, Reading!SetTransaction
  PROVE  WriterInv' /\ Beside
<1>. DEFINE h == Height[cur]
            w == written
            t == TxsOf[cur][w]
<1>1. /\ UNCHANGED <<header, txdb, numBlocks, chain, cur, wpc>>
      /\ UNCHANGED <<op, at, rpc, number, got, txs, todo, found, answer>>
      /\ wpc = "slots" /\ w <= Len(TxsOf[cur]) /\ written' = w + 1
      /\ slot' = [slot EXCEPT ![h][w] = t]
      /\ walletTxs' = walletTxs \cup {t}
      /\ Reading!Watch(chain', cur', h)
  BY DEF Reading!SetTransaction, Reading!request
<1>2. /\ Adding /\ cur \in Block /\ h \in Reading!Heights /\ h = Len(chain) + 1
      /\ Len(TxsOf[cur]) \in Nat /\ Len(TxsOf[cur]) <= Reading!MostTxs
      /\ Reading!MostTxs \in Nat
  BY <1>1, WriterIs, BlockFacts, NumberFacts DEF Adding
<1>3. w \in 1 .. Len(TxsOf[cur]) /\ w \in 1 .. Reading!MostTxs /\ t \in Txs[cur] /\ t \in Reading!Tx
  <2>1. w \in 1 .. Len(TxsOf[cur]) + 1
    BY <1>1, <1>2 DEF Adding
  <2>2. w \in 1 .. Len(TxsOf[cur]) /\ w \in 1 .. Reading!MostTxs
    BY <1>1, <1>2, <2>1
  <2>. QED  BY <1>2, <2>2, BlockFacts
<1>4. /\ slot' \in [Reading!Heights -> [1 .. Reading!MostTxs -> Reading!Tx \cup {NoBlock}]]
      /\ \A x \in Reading!Heights : x # h => slot'[x] = slot[x]
      /\ slot'[h][w] = t
      /\ \A z \in 1 .. Reading!MostTxs : z # w => slot'[h][z] = slot[h][z]
  BY <1>1, <1>2, <1>3 DEF WriterInv, StoreTypes
<1>. HIDE DEF h, w, t
<1>5. StoreTypes'
  BY <1>1, <1>3, <1>4 DEF WriterInv, StoreTypes
<1>6. ChainStored'
  <2>1. \A x \in 1 .. Len(chain) : slot'[x] = slot[x]
    <3>. SUFFICES ASSUME NEW x \in 1 .. Len(chain)  PROVE slot'[x] = slot[x]
      OBVIOUS
    <3>1. x \in Reading!Heights /\ x # h
      BY <1>2, ChainNumbers
    <3>. QED  BY <1>4, <3>1
  <2>. QED  BY <1>1, <2>1, ChainStays
<1>7. Counted' = Counted /\ Changed' = Changed
  BY <1>1 DEF Counted, Changed
<1>8. Adding'
  <2>1. Stored(cur, h, w - 1) /\ \A z \in 1 .. w - 1 : TxsOf[cur][z] \in walletTxs
    BY <1>1, <1>2 DEF Adding, h, w
  <2>2. \A z \in 1 .. w : z \in 1 .. w - 1 \/ z = w
    BY <1>3
  <2>3. \A z \in 1 .. w - 1 : z \in 1 .. Reading!MostTxs /\ z # w
    BY <1>3, <1>2
  <2>4. header'[h] = cur /\ \A z \in 1 .. w : slot'[h][z] = TxsOf[cur][z]
    BY <1>1, <1>4, <2>1, <2>2, <2>3 DEF Stored, t
  <2>5. \A z \in 1 .. w : TxsOf[cur][z] \in walletTxs'
    BY <1>1, <2>1, <2>2 DEF t
  <2>6. w + 1 \in 1 .. Len(TxsOf[cur]) + 1 /\ (w + 1) - 1 = w
    BY <1>2, <1>3
  <2>. QED  BY <1>1, <1>2, <1>7, <2>4, <2>5, <2>6 DEF Adding, Stored, h
<1>9. Indexed'
  BY <1>1, <1>7 DEF WriterInv, Indexed
<1>10. Beside
  <2>1. rpc # "idle" /\ h = number => rewritten'
    BY <1>1, <1>2, WatchIs DEF WriterInv, StoreTypes
  <2>. QED  BY <1>1, <1>2, <1>4, <2>1, WatchIs DEF Beside, WriterInv, StoreTypes
<1>. QED  BY <1>5, <1>6, <1>8, <1>9, <1>10 DEF WriterInv, WriterAt

LEMMA CountBlockWrites ==
  ASSUME Reading!ReadersAssumption, WriterInv, Reading!CountBlock
  PROVE  WriterInv' /\ Beside
<1>. DEFINE n == Len(chain)
<1>1. /\ UNCHANGED <<header, slot, walletTxs, txdb>>
      /\ UNCHANGED <<op, at, rpc, number, got, txs, todo, found, answer>>
      /\ wpc = "slots" /\ written > Len(TxsOf[cur])
      /\ numBlocks' = numBlocks + 1 /\ chain' = Append(chain, cur)
      /\ cur' = NoBlock /\ wpc' = "idle"
      /\ Reading!Watch(chain', cur', 0)
  BY DEF Reading!CountBlock, Reading!request
<1>2. /\ Adding /\ cur \in Block /\ Height[cur] = n + 1 /\ n \in Nat /\ Changed = Txs[cur]
      /\ Len(TxsOf[cur]) \in Nat
  BY <1>1, WriterIs, BlockFacts DEF Adding
<1>3. written - 1 = Len(TxsOf[cur])
  BY <1>1, <1>2 DEF Adding
<1>4. /\ Whole(cur, n + 1) /\ \A t \in Txs[cur] : t \in walletTxs /\ txdb[t] = n + 1
      /\ Txs[cur] \cap Counted = {}
  <2>1. /\ Stored(cur, Height[cur], written - 1) /\ \A t \in Txs[cur] : txdb[t] = Height[cur]
        /\ \A z \in 1 .. written - 1 : TxsOf[cur][z] \in walletTxs
        /\ Txs[cur] \cap Counted = {}
    BY <1>1, <1>2 DEF Adding
  <2>2. \A t \in Txs[cur] : t \in walletTxs
    <3>1. \A t \in Txs[cur] : \E z \in 1 .. Len(TxsOf[cur]) : t = TxsOf[cur][z]
      BY <1>2, BlockFacts
    <3>. QED  BY <1>3, <2>1, <3>1
  <2>. QED  BY <1>2, <1>3, <2>1, <2>2 DEF Whole
<1>5. /\ chain' \in Seq(Block) /\ Len(chain') = n + 1 /\ chain'[n + 1] = cur
      /\ \A x \in 1 .. n : chain'[x] = chain[x]
  BY <1>1, <1>2 DEF WriterInv, StoreTypes
<1>6. \A x \in 1 .. n + 1 : x \in 1 .. n \/ x = n + 1
  BY <1>2
<1>. HIDE DEF n
<1>7. Counted' = Counted \cup Txs[cur] /\ Changed' = {}
  <2>1. Counted' = UNION {Txs[chain'[x]] : x \in 1 .. n + 1}
    BY <1>5 DEF Counted
  <2>2. n + 1 \in 1 .. n + 1 /\ \A x \in 1 .. n : x \in 1 .. n + 1
    BY <1>2 DEF n
  <2>3. Counted = UNION {Txs[chain[x]] : x \in 1 .. n}
    BY DEF Counted, n
  <2>4. Counted' = Counted \cup Txs[cur]
    BY <1>5, <1>6, <2>1, <2>2, <2>3
  <2>. QED  BY <1>1, <2>4 DEF Changed
<1>8. StoreTypes'
  BY <1>1, <1>5 DEF WriterInv, StoreTypes, n
<1>9. ChainStored'
  <2>2. \A x \in 1 .. n : /\ chain[x] \in Block /\ Height[chain[x]] = x /\ Whole(chain[x], x)
                          /\ Txs[chain[x]] \cap Txs[cur] = {}
                          /\ \A y \in 1 .. n : y # x => Txs[chain[x]] \cap Txs[chain[y]] = {}
    <3>1. \A x \in 1 .. n : Txs[chain[x]] \subseteq Counted
      BY DEF Counted, n
    <3>2. \A x \in 1 .. n : Txs[chain[x]] \cap Txs[cur] = {}
      BY <1>4, <3>1
    <3>. QED  BY <3>2, ChainNumbers DEF WriterInv, ChainStored, n
  <2>. SUFFICES ASSUME NEW x \in 1 .. n + 1
                PROVE  /\ Height[chain'[x]] = x /\ header'[x] = chain'[x]
                       /\ \A z \in 1 .. Len(TxsOf[chain'[x]]) : slot'[x][z] = TxsOf[chain'[x]][z]
                       /\ \A y \in 1 .. n + 1 : y # x => Txs[chain'[x]] \cap Txs[chain'[y]] = {}
    BY <1>5 DEF ChainStored, Whole, Stored
  <2>3. chain'[x] \in Block /\ Height[chain'[x]] = x /\ Whole(chain'[x], x)
    BY <1>2, <1>4, <1>5, <1>6, <2>2
  <2>4. /\ header'[x] = chain'[x]
        /\ \A z \in 1 .. Len(TxsOf[chain'[x]]) : slot'[x][z] = TxsOf[chain'[x]][z]
    BY <1>1, <2>3 DEF Whole, Stored
  <2>5. ASSUME NEW y \in 1 .. n + 1, y # x  PROVE Txs[chain'[x]] \cap Txs[chain'[y]] = {}
    <3>1. CASE x \in 1 .. n /\ y \in 1 .. n
      BY <1>5, <2>2, <2>5, <3>1
    <3>2. CASE x = n + 1 /\ y \in 1 .. n
      BY <1>5, <2>2, <3>2
    <3>3. CASE x \in 1 .. n /\ y = n + 1
      BY <1>5, <2>2, <3>3
    <3>. QED  BY <1>6, <2>5, <3>1, <3>2, <3>3
  <2>. QED  BY <2>3, <2>4, <2>5
<1>10. Indexed'
  <2>1. ASSUME NEW t \in Reading!Tx, txdb'[t] # 0  PROVE t \in Counted' \cup Changed'
    BY <1>1, <1>2, <1>7, <2>1 DEF WriterInv, Indexed
  <2>2. ASSUME NEW t \in Counted' \ Changed'
        PROVE  txdb'[t] \in 1 .. n + 1 /\ t \in Txs[chain'[txdb'[t]]] /\ t \in walletTxs'
    <3>1. CASE t \in Txs[cur]
      BY <1>1, <1>2, <1>4, <1>5, <3>1 DEF n
    <3>2. CASE t \in Counted \ Changed
      <4>1. txdb[t] \in 1 .. n /\ t \in Txs[chain[txdb[t]]] /\ t \in walletTxs
        BY <3>2 DEF WriterInv, Indexed, n
      <4>. QED  BY <1>1, <1>2, <1>5, <4>1
    <3>. QED  BY <1>2, <1>7, <2>2, <3>1, <3>2
  <2>. QED  BY <1>5, <2>1, <2>2 DEF Indexed
<1>11. Beside
  <2>1. \A x \in 1 .. n : x \in 1 .. Len(chain')
    BY <1>2, <1>5 DEF n
  <2>. QED  BY <1>1, <1>5, <2>1, WatchIs DEF Beside, WriterInv, StoreTypes, n
<1>. QED  BY <1>1, <1>8, <1>9, <1>10, <1>11 DEF WriterInv, WriterAt

LEMMA PopBlockWrites ==
  ASSUME Reading!ReadersAssumption, WriterInv, Reading!PopBlock
  PROVE  WriterInv' /\ Beside
<1>1. /\ UNCHANGED <<header, slot, walletTxs, txdb, numBlocks, chain>>
      /\ UNCHANGED <<op, at, rpc, number, got, txs, todo, found, answer>>
      /\ wpc = "idle" /\ wpc' = "rollback" /\ cur' = chain[Len(chain)]
      /\ numBlocks > Len(Base)
      /\ Reading!Watch(chain, cur', 0)
  BY DEF Reading!PopBlock, Reading!store, Reading!request, Reading!Last
<1>2. Len(chain) > 0 /\ cur' \in Block
  <2>1. Len(Base) \in Nat
    BY DEF Reading!ReadersAssumption
  <2>2. numBlocks = Len(chain) /\ Len(chain) \in Nat
    BY DEF WriterInv, StoreTypes
  <2>. QED  BY <1>1, <2>1, <2>2, WriterIs
<1>3. StoreTypes' /\ ChainStored' /\ Counted' = Counted
  BY <1>1, SameStore DEF WriterInv, StoreTypes
<1>4. Changed = {}
  BY <1>1, WriterIs
<1>5. Popping'
  BY <1>1, <1>2 DEF Popping
<1>6. Indexed'
  BY <1>1, <1>3, <1>4 DEF WriterInv, Indexed
<1>7. chain' \in Seq(Block) /\ Reading!Watch(chain', cur', 0)
  BY <1>1 DEF WriterInv, StoreTypes
<1>8. Beside
  BY <1>1, <1>2, <1>7, WatchIs DEF Beside
<1>. QED  BY <1>3, <1>5, <1>6, <1>8 DEF WriterInv, WriterAt

LEMMA RollbackBlockWrites ==
  ASSUME Reading!ReadersAssumption, WriterInv, Reading!RollbackBlock
  PROVE  WriterInv' /\ Beside
<1>1. /\ UNCHANGED <<header, slot, walletTxs, numBlocks, chain, cur>>
      /\ UNCHANGED <<op, at, rpc, number, got, txs, todo, found, answer>>
      /\ wpc = "rollback" /\ wpc' = "uncount" /\ Reading!Watch(chain', cur', 0)
      /\ txdb' = [t \in Reading!Tx |-> IF t \in Reading!ToSet(TxsOf[cur]) THEN 0 ELSE txdb[t]]
  BY DEF Reading!RollbackBlock, Reading!request
<1>2. Popping /\ cur \in Block /\ Changed = Txs[cur]
  BY <1>1, WriterIs DEF Popping
<1>3. /\ txdb' = [t \in Reading!Tx |-> IF t \in Txs[cur] THEN 0 ELSE txdb[t]]
      /\ Txs[cur] \subseteq Reading!Tx
  BY <1>1, <1>2, BlockFacts
<1>4. txdb' \in [Reading!Tx -> Reading!Heights \cup {0}]
  BY <1>3 DEF WriterInv, StoreTypes
<1>5. StoreTypes' /\ ChainStored' /\ Counted' = Counted
  BY <1>1, <1>4, SameStore DEF WriterInv, StoreTypes
<1>6. Changed' = Changed
  BY <1>1 DEF Changed
<1>7. Popping'
  BY <1>1, <1>2, <1>3 DEF Popping
<1>8. Indexed'
  <2>1. \A t \in Reading!Tx : t \notin Changed => txdb'[t] = txdb[t]
    BY <1>2, <1>3
  <2>2. \A t \in Counted \ Changed : t \in Reading!Tx
    BY WriterIs
  <2>. QED  BY <1>1, <1>5, <1>6, <2>1, <2>2 DEF WriterInv, Indexed
<1>9. Beside
  BY <1>1, <1>2, WatchIs DEF Beside, WriterInv, StoreTypes
<1>. QED  BY <1>5, <1>7, <1>8, <1>9 DEF WriterInv, WriterAt

LEMMA UncountBlockWrites ==
  ASSUME Reading!ReadersAssumption, WriterInv, Reading!UncountBlock
  PROVE  WriterInv' /\ Beside
<1>. DEFINE n == Len(chain)
<1>1. /\ UNCHANGED <<header, slot, walletTxs, txdb, cur>>
      /\ UNCHANGED <<op, at, rpc, number, got, txs, todo, found, answer>>
      /\ wpc = "uncount" /\ wpc' = "unlist"
      /\ numBlocks' = numBlocks - 1 /\ chain' = SubSeq(chain, 1, n - 1)
      /\ Reading!Watch(chain', cur', 0)
  BY DEF Reading!UncountBlock, Reading!request, Reading!Front
<1>2. /\ Popping /\ cur \in Block /\ n \in Nat /\ n > 0 /\ cur = chain[n] /\ Changed = Txs[cur]
      /\ \A t \in Txs[cur] : txdb[t] = 0
  BY <1>1, WriterIs DEF Popping
<1>3. /\ chain' \in Seq(Block) /\ Len(chain') = n - 1
      /\ \A x \in 1 .. n - 1 : chain'[x] = chain[x] /\ x \in 1 .. n
      /\ \A x \in 1 .. n : x \in 1 .. n - 1 \/ x = n
  BY <1>1, <1>2 DEF WriterInv, StoreTypes
<1>. HIDE DEF n
<1>4. \A x \in 1 .. n : /\ chain[x] \in Block /\ Height[chain[x]] = x /\ Whole(chain[x], x)
                        /\ \A y \in 1 .. n : y # x => Txs[chain[x]] \cap Txs[chain[y]] = {}
  BY ChainNumbers DEF WriterInv, ChainStored, n
<1>5. /\ Txs[cur] \cap Counted' = {} /\ Changed' = Changed
      /\ Counted' = Counted \ Txs[cur]
  <2>1. Counted' = UNION {Txs[chain[x]] : x \in 1 .. n - 1}
    BY <1>3 DEF Counted
  <2>2. Counted = UNION {Txs[chain[x]] : x \in 1 .. n}
    BY DEF Counted, n
  <2>3. \A x \in 1 .. n - 1 : x # n /\ n \in 1 .. n
    BY <1>2
  <2>4. \A x \in 1 .. n - 1 : Txs[chain[x]] \cap Txs[cur] = {}
    BY <1>2, <1>3, <1>4, <2>3
  <2>5. Counted' \cap Txs[cur] = {} /\ Counted = Counted' \cup Txs[cur]
    BY <1>2, <1>3, <2>1, <2>2, <2>4
  <2>. QED  BY <1>1, <2>5 DEF Changed
<1>6. StoreTypes'
  BY <1>1, <1>2, <1>3 DEF WriterInv, StoreTypes, n
<1>7. ChainStored'
  <2>1. \A x \in 1 .. n - 1 :
          /\ header'[x] = chain'[x]
          /\ \A z \in 1 .. Len(TxsOf[chain'[x]]) : slot'[x][z] = TxsOf[chain'[x]][z]
    BY <1>1, <1>3, <1>4 DEF Whole, Stored
  <2>. QED  BY <1>3, <1>4, <2>1 DEF ChainStored, Whole, Stored
<1>8. Adding'
  <2>1. n \in 1 .. n /\ n - 1 + 1 = n
    BY <1>2
  <2>. QED  BY <1>1, <1>2, <1>3, <1>4, <1>5, <2>1 DEF Adding
<1>9. Indexed'
  <2>1. ASSUME NEW t \in Counted' \ Changed'
        PROVE  txdb'[t] \in 1 .. n - 1 /\ t \in Txs[chain'[txdb'[t]]] /\ t \in walletTxs'
    <3>1. t \in Counted \ Changed /\ t \notin Txs[cur]
      BY <1>2, <1>5, <2>1
    <3>2. txdb[t] \in 1 .. n /\ t \in Txs[chain[txdb[t]]] /\ t \in walletTxs
      BY <3>1 DEF WriterInv, Indexed, n
    <3>3. txdb[t] # n
      BY <1>2, <3>1, <3>2
    <3>. QED  BY <1>1, <1>3, <3>2, <3>3
  <2>2. ASSUME NEW t \in Reading!Tx, txdb'[t] # 0  PROVE t \in Counted' \cup Changed'
    BY <1>1, <1>2, <1>5, <2>2 DEF WriterInv, Indexed
  <2>. QED  BY <1>3, <2>1, <2>2 DEF Indexed
<1>10. Beside
  <2>1. \A x \in 1 .. n : \/ x \in 1 .. Len(chain') /\ chain'[x] = chain[x]
                          \/ Txs[chain[x]] \subseteq Changed'
    BY <1>2, <1>3, <1>5
  <2>. QED  BY <1>1, <1>2, <1>3, <2>1, WatchIs DEF Beside, n
<1>. QED  BY <1>6, <1>7, <1>8, <1>9, <1>10 DEF WriterInv, WriterAt

LEMMA RemoveWalletTransactionsWrites ==
  ASSUME Reading!ReadersAssumption, WriterInv, Reading!RemoveBlockWalletTransactions
  PROVE  WriterInv' /\ Beside
<1>1. /\ UNCHANGED <<header, slot, txdb, numBlocks, chain>>
      /\ UNCHANGED <<op, at, rpc, number, got, txs, todo, found, answer>>
      /\ wpc = "unlist" /\ wpc' = "idle" /\ cur' = NoBlock
      /\ walletTxs' = walletTxs \ Reading!ToSet(TxsOf[cur])
      /\ Reading!Watch(chain, cur', 0)
  BY DEF Reading!RemoveBlockWalletTransactions, Reading!request
<1>2. /\ cur \in Block /\ Changed = Txs[cur] /\ walletTxs' = walletTxs \ Txs[cur]
      /\ Txs[cur] \cap Counted = {} /\ \A t \in Txs[cur] : txdb[t] = 0
  BY <1>1, WriterIs, BlockFacts DEF Adding
<1>3. StoreTypes' /\ ChainStored' /\ Counted' = Counted
  BY <1>1, SameStore DEF WriterInv, StoreTypes
<1>4. Changed' = {}
  BY <1>1 DEF Changed
<1>5. Indexed'
  BY <1>1, <1>2, <1>3, <1>4 DEF WriterInv, Indexed
<1>6. chain' \in Seq(Block) /\ Reading!Watch(chain', cur', 0)
  BY <1>1 DEF WriterInv, StoreTypes
<1>7. Beside
  BY <1>1, <1>6, WatchIs DEF Beside
<1>. QED  BY <1>1, <1>3, <1>5, <1>7 DEF WriterInv, WriterAt

LEMMA WriteKeeps ==
  ASSUME Reading!ReadersAssumption, WriterInv, Reading!Write
  PROVE  WriterInv' /\ Beside
  BY AddBlockWrites, InsertTransactionsWrites, SetBlockWrites, SetTransactionWrites,
     CountBlockWrites, PopBlockWrites, RollbackBlockWrites, UncountBlockWrites,
     RemoveWalletTransactionsWrites
     DEF Reading!Write

-----------------------------------------------------------------------------
\* What a request has been in the presence of.
Watched ==
  rpc # "idle" => /\ Counted \cup Changed \subseteq everIn
                  /\ (Reading!Tx \ Counted) \cup Changed \subseteq everOut

\* The request has read the transactions of block b so far.
ReadOf(b) ==
  /\ got = b /\ Len(txs) <= Len(TxsOf[b])
  /\ \A z \in 1 .. Len(txs) : txs[z] = TxsOf[b][z]

RequestAt ==
  /\ number \in Reading!Heights \cup {0} /\ txs \in Seq(Reading!Tx)
  /\ \/ rpc = "idle"
     \/ /\ answer = "none"
        /\ \/ op = "block" /\ rpc \in {"count", "header", "slots"}
           \/ op = "status" /\ rpc \in {"find", "count", "header", "slots"} /\ at \in Reading!Tx
           \/ op = "wallet" /\ rpc \in {"list", "next"}
           \/ op = "wallet" /\ rpc \in {"find", "header", "slots"} /\ at \in Reading!Tx
        /\ rpc \in {"header", "slots"} => number # 0
        /\ rpc = "slots" => got \in Block

\* A block that was counted when it was looked for stays as it is until its
\* number is written again.
BlockSo ==
  op = "block" /\ rpc \in {"header", "slots"} /\ ~rewritten =>
    \E b \in Block :
      /\ Whole(b, number) /\ Txs[b] \subseteq everIn
      /\ rpc = "slots" => ReadOf(b)

\* A transaction that was found was there; one that was never away is where it
\* was found.
LookupSo ==
  op \in {"status", "wallet"} /\ rpc \in {"count", "header", "slots"} =>
    /\ number # 0 => at \in everIn
    /\ at \notin everOut =>
         /\ number \in 1 .. Len(chain) /\ at \in Txs[chain[number]]
         /\ rpc = "slots" => ReadOf(chain[number])

\* A wallet's list so far.
ListSo ==
  op = "wallet" /\ rpc \in {"list", "next", "find", "header", "slots"} =>
    /\ found \subseteq everIn /\ todo \subseteq Reading!Tx
    /\ rpc # "list" =>
         Reading!Tx \ everOut \subseteq found \cup todo \cup (IF rpc = "next" THEN {} ELSE {at})

RequestInv ==
  /\ Watched /\ RequestAt /\ BlockSo /\ LookupSo /\ ListSo
  /\ Reading!BlockWhole /\ Reading!AnswerWasSo

\* Nothing is claimed of an answer that is not given, nor of an exception.
LEMMA NoClaim ==
  ASSUME answer' \in {"none", "threw"}
  PROVE  Reading!BlockWhole' /\ Reading!AnswerWasSo'
  BY DEF Reading!BlockWhole, Reading!AnswerWasSo

LEMMA BesideKeeps ==
  ASSUME Reading!ReadersAssumption, WriterInv, RequestInv, Beside
  PROVE  RequestInv'
<1>1. UNCHANGED <<op, at, rpc, number, got, txs, todo, found, answer>>
  BY DEF Beside
<1>2. RequestAt'
  BY <1>1 DEF RequestInv, RequestAt
<1>3. CASE rpc = "idle"
  <2>1. UNCHANGED <<everIn, everOut, rewritten>>
    BY <1>3 DEF Beside
  <2>2. Reading!BlockWhole'
    BY <1>1, <2>1 DEF RequestInv, Reading!BlockWhole, Reading!ToSet
  <2>3. Reading!AnswerWasSo'
    BY <1>1, <2>1 DEF RequestInv, Reading!AnswerWasSo
  <2>. QED
    BY <1>1, <1>2, <1>3, <2>2, <2>3 DEF RequestInv, Watched, BlockSo, LookupSo, ListSo
<1>4. CASE rpc # "idle"
  <2>1. /\ everIn' = everIn \cup Counted' \cup Changed'
        /\ everOut' = everOut \cup (Reading!Tx \ Counted') \cup Changed'
        /\ rewritten => rewritten'
    BY <1>4 DEF Beside
  <2>2. answer' = "none"
    BY <1>1, <1>4 DEF RequestInv, RequestAt
  <2>3. Watched'
    BY <2>1 DEF Watched
  <2>4. BlockSo'
    <3>. SUFFICES ASSUME op = "block", rpc \in {"header", "slots"}, ~rewritten'
                  PROVE  \E b \in Block :
                           /\ header'[number] = b
                           /\ \A z \in 1 .. Len(TxsOf[b]) : slot'[number][z] = TxsOf[b][z]
                           /\ Txs[b] \subseteq everIn'
                           /\ rpc = "slots" =>
                                /\ got = b /\ Len(txs) <= Len(TxsOf[b])
                                /\ \A z \in 1 .. Len(txs) : txs[z] = TxsOf[b][z]
      BY <1>1 DEF BlockSo, Whole, Stored, ReadOf
    <3>1. PICK b \in Block : /\ Whole(b, number) /\ Txs[b] \subseteq everIn
                             /\ rpc = "slots" => ReadOf(b)
      BY <2>1 DEF RequestInv, BlockSo
    <3>2. number \in Reading!Heights
      BY DEF RequestInv, RequestAt
    <3>3. header'[number] = header[number] /\ slot'[number] = slot[number]
      BY <1>4, <3>2 DEF Beside
    <3>. QED  BY <2>1, <3>1, <3>3 DEF Whole, Stored, ReadOf
  <2>5. LookupSo'
    <3>1. ASSUME at \notin everOut', number \in 1 .. Len(chain), at \in Txs[chain[number]]
          PROVE  number \in 1 .. Len(chain') /\ chain'[number] = chain[number]
      BY <2>1, <3>1 DEF Beside
    <3>. SUFFICES ASSUME op \in {"status", "wallet"}, rpc \in {"count", "header", "slots"}
                  PROVE  /\ number # 0 => at \in everIn'
                         /\ at \notin everOut' =>
                              /\ number \in 1 .. Len(chain') /\ at \in Txs[chain'[number]]
                              /\ rpc = "slots" =>
                                   /\ got = chain'[number] /\ Len(txs) <= Len(TxsOf[chain'[number]])
                                   /\ \A z \in 1 .. Len(txs) : txs[z] = TxsOf[chain'[number]][z]
      BY <1>1 DEF LookupSo, ReadOf
    <3>. QED  BY <2>1, <3>1 DEF RequestInv, LookupSo, ReadOf
  <2>6. ListSo'
    BY <1>1, <2>1 DEF RequestInv, ListSo
  <2>. QED  BY <1>2, <2>2, <2>3, <2>4, <2>5, <2>6, NoClaim DEF RequestInv
<1>. QED  BY <1>3, <1>4

\* A request only reads.
LEMMA ReadKeepsStore ==
  ASSUME WriterInv, UNCHANGED <<header, slot, walletTxs, txdb, numBlocks, chain, cur, wpc, written>>
  PROVE  WriterInv' /\ Counted' = Counted /\ Changed' = Changed
<1>1. Counted' = Counted /\ Changed' = Changed
  BY DEF Counted, Changed
<1>2. StoreTypes' /\ ChainStored' /\ Indexed'
  BY <1>1 DEF WriterInv, StoreTypes, ChainStored, Indexed, Whole, Stored
<1>3. WriterAt'
  BY <1>1 DEF WriterInv, WriterAt, Adding, Popping, Stored
<1>. QED  BY <1>1, <1>2, <1>3 DEF WriterInv

LEMMA BeginKeeps ==
  ASSUME Reading!ReadersAssumption, WriterInv,
         NEW what, NEW of, NEW where, NEW new \in Reading!Heights \cup {0},
         Reading!Begin(what, of, new, where),
         \/ what = "block" /\ where = "count"
         \/ what = "status" /\ where = "find" /\ of \in Reading!Tx
         \/ what = "wallet" /\ where = "list"
  PROVE  WriterInv' /\ RequestInv'
<1>1. /\ UNCHANGED <<header, slot, walletTxs, txdb, numBlocks, chain, cur, wpc, written>>
      /\ op' = what /\ at' = of /\ number' = new /\ rpc' = where
      /\ txs' = <<>> /\ todo' = {} /\ found' = {} /\ answer' = "none"
      /\ everIn' = Reading!InChain(chain) \cup Reading!Changing(cur)
      /\ everOut' = (Reading!Tx \ Reading!InChain(chain)) \cup Reading!Changing(cur)
  BY DEF Reading!Begin, Reading!store, Reading!writer
<1>2. Reading!InChain(chain) = Counted /\ Reading!Changing(cur) = Changed
  BY InChainIs, ChangingIs, WriterIs DEF Counted, Changed, WriterInv, StoreTypes
<1>3. WriterInv' /\ Counted' = Counted /\ Changed' = Changed
  BY <1>1, ReadKeepsStore
<1>4. Watched'
  BY <1>1, <1>2, <1>3 DEF Watched
<1>5. RequestAt'
  BY <1>1 DEF RequestAt
<1>6. BlockSo' /\ LookupSo' /\ ListSo'
  BY <1>1 DEF BlockSo, LookupSo, ListSo
<1>. QED  BY <1>1, <1>3, <1>4, <1>5, <1>6, NoClaim DEF RequestInv

\* What a request that is under way may rely on.
Reader == WriterInv /\ RequestInv /\ rpc # "idle"

ReadsOnly ==
  UNCHANGED <<header, slot, walletTxs, txdb, numBlocks, chain, cur, wpc, written,
              everIn, everOut, rewritten>>

LEMMA ReaderFacts ==
  ASSUME Reading!ReadersAssumption, Reader
  PROVE  /\ answer = "none"
         /\ number \in Reading!Heights \cup {0} /\ txs \in Seq(Reading!Tx)
         /\ Counted \cup Changed \subseteq everIn
         /\ \A t \in Reading!Tx : t \notin everOut => t \in Counted \ Changed
         /\ \A x \in 1 .. Len(chain) :
              /\ x \in Reading!Heights /\ chain[x] \in Block /\ Whole(chain[x], x)
              /\ header[x] = chain[x] /\ header[x] # NoBlock
              /\ Txs[chain[x]] \subseteq everIn
<1>1. /\ answer = "none" /\ number \in Reading!Heights \cup {0} /\ txs \in Seq(Reading!Tx)
      /\ Counted \cup Changed \subseteq everIn
      /\ (Reading!Tx \ Counted) \cup Changed \subseteq everOut
  BY DEF Reader, RequestInv, RequestAt, Watched
<1>2. ASSUME NEW x \in 1 .. Len(chain)
      PROVE  /\ x \in Reading!Heights /\ chain[x] \in Block /\ Whole(chain[x], x)
             /\ header[x] = chain[x] /\ header[x] # NoBlock
             /\ Txs[chain[x]] \subseteq Counted
  <2>1. x \in Reading!Heights /\ chain[x] \in Block
    BY ChainNumbers DEF Reader
  <2>2. Whole(chain[x], x) /\ Txs[chain[x]] \subseteq Counted
    BY DEF Reader, WriterInv, ChainStored, Counted
  <2>. QED  BY <2>1, <2>2, BlockFacts DEF Whole, Stored
<1>. QED  BY <1>1, <1>2

\* A step that reads and goes on keeps what it does not say otherwise of.
LEMMA ReadsOnlyKeeps ==
  ASSUME Reader, ReadsOnly
  PROVE  WriterInv' /\ Watched' /\ Counted' = Counted
<1>1. WriterInv' /\ Counted' = Counted /\ Changed' = Changed
  BY ReadKeepsStore DEF Reader, ReadsOnly
<1>. QED  BY <1>1 DEF Reader, ReadsOnly, RequestInv, Watched

\* A request that ends.
LEMMA AnswerKeeps ==
  ASSUME Reader, ReadsOnly, rpc' = "idle", number' = number, txs' = txs,
         Reading!BlockWhole', Reading!AnswerWasSo'
  PROVE  WriterInv' /\ RequestInv'
<1>1. RequestAt'
  BY DEF Reader, RequestInv, RequestAt
<1>. QED  BY <1>1, ReadsOnlyKeeps DEF RequestInv, BlockSo, LookupSo, ListSo

\* A request that finds nothing: a transaction that is not where it was said to
\* be was not there all the time.
LEMMA NotThereKeeps ==
  ASSUME Reader, ReadsOnly, rpc' = "idle", answer' = Reading!NotThere,
         UNCHANGED <<op, at, number, txs>>, op = "status" => at \in everOut
  PROVE  WriterInv' /\ RequestInv'
<1>1. Reading!BlockWhole' /\ Reading!AnswerWasSo'
  <2>1. CASE op = "status"
    <3>1. answer' = "NOT_IN_CHAIN" /\ at' \in everOut'
      BY <2>1 DEF Reading!NotThere, ReadsOnly
    <3>. QED  BY <3>1 DEF Reading!BlockWhole, Reading!AnswerWasSo
  <2>2. CASE op # "status"
    <3>1. answer' = "threw"
      BY <2>2 DEF Reading!NotThere
    <3>. QED  BY <3>1, NoClaim
  <2>. QED  BY <2>1, <2>2
<1>. QED  BY <1>1, AnswerKeeps

LEMMA FindKeeps ==
  ASSUME Reading!ReadersAssumption, Reader, Reading!FindBlockForTransaction
  PROVE  WriterInv' /\ RequestInv'
<1>1. /\ ReadsOnly /\ UNCHANGED <<op, at, got, txs, todo, found, answer>>
      /\ rpc = "find" /\ number' = txdb[at]
      /\ op = "status" => rpc' = "count"
      /\ op = "wallet" => rpc' = IF number' > 0 THEN "header" ELSE "next"
  BY DEF Reading!FindBlockForTransaction, Reading!store, Reading!writer, Reading!ghosts, ReadsOnly
<1>2. op \in {"status", "wallet"} /\ at \in Reading!Tx
  BY <1>1 DEF Reader, RequestInv, RequestAt
<1>3. /\ number' \in Reading!Heights \cup {0} /\ number' \in Nat
      /\ number' # 0 => at \in Counted \cup Changed
      /\ at \in Counted \ Changed => number' \in 1 .. Len(chain) /\ at \in Txs[chain[number']]
  BY <1>1, <1>2, NumberFacts DEF Reader, WriterInv, StoreTypes, Indexed
<1>4. /\ number' # 0 => at \in everIn
      /\ at \notin everOut => number' \in 1 .. Len(chain) /\ at \in Txs[chain[number']]
  BY <1>2, <1>3, ReaderFacts
<1>5. RequestAt'
  <2>1. CASE op = "status"
    BY <1>1, <1>2, <1>3, <2>1, ReaderFacts DEF RequestAt
  <2>2. CASE op = "wallet"
    BY <1>1, <1>2, <1>3, <2>2, ReaderFacts DEF RequestAt
  <2>. QED  BY <1>2, <2>1, <2>2
<1>6. LookupSo'
  BY <1>1, <1>2, <1>4 DEF LookupSo, ReadsOnly
<1>7. ListSo'
  <2>1. op = "wallet" => /\ found \subseteq everIn /\ todo \subseteq Reading!Tx
                         /\ Reading!Tx \ everOut \subseteq found \cup todo \cup {at}
    BY <1>1 DEF Reader, RequestInv, ListSo
  <2>2. number' = 0 => at \in everOut
    BY <1>4
  <2>. QED  BY <1>1, <1>2, <1>3, <2>1, <2>2 DEF ListSo, ReadsOnly
<1>8. BlockSo'
  BY <1>1, <1>2 DEF BlockSo
<1>9. Reading!BlockWhole' /\ Reading!AnswerWasSo'
  BY <1>1, ReaderFacts, NoClaim
<1>. QED  BY <1>1, <1>5, <1>6, <1>7, <1>8, <1>9, ReadsOnlyKeeps DEF RequestInv

LEMMA CheckCountKeeps ==
  ASSUME Reading!ReadersAssumption, Reader, Reading!CheckCount
  PROVE  WriterInv' /\ RequestInv'
<1>1. /\ ReadsOnly /\ UNCHANGED <<op, at, number, got, txs, todo, found>>
      /\ rpc = "count" /\ numBlocks = Len(chain)
      /\ IF number \in 1 .. numBlocks THEN rpc' = "header" /\ answer' = answer
         ELSE answer' = Reading!NotThere /\ rpc' = "idle"
  BY DEF Reading!CheckCount, Reading!store, Reading!writer, Reading!ghosts, Reading!Answer,
         ReadsOnly, Reader, WriterInv, StoreTypes
<1>2. op = "block" \/ (op = "status" /\ at \in Reading!Tx)
  BY <1>1 DEF Reader, RequestInv, RequestAt
<1>3. CASE number \in 1 .. Len(chain)
  <2>1. rpc' = "header" /\ answer' = "none"
    BY <1>1, <1>3, ReaderFacts
  <2>2. RequestAt'
    BY <1>1, <1>2, <1>3, <2>1, ReaderFacts DEF RequestAt
  <2>3. BlockSo'
    <3>1. /\ chain[number] \in Block /\ Whole(chain[number], number)
          /\ Txs[chain[number]] \subseteq everIn
      BY <1>3, ReaderFacts
    <3>. SUFFICES \E b \in Block :
                    /\ header'[number'] = b
                    /\ \A z \in 1 .. Len(TxsOf[b]) : slot'[number'][z] = TxsOf[b][z]
                    /\ Txs[b] \subseteq everIn'
      BY <2>1 DEF BlockSo, Whole, Stored
    <3>. QED  BY <1>1, <3>1 DEF Whole, Stored, ReadsOnly
  <2>4. LookupSo'
    BY <1>1, <2>1 DEF Reader, RequestInv, LookupSo, ReadsOnly
  <2>5. ListSo'
    BY <1>1, <1>2 DEF ListSo
  <2>. QED  BY <1>1, <2>1, <2>2, <2>3, <2>4, <2>5, NoClaim, ReadsOnlyKeeps DEF RequestInv
<1>4. CASE number \notin 1 .. Len(chain)
  <2>1. op = "status" => at \in everOut
    BY <1>1, <1>4 DEF Reader, RequestInv, LookupSo
  <2>. QED  BY <1>1, <1>4, <2>1, NotThereKeeps
<1>. QED  BY <1>3, <1>4

LEMMA GetBlockHeaderKeeps ==
  ASSUME Reading!ReadersAssumption, Reader, Reading!GetBlockHeader
  PROVE  WriterInv' /\ RequestInv'
<1>1. /\ ReadsOnly /\ UNCHANGED <<op, at, number, todo, found>>
      /\ rpc = "header"
      /\ IF header[number] = NoBlock
         THEN answer' = Reading!NotThere /\ rpc' = "idle" /\ UNCHANGED <<got, txs>>
         ELSE got' = header[number] /\ txs' = <<>> /\ rpc' = "slots" /\ UNCHANGED answer
  BY DEF Reading!GetBlockHeader, Reading!store, Reading!writer, Reading!ghosts, Reading!Answer,
         ReadsOnly
<1>2. number \in Reading!Heights
  BY <1>1 DEF Reader, RequestInv, RequestAt
<1>3. at \notin everOut /\ op \in {"status", "wallet"} =>
        header[number] = chain[number] /\ header[number] # NoBlock
  BY <1>1, ReaderFacts DEF Reader, RequestInv, LookupSo
<1>4. CASE header[number] = NoBlock
  BY <1>1, <1>3, <1>4, NotThereKeeps
<1>5. CASE header[number] # NoBlock
  <2>1. /\ got' = header[number] /\ header[number] \in Block /\ txs' = <<>>
        /\ rpc' = "slots" /\ answer' = "none"
    BY <1>1, <1>2, <1>5, ReaderFacts DEF Reader, WriterInv, StoreTypes
  <2>2. RequestAt'
    <3>1. <<>> \in Seq(Reading!Tx)
      OBVIOUS
    <3>. QED  BY <1>1, <1>2, <2>1, <3>1 DEF Reader, RequestInv, RequestAt
  <2>3. \A b \in Block : 0 <= Len(TxsOf[b]) /\ Len(<<>>) = 0 /\ 1 .. 0 = {}
    BY BlockFacts
  <2>4. BlockSo'
    <3>. SUFFICES ASSUME op = "block", ~rewritten
                  PROVE  \E b \in Block :
                           /\ header'[number'] = b
                           /\ \A z \in 1 .. Len(TxsOf[b]) : slot'[number'][z] = TxsOf[b][z]
                           /\ Txs[b] \subseteq everIn'
                           /\ got' = b /\ Len(txs') <= Len(TxsOf[b])
                           /\ \A z \in 1 .. Len(txs') : txs'[z] = TxsOf[b][z]
      BY <1>1 DEF BlockSo, Whole, Stored, ReadOf, ReadsOnly
    <3>1. PICK b \in Block : Whole(b, number) /\ Txs[b] \subseteq everIn
      BY <1>1 DEF Reader, RequestInv, BlockSo
    <3>. QED  BY <1>1, <2>1, <2>3, <3>1 DEF Whole, Stored, ReadsOnly
  <2>5. LookupSo'
    <3>. SUFFICES ASSUME op \in {"status", "wallet"}
                  PROVE  /\ number # 0 => at \in everIn
                         /\ at \notin everOut =>
                              /\ number \in 1 .. Len(chain) /\ at \in Txs[chain[number]]
                              /\ got' = chain[number] /\ Len(txs') <= Len(TxsOf[chain[number]])
                              /\ \A z \in 1 .. Len(txs') : txs'[z] = TxsOf[chain[number]][z]
      BY <1>1 DEF LookupSo, ReadOf, ReadsOnly
    <3>1. /\ number # 0 => at \in everIn
          /\ at \notin everOut => number \in 1 .. Len(chain) /\ at \in Txs[chain[number]]
      BY <1>1 DEF Reader, RequestInv, LookupSo
    <3>2. at \notin everOut => chain[number] \in Block
      BY <3>1, ReaderFacts
    <3>. QED  BY <1>3, <2>1, <2>3, <3>1, <3>2
  <2>6. ListSo'
    BY <1>1, <2>1 DEF Reader, RequestInv, ListSo, ReadsOnly
  <2>. QED  BY <1>1, <2>1, <2>2, <2>4, <2>5, <2>6, NoClaim, ReadsOnlyKeeps DEF RequestInv
<1>. QED  BY <1>4, <1>5

LEMMA GetBlockTransactionKeeps ==
  ASSUME Reading!ReadersAssumption, Reader, Reading!GetBlockTransaction
  PROVE  WriterInv' /\ RequestInv'
<1>. DEFINE m == Len(txs) + 1
            t == slot[number][m]
<1>1. /\ ReadsOnly /\ UNCHANGED <<op, at, number, got, todo, found>>
      /\ rpc = "slots" /\ Len(txs) < Len(TxsOf[got])
      /\ IF t = NoBlock THEN answer' = Reading!NotThere /\ rpc' = "idle" /\ txs' = txs
         ELSE txs' = Append(txs, t) /\ UNCHANGED <<rpc, answer>>
  BY DEF Reading!GetBlockTransaction, Reading!store, Reading!writer, Reading!ghosts,
         Reading!Answer, Reading!NoTx, ReadsOnly
<1>2. number \in Reading!Heights /\ txs \in Seq(Reading!Tx) /\ got \in Block
  BY <1>1 DEF Reader, RequestInv, RequestAt
<1>3. m \in 1 .. Len(TxsOf[got]) /\ m \in 1 .. Reading!MostTxs /\ Len(txs) \in Nat
  BY <1>1, <1>2, BlockFacts, NumberFacts
<1>4. t \in Reading!Tx \cup {NoBlock}
  BY <1>2, <1>3 DEF Reader, WriterInv, StoreTypes
<1>5. ASSUME NEW b \in Block, got = b, Whole(b, number)
      PROVE  t = TxsOf[b][m] /\ t \in Reading!Tx /\ t # NoBlock
  <2>1. t = TxsOf[b][m]
    BY <1>3, <1>5 DEF Whole, Stored
  <2>2. TxsOf[b][m] \in Txs[b] /\ Txs[b] \subseteq Reading!Tx
    BY <1>3, <1>5, BlockFacts
  <2>. QED  BY <2>1, <2>2, NumberFacts
<1>6. op \in {"status", "wallet"} /\ at \notin everOut =>
        /\ number \in 1 .. Len(chain) /\ at \in Txs[chain[number]] /\ ReadOf(chain[number])
        /\ chain[number] \in Block /\ Whole(chain[number], number)
  BY <1>1, ReaderFacts DEF Reader, RequestInv, LookupSo
<1>7. CASE t = NoBlock
  <2>1. op = "status" => at \in everOut
    BY <1>5, <1>6, <1>7 DEF ReadOf
  <2>. QED  BY <1>1, <1>7, <2>1, NotThereKeeps
<1>8. CASE t # NoBlock
  <2>1. /\ txs' = Append(txs, t) /\ rpc' = "slots" /\ answer' = "none" /\ t \in Reading!Tx
    BY <1>1, <1>4, <1>8, ReaderFacts
  <2>2. /\ txs' \in Seq(Reading!Tx) /\ Len(txs') = m
        /\ \A z \in 1 .. m : txs'[z] = IF z = m THEN t ELSE txs[z]
    <3>. HIDE DEF t
    <3>. QED  BY <1>2, <1>3, <2>1
  <2>. HIDE DEF t
  <2>3. ASSUME NEW b \in Block, Whole(b, number), ReadOf(b)
        PROVE  /\ got' = b /\ Len(txs') <= Len(TxsOf[b])
               /\ \A z \in 1 .. Len(txs') : txs'[z] = TxsOf[b][z]
    <3>1. got = b /\ \A z \in 1 .. Len(txs) : txs[z] = TxsOf[b][z]
      BY <2>3 DEF ReadOf
    <3>2. t = TxsOf[b][m]
      BY <1>5, <2>3, <3>1
    <3>3. \A z \in 1 .. m : z = m \/ z \in 1 .. Len(txs)
      BY <1>3
    <3>. QED  BY <1>1, <1>3, <2>2, <3>1, <3>2, <3>3
  <2>4. RequestAt'
    BY <1>1, <2>1, <2>2 DEF Reader, RequestInv, RequestAt
  <2>5. BlockSo'
    <3>. SUFFICES ASSUME op = "block", ~rewritten
                  PROVE  \E b \in Block :
                           /\ header'[number'] = b
                           /\ \A z \in 1 .. Len(TxsOf[b]) : slot'[number'][z] = TxsOf[b][z]
                           /\ Txs[b] \subseteq everIn'
                           /\ got' = b /\ Len(txs') <= Len(TxsOf[b])
                           /\ \A z \in 1 .. Len(txs') : txs'[z] = TxsOf[b][z]
      BY <1>1, <2>1 DEF BlockSo, Whole, Stored, ReadOf, ReadsOnly
    <3>1. PICK b \in Block : Whole(b, number) /\ Txs[b] \subseteq everIn /\ ReadOf(b)
      BY <1>1 DEF Reader, RequestInv, BlockSo
    <3>2. /\ got' = b /\ Len(txs') <= Len(TxsOf[b])
          /\ \A z \in 1 .. Len(txs') : txs'[z] = TxsOf[b][z]
      BY <2>3, <3>1
    <3>. QED  BY <1>1, <3>1, <3>2 DEF Whole, Stored, ReadsOnly
  <2>6. LookupSo'
    <3>. SUFFICES ASSUME op \in {"status", "wallet"}
                  PROVE  /\ number # 0 => at \in everIn
                         /\ at \notin everOut =>
                              /\ number \in 1 .. Len(chain) /\ at \in Txs[chain[number]]
                              /\ got' = chain[number] /\ Len(txs') <= Len(TxsOf[chain[number]])
                              /\ \A z \in 1 .. Len(txs') : txs'[z] = TxsOf[chain[number]][z]
      BY <1>1, <2>1 DEF LookupSo, ReadOf, ReadsOnly
    <3>1. number # 0 => at \in everIn
      BY <1>1 DEF Reader, RequestInv, LookupSo
    <3>. QED  BY <1>6, <2>3, <3>1
  <2>7. ListSo'
    BY <1>1, <2>1 DEF Reader, RequestInv, ListSo, ReadsOnly
  <2>. QED  BY <1>1, <2>1, <2>4, <2>5, <2>6, <2>7, NoClaim, ReadsOnlyKeeps DEF RequestInv
<1>. QED  BY <1>7, <1>8

\* A request that has read a block as long as block b, all of it from b, has read
\* the transactions of b.
LEMMA FullRead ==
  ASSUME Reading!ReadersAssumption, txs \in Seq(Reading!Tx), NEW b \in Block, ReadOf(b),
         Len(txs) = Len(TxsOf[got])
  PROVE  txs = TxsOf[b] /\ Reading!ToSet(txs) = Txs[b]
<1>1. /\ TxsOf[b] \in Seq(Reading!Tx) /\ Reading!ToSet(TxsOf[b]) = Txs[b]
      /\ Len(txs) = Len(TxsOf[b]) /\ \A z \in 1 .. Len(txs) : txs[z] = TxsOf[b][z]
  BY BlockFacts DEF ReadOf
<1>2. txs = TxsOf[b]
  BY <1>1
<1>. QED  BY <1>1, <1>2

LEMMA UseBlockKeeps ==
  ASSUME Reading!ReadersAssumption, Reader, Reading!UseBlock
  PROVE  WriterInv' /\ RequestInv'
<1>. DEFINE listed == Reading!ToSet(txs)
<1>1. /\ ReadsOnly /\ UNCHANGED <<op, at, number, got, txs, todo>>
      /\ rpc = "slots" /\ Len(txs) = Len(TxsOf[got])
      /\ \/ op = "block" /\ answer' = "block" /\ rpc' = "idle" /\ found' = found
         \/ op = "status" /\ answer' = "IN_CHAIN" /\ rpc' = "idle" /\ found' = found
         \/ /\ op = "wallet" /\ rpc' = "next" /\ answer' = answer
            /\ found' = found \cup ({at} \cap listed)
  BY DEF Reading!UseBlock, Reading!store, Reading!writer, Reading!ghosts, Reading!Answer,
         ReadsOnly
<1>2. number # 0 /\ txs \in Seq(Reading!Tx)
  BY <1>1 DEF Reader, RequestInv, RequestAt
<1>3. CASE op = "block"
  <2>1. answer' = "block" /\ rpc' = "idle"
    BY <1>1, <1>3
  <2>2. ASSUME ~rewritten
        PROVE  txs = TxsOf[got] /\ listed \subseteq everIn
    <3>1. PICK b \in Block : Txs[b] \subseteq everIn /\ ReadOf(b)
      BY <1>1, <1>3, <2>2 DEF Reader, RequestInv, BlockSo
    <3>2. txs = TxsOf[b] /\ listed = Txs[b] /\ got = b
      BY <1>1, <1>2, <3>1, FullRead DEF ReadOf
    <3>. QED  BY <3>1, <3>2
  <2>3. Reading!BlockWhole' /\ Reading!AnswerWasSo'
    BY <1>1, <2>1, <2>2 DEF Reading!BlockWhole, Reading!AnswerWasSo, ReadsOnly, Reading!ToSet
  <2>. QED  BY <1>1, <2>1, <2>3, AnswerKeeps
<1>4. CASE op = "status"
  <2>1. answer' = "IN_CHAIN" /\ rpc' = "idle" /\ at \in everIn
    BY <1>1, <1>2, <1>4 DEF Reader, RequestInv, LookupSo
  <2>2. Reading!BlockWhole' /\ Reading!AnswerWasSo'
    BY <1>1, <2>1 DEF Reading!BlockWhole, Reading!AnswerWasSo, ReadsOnly
  <2>. QED  BY <1>1, <2>1, <2>2, AnswerKeeps
<1>5. CASE op = "wallet"
  <2>1. rpc' = "next" /\ answer' = "none" /\ found' = found \cup ({at} \cap listed)
    BY <1>1, <1>5, ReaderFacts
  <2>2. RequestAt' /\ BlockSo' /\ LookupSo'
    BY <1>1, <1>2, <1>5, <2>1, ReaderFacts DEF RequestAt, BlockSo, LookupSo
  <2>3. at \in everIn
    BY <1>1, <1>2, <1>5 DEF Reader, RequestInv, LookupSo
  <2>4. at \notin everOut => at \in listed
    <3>. SUFFICES ASSUME at \notin everOut  PROVE at \in listed
      OBVIOUS
    <3>1. /\ number \in 1 .. Len(chain) /\ at \in Txs[chain[number]] /\ ReadOf(chain[number])
          /\ chain[number] \in Block
      BY <1>1, <1>5, ReaderFacts DEF Reader, RequestInv, LookupSo
    <3>2. listed = Txs[chain[number]]
      BY <1>1, <1>2, <3>1, FullRead
    <3>. QED  BY <3>1, <3>2
  <2>5. /\ found \subseteq everIn /\ todo \subseteq Reading!Tx
        /\ Reading!Tx \ everOut \subseteq found \cup todo \cup {at}
    BY <1>1, <1>5 DEF Reader, RequestInv, ListSo
  <2>6. Reading!Tx \ everOut \subseteq found' \cup todo
    BY <2>1, <2>4, <2>5
  <2>7. found' \subseteq everIn
    BY <2>1, <2>3, <2>5
  <2>8. ListSo'
    BY <1>1, <2>1, <2>5, <2>6, <2>7 DEF ListSo, ReadsOnly
  <2>. QED  BY <1>1, <2>1, <2>2, <2>8, NoClaim, ReadsOnlyKeeps DEF RequestInv
<1>. QED  BY <1>1, <1>3, <1>4, <1>5

LEMMA ListTransactionsKeeps ==
  ASSUME Reading!ReadersAssumption, Reader, Reading!ListTransactions
  PROVE  WriterInv' /\ RequestInv'
<1>1. /\ ReadsOnly /\ UNCHANGED <<op, at, number, got, txs, found, answer>>
      /\ rpc = "list" /\ todo' = walletTxs /\ rpc' = "next"
  BY DEF Reading!ListTransactions, Reading!store, Reading!writer, Reading!ghosts, ReadsOnly
<1>2. op = "wallet"
  BY <1>1 DEF Reader, RequestInv, RequestAt
<1>3. RequestAt' /\ BlockSo' /\ LookupSo'
  BY <1>1, <1>2, ReaderFacts DEF RequestAt, BlockSo, LookupSo
<1>4. Reading!Tx \ everOut \subseteq walletTxs /\ walletTxs \subseteq Reading!Tx
  BY ReaderFacts DEF Reader, WriterInv, Indexed, StoreTypes
<1>5. found \subseteq everIn
  BY <1>1, <1>2 DEF Reader, RequestInv, ListSo
<1>6. ListSo'
  BY <1>1, <1>4, <1>5 DEF ListSo, ReadsOnly
<1>. QED  BY <1>1, <1>3, <1>6, ReaderFacts, NoClaim, ReadsOnlyKeeps DEF RequestInv

LEMMA NextTransactionKeeps ==
  ASSUME Reading!ReadersAssumption, Reader, Reading!NextTransaction
  PROVE  WriterInv' /\ RequestInv'
<1>1. /\ ReadsOnly /\ UNCHANGED <<op, number, got, txs, found>>
      /\ rpc = "next"
      /\ \/ todo = {} /\ answer' = "list" /\ rpc' = "idle" /\ UNCHANGED <<at, todo>>
         \/ /\ at' \in todo /\ todo' = todo \ {at'}
            /\ rpc' = "find" /\ answer' = answer
  BY DEF Reading!NextTransaction, Reading!store, Reading!writer, Reading!ghosts,
         Reading!Answer, ReadsOnly
<1>2. op = "wallet"
  BY <1>1 DEF Reader, RequestInv, RequestAt
<1>3. /\ found \subseteq everIn /\ todo \subseteq Reading!Tx
      /\ Reading!Tx \ everOut \subseteq found \cup todo
  BY <1>1, <1>2 DEF Reader, RequestInv, ListSo
<1>4. CASE rpc' = "idle"
  <2>1. todo = {} /\ answer' = "list"
    BY <1>1, <1>4
  <2>2. Reading!BlockWhole' /\ Reading!AnswerWasSo'
    BY <1>1, <1>3, <2>1 DEF Reading!BlockWhole, Reading!AnswerWasSo, ReadsOnly
  <2>. QED  BY <1>1, <1>4, <2>2, AnswerKeeps
<1>5. CASE rpc' = "find"
  <2>1. at' \in todo /\ todo' = todo \ {at'} /\ answer' = "none"
    BY <1>1, <1>5, ReaderFacts
  <2>2. RequestAt' /\ BlockSo' /\ LookupSo'
    BY <1>1, <1>2, <1>3, <1>5, <2>1, ReaderFacts DEF RequestAt, BlockSo, LookupSo
  <2>3. ListSo'
    BY <1>1, <1>3, <1>5, <2>1 DEF ListSo, ReadsOnly
  <2>. QED  BY <1>1, <2>1, <2>2, <2>3, NoClaim, ReadsOnlyKeeps DEF RequestInv
<1>. QED  BY <1>1, <1>4, <1>5

LEMMA ReadKeeps ==
  ASSUME Reading!ReadersAssumption, WriterInv, RequestInv, Reading!Read
  PROVE  WriterInv' /\ RequestInv'
<1>1. ASSUME NEW x \in Reading!Heights \cup {0}, Reading!GetBlock(x)
      PROVE  WriterInv' /\ RequestInv'
  <2>1. Reading!Begin("block", Reading!NoTx, x, "count")
    BY <1>1 DEF Reading!GetBlock
  <2>. QED  BY <2>1, BeginKeeps
<1>2. ASSUME NEW t \in Reading!Tx, Reading!GetTransactionStatus(t)
      PROVE  WriterInv' /\ RequestInv'
  <2>1. Reading!Begin("status", t, 0, "find")
    BY <1>2 DEF Reading!GetTransactionStatus
  <2>. QED  BY <2>1, BeginKeeps
<1>3. CASE Reading!GetTransactionsForWallet
  <2>1. Reading!Begin("wallet", Reading!NoTx, 0, "list")
    BY <1>3 DEF Reading!GetTransactionsForWallet
  <2>. QED  BY <2>1, BeginKeeps
<1>4. ASSUME \/ Reading!FindBlockForTransaction \/ Reading!CheckCount
             \/ Reading!GetBlockHeader \/ Reading!GetBlockTransaction
             \/ Reading!UseBlock \/ Reading!ListTransactions \/ Reading!NextTransaction
      PROVE  WriterInv' /\ RequestInv'
  <2>1. rpc # "idle"
    BY <1>4 DEF Reading!FindBlockForTransaction, Reading!CheckCount, Reading!GetBlockHeader,
                Reading!GetBlockTransaction, Reading!UseBlock, Reading!ListTransactions,
                Reading!NextTransaction
  <2>2. Reader
    BY <2>1 DEF Reader
  <2>. QED  BY <1>4, <2>2, FindKeeps, CheckCountKeeps, GetBlockHeaderKeeps,
               GetBlockTransactionKeeps, UseBlockKeeps, ListTransactionsKeeps,
               NextTransactionKeeps
<1>. QED  BY <1>1, <1>2, <1>3, <1>4 DEF Reading!Read

LEMMA ReadingKeeps ==
  ASSUME Reading!ReadersAssumption, WriterInv, RequestInv, [Reading!Next]_Reading!vars
  PROVE  WriterInv' /\ RequestInv'
<1>1. CASE Reading!Write
  BY <1>1, WriteKeeps, BesideKeeps
<1>2. CASE Reading!Read
  BY <1>2, ReadKeeps
<1>3. CASE UNCHANGED Reading!vars
  <2>1. /\ UNCHANGED <<header, slot, walletTxs, txdb, numBlocks, chain, cur, wpc, written>>
        /\ UNCHANGED <<op, at, rpc, number, got, txs, todo, found, answer>>
        /\ UNCHANGED <<everIn, everOut, rewritten>>
    BY <1>3 DEF Reading!vars
  <2>2. WriterInv' /\ Counted' = Counted /\ Changed' = Changed
    BY <2>1, ReadKeepsStore
  <2>3. Watched' /\ RequestAt' /\ ListSo'
    BY <2>1, <2>2 DEF RequestInv, Watched, RequestAt, ListSo
  <2>4. BlockSo' /\ LookupSo'
    BY <2>1 DEF RequestInv, BlockSo, LookupSo, Whole, Stored, ReadOf
  <2>5. Reading!BlockWhole' /\ Reading!AnswerWasSo'
    BY <2>1 DEF RequestInv, Reading!BlockWhole, Reading!AnswerWasSo, Reading!ToSet
  <2>. QED  BY <2>2, <2>3, <2>4, <2>5 DEF RequestInv
<1>. QED  BY <1>1, <1>2, <1>3 DEF Reading!Next

LEMMA ReadingStarts ==
  ASSUME Reading!ReadersAssumption, Reading!Init
  PROVE  WriterInv /\ RequestInv
<1>1. /\ Base \in Seq(Block) /\ Len(Base) \in Nat
      /\ chain = Base /\ numBlocks = Len(Base) /\ cur = NoBlock /\ wpc = "idle"
      /\ header = [x \in Reading!Heights |-> IF x <= Len(Base) THEN Base[x] ELSE NoBlock]
      /\ slot = [x \in Reading!Heights |-> [y \in 1 .. Reading!MostTxs |->
                   IF x <= Len(Base) /\ y <= Len(TxsOf[Base[x]]) THEN TxsOf[Base[x]][y]
                   ELSE NoBlock]]
      /\ walletTxs = Reading!InChain(Base)
      /\ rpc = "idle" /\ number = 0 /\ txs = <<>> /\ answer = "none"
  BY DEF Reading!Init, Reading!ReadersAssumption, Reading!NoTx
<1>2. ASSUME NEW x \in 1 .. Len(Base)
      PROVE  /\ Base[x] \in Block /\ Height[Base[x]] = x /\ x \in Reading!Heights
             /\ Txs[Base[x]] \subseteq Reading!Tx
             /\ \A y \in 1 .. Len(Base) : y # x => Txs[Base[x]] \cap Txs[Base[y]] = {}
  <2>1. Base[x] \in Block /\ Height[Base[x]] = x
    BY <1>1 DEF Reading!ReadersAssumption
  <2>2. x \in Reading!Heights /\ Txs[Base[x]] \subseteq Reading!Tx
    BY <2>1, BlockFacts
  <2>3. ASSUME NEW y \in 1 .. Len(Base), y # x
        PROVE  Txs[Base[x]] \cap Txs[Base[y]] = {}
    <3>1. Reading!ToSet(TxsOf[Base[x]]) \cap Reading!ToSet(TxsOf[Base[y]]) = {}
      BY <2>3 DEF Reading!ReadersAssumption
    <3>2. Base[y] \in Block
      BY <1>1
    <3>. QED  BY <2>1, <3>1, <3>2, BlockFacts
  <2>. QED  BY <2>1, <2>2, <2>3
<1>3. Counted = UNION {Txs[Base[x]] : x \in 1 .. Len(Base)} /\ walletTxs = Counted /\ Changed = {}
  BY <1>1, InChainIs DEF Counted, Changed
<1>4. header \in [Reading!Heights -> Block \cup {NoBlock}]
  <2>1. \A x \in Reading!Heights : x <= Len(Base) => Base[x] \in Block
    BY <1>1, <1>2, NumberFacts
  <2>. QED  BY <1>1, <2>1
<1>5. slot \in [Reading!Heights -> [1 .. Reading!MostTxs -> Reading!Tx \cup {NoBlock}]]
  <2>1. ASSUME NEW x \in Reading!Heights, x <= Len(Base), NEW y \in 1 .. Reading!MostTxs,
               y <= Len(TxsOf[Base[x]])
        PROVE  TxsOf[Base[x]][y] \in Reading!Tx
    <3>1. Base[x] \in Block
      BY <1>1, <1>2, <2>1, NumberFacts
    <3>2. y \in 1 .. Len(TxsOf[Base[x]])
      BY <2>1, <3>1, BlockFacts, NumberFacts
    <3>. QED  BY <3>1, <3>2, BlockFacts
  <2>. QED  BY <1>1, <2>1
<1>6. ChainStored
  <2>. SUFFICES ASSUME NEW x \in 1 .. Len(Base)  PROVE Whole(Base[x], x)
    BY <1>1, <1>2 DEF ChainStored
  <2>1. x \in Reading!Heights /\ Base[x] \in Block /\ x <= Len(Base)
    BY <1>1, <1>2
  <2>2. /\ Len(TxsOf[Base[x]]) \in Nat /\ Len(TxsOf[Base[x]]) <= Reading!MostTxs
        /\ Reading!MostTxs \in Nat
    BY <2>1, BlockFacts, NumberFacts
  <2>3. header[x] = Base[x]
    BY <1>1, <2>1
  <2>4. slot[x] = [y \in 1 .. Reading!MostTxs |->
                     IF y <= Len(TxsOf[Base[x]]) THEN TxsOf[Base[x]][y] ELSE NoBlock]
    BY <1>1, <2>1
  <2>5. \A y \in 1 .. Len(TxsOf[Base[x]]) : slot[x][y] = TxsOf[Base[x]][y]
    BY <2>2, <2>4
  <2>. QED  BY <2>3, <2>5 DEF Whole, Stored
<1>7. \A t \in Reading!Tx :
        IF t \in Counted
        THEN \E x \in 1 .. Len(Base) : txdb[t] = x /\ t \in Txs[Base[x]]
        ELSE txdb[t] = 0
  <2>. SUFFICES ASSUME NEW t \in Reading!Tx
                PROVE  IF t \in Counted
                       THEN \E x \in 1 .. Len(Base) : txdb[t] = x /\ t \in Txs[Base[x]]
                       ELSE txdb[t] = 0
    OBVIOUS
  <2>. DEFINE Holds(b) == t \in Reading!ToSet(TxsOf[b])
              based == Reading!ToSet(Base)
  <2>1. txdb[t] = IF \E b \in based : Holds(b) THEN Height[CHOOSE b \in based : Holds(b)] ELSE 0
    BY DEF Reading!Init
  <2>2. based = {Base[x] : x \in 1 .. Len(Base)}
    BY <1>1 DEF Reading!ToSet
  <2>3. \A x \in 1 .. Len(Base) : Holds(Base[x]) <=> t \in Txs[Base[x]]
    BY <1>2, BlockFacts
  <2>4. (\E b \in based : Holds(b)) <=> t \in Counted
    BY <1>3, <2>2, <2>3
  <2>. HIDE DEF Holds, based
  <2>5. CASE t \in Counted
    <3>1. PICK b \in based : Holds(b) /\ txdb[t] = Height[b]
      BY <2>1, <2>4, <2>5
    <3>2. PICK x \in 1 .. Len(Base) : b = Base[x]
      BY <2>2, <3>1
    <3>. QED  BY <1>2, <2>3, <2>5, <3>1, <3>2
  <2>6. CASE t \notin Counted
    BY <2>1, <2>4, <2>6
  <2>. QED  BY <2>5, <2>6
<1>8. txdb \in [Reading!Tx -> Reading!Heights \cup {0}]
  <2>1. DOMAIN txdb = Reading!Tx /\ txdb = [t \in Reading!Tx |-> txdb[t]]
    BY DEF Reading!Init
  <2>2. \A t \in Reading!Tx : txdb[t] \in Reading!Heights \cup {0}
    BY <1>2, <1>7
  <2>. QED  BY <2>1, <2>2
<1>9. Counted \subseteq Reading!Tx
  BY <1>2, <1>3
<1>10. StoreTypes
  BY <1>1, <1>3, <1>4, <1>5, <1>8, <1>9 DEF StoreTypes
<1>11. Indexed
  <2>1. \A t \in Reading!Tx : txdb[t] # 0 => t \in Counted
    BY <1>7
  <2>2. \A t \in Counted : txdb[t] \in 1 .. Len(chain) /\ t \in Txs[chain[txdb[t]]]
    BY <1>1, <1>7, <1>9
  <2>. QED  BY <1>3, <2>1, <2>2 DEF Indexed
<1>12. RequestInv
  <2>1. <<>> \in Seq(Reading!Tx)
    OBVIOUS
  <2>. QED  BY <1>1, <2>1 DEF RequestInv, Watched, RequestAt, BlockSo, LookupSo, ListSo,
                              Reading!BlockWhole, Reading!AnswerWasSo
<1>. QED  BY <1>1, <1>6, <1>10, <1>11, <1>12 DEF WriterInv, WriterAt

LEMMA ReadersInv == Spec => [](WriterInv /\ RequestInv)
<1>1. Init => WriterInv /\ RequestInv
  BY NodeAssumption, ReadingStarts DEF Init
<1>2. WriterInv /\ RequestInv /\ [Next]_vars => (WriterInv /\ RequestInv)'
  BY NodeAssumption, PartsStep, ReadingKeeps
<1>. QED  BY <1>1, <1>2, PTL DEF Spec

\* A block that GET /block, /mine_status or /sync reads without the lock is the
\* one that was counted, with all its transactions, unless its number was written
\* meanwhile: getBlock and getRaw look numBlocks up first, and a pop leaves the
\* block in the store.
THEOREM BlocksAreWhole == Spec => []BlockWhole
<1>1. WriterInv /\ RequestInv => BlockWhole
  BY DEF RequestInv, BlockWhole
<1>. QED  BY <1>1, ReadersInv, PTL

\* getTransactionStatus answers what was so at some moment of the request, and
\* getTransactionsForWallet lists what was there throughout and nothing that never
\* was, whatever addBlock and popBlock write between two of their reads.
THEOREM AnswersWereSo == Spec => []AnswerWasSo
<1>1. WriterInv /\ RequestInv => AnswerWasSo
  BY DEF RequestInv, AnswerWasSo
<1>. QED  BY <1>1, ReadersInv, PTL

=============================================================================
