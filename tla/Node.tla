-------------------------------- MODULE Node --------------------------------
(***************************************************************************)
(* The parts of one node that share no state in the models: its threads    *)
(* and mutexes, the memory pool, the HTTP handlers, the requests that read *)
(* blocks, the rate limiter and the proof-of-work cache.  "part" is the    *)
(* one that runs; the others stand still.  What holds of each part is      *)
(* stated here of the node, for every value of the constants.              *)
(***************************************************************************)
EXTENDS Integers, Sequences

CONSTANTS
  \* NodeLocks
  MaxHeight, PopCount, MaxRetries, Free,
  \* MemPool, and the payments and nonces of its second instance
  Wallet, Payment, Grant, MinFee, Expiry, PoolTime, MaxBlocks,
  CopiedPayment, CopyNonce, CopyTime,
  \* HttpServer
  HttpHeight, MaxBuffer, MaxChunks, FetchLimit, MaxItems,
  \* Readers
  Block, Height, TxsOf, Base, NoBlock,
  \* RateLimiter
  Ip, N, seconds, MaxIps, LimiterTime,
  \* PowCache
  Verifier, Target, Nonce, Solves, NoHash

VARIABLES
  part,
  \* NodeLocks
  owner, lockPc, back, isSyncing, lockBlocks, retries, memPool, left, lockTarget, lockReply,
  \* MemPool
  queue, outgoing, expected, balance, blocks, adding, stage, attached, unnoticed, poolNow, reply,
  \* HttpServer
  route, input, httpPc, sent, thrown, buffer, noted, item, added, httpBlocks,
  \* Readers
  header, slot, walletTxs, txdb, numBlocks, chain, cur, wpc, written,
  op, at, rpc, number, got, txs, todo, found, answer, everIn, everOut, rewritten,
  \* RateLimiter
  known, entries, accepted, now,
  \* PowCache
  cache, pc, target, nonce, verdict, asked

-----------------------------------------------------------------------------
Locks == INSTANCE NodeLocks WITH
  pc <- lockPc, numBlocks <- lockBlocks, target <- lockTarget, reply <- lockReply

\* Every copy of a payment has the nonce 0.
Pool == INSTANCE MemPool WITH Nonce <- {0}, MaxTime <- PoolTime, now <- poolNow

\* Copies of a payment read any nonce.
Copies == INSTANCE MemPool WITH
  Payment <- CopiedPayment, Nonce <- CopyNonce, MaxTime <- CopyTime, now <- poolNow

Http == INSTANCE HttpServer WITH
  MaxHeight <- HttpHeight, pc <- httpPc, i <- item, numBlocks <- httpBlocks

Reading == INSTANCE Readers WITH k <- written, n <- number

Rate == INSTANCE RateLimiter WITH MaxTime <- LimiterTime, c <- entries

Pow == INSTANCE PowCache WITH Thread <- Verifier

ASSUME NodeAssumption ==
  /\ Locks!LocksAssumption /\ Pool!PaymentAssumption /\ Copies!PaymentAssumption
  /\ Http!HttpAssumption /\ Reading!ReadersAssumption /\ Rate!LimiterAssumption

-----------------------------------------------------------------------------
locksVars == <<owner, lockPc, back, isSyncing, lockBlocks, retries, memPool, left, lockTarget,
               lockReply>>
poolVars == <<queue, outgoing, expected, balance, blocks, adding, stage, attached, unnoticed,
              poolNow, reply>>
httpVars == <<route, input, httpPc, sent, thrown, buffer, noted, item, added, httpBlocks>>
readingVars == <<header, slot, walletTxs, txdb, numBlocks, chain, cur, wpc, written, op, at,
                 rpc, number, got, txs, todo, found, answer, everIn, everOut, rewritten>>
limiterVars == <<known, entries, accepted, now>>
powVars == <<cache, pc, target, nonce, verdict, asked>>

vars == <<part, locksVars, poolVars, httpVars, readingVars, limiterVars, powVars>>

Init ==
  /\ part \in {"locks", "pool", "copies", "http", "reading", "limiter", "pow"}
  /\ Locks!Init /\ Pool!Init /\ Http!Init /\ Reading!Init /\ Rate!Init /\ Pow!Init

Next ==
  /\ UNCHANGED part
  /\ \/ /\ part = "locks" /\ Locks!Next
        /\ UNCHANGED <<poolVars, httpVars, readingVars, limiterVars, powVars>>
     \/ /\ part = "pool" /\ Pool!Next
        /\ UNCHANGED <<locksVars, httpVars, readingVars, limiterVars, powVars>>
     \/ /\ part = "copies" /\ Copies!Next
        /\ UNCHANGED <<locksVars, httpVars, readingVars, limiterVars, powVars>>
     \/ /\ part = "http" /\ Http!Next
        /\ UNCHANGED <<locksVars, poolVars, readingVars, limiterVars, powVars>>
     \/ /\ part = "reading" /\ Reading!Next
        /\ UNCHANGED <<locksVars, poolVars, httpVars, limiterVars, powVars>>
     \/ /\ part = "limiter" /\ Rate!Next
        /\ UNCHANGED <<locksVars, poolVars, httpVars, readingVars, powVars>>
     \/ /\ part = "pow" /\ Pow!Next
        /\ UNCHANGED <<locksVars, poolVars, httpVars, readingVars, limiterVars>>

\* The fairness of NodeLocks and MemPool, for the part that runs.
Fairness ==
  /\ SF_locksVars(part = "locks" /\ (Locks!Main \/ Locks!AddBlock("main") \/ Locks!FinishBlock("main")))
  /\ SF_locksVars(part = "locks" /\ Locks!SetMemPool)
  /\ SF_locksVars(part = "locks" /\ (Locks!Sync \/ Locks!AddBlock("chain_sync") \/ Locks!FinishBlock("chain_sync")))
  /\ SF_locksVars(part = "locks" /\ Locks!CleanUp)
  /\ WF_locksVars(part = "locks" /\ Locks!Wake)
  /\ WF_poolVars(part = "pool" /\ Pool!Tick)
  /\ WF_poolVars(part = "pool" /\ Pool!CleanUp)

Spec == Init /\ [][Next]_vars /\ Fairness

-----------------------------------------------------------------------------
\* addTransaction, verifyTransaction and addBlock: no two threads hold what the
\* other one waits for.
NoTwoThreadsDeadlock == Locks!NoTwoThreadsDeadlock

\* Every call returns, or some thread waits for a mutex of its own.
CallsReturn == part = "locks" => Locks!CallsReturn

\* mempoolOutgoing is what the queue's payments cost, with any nonces.
OutgoingIsQueued == Pool!OutgoingIsQueued

\* What finishBlock and addTransaction leave in the queue is not in the chain.
NothingMinedPending == part = "copies" \/ Pool!NothingMinedPending

\* Every pending payment is mined or dropped.
QueueDrains == part = "pool" => Pool!QueueDrains

\* A handler of server.cpp ends its response once, and leaves it open only by a
\* catch block that answers nothing, or with the process that it ends.
AnsweredOnce == Http!AnsweredOnce

\* A batch that is answered with results has been added whole.
BatchWhole == Http!BatchWhole

\* A block that is read without the lock is whole unless it was rewritten.
BlockWhole == Reading!BlockWhole

\* A transaction's status was so at some moment of the request; a wallet's list
\* misses nothing that was there throughout.
AnswerWasSo == Reading!AnswerWasSo

\* RateLimiter::limit bounds what an address may ask for in any period.
Paced == Rate!Paced

\* RateLimiter::limit refuses nobody for longer than "add".
RefusedBriefly == Rate!RefusedBriefly

\* verifyNonce answers for a nonce that was tried on the block it is asked about.
VerdictOfAsked == Pow!VerdictOfAsked

=============================================================================
