------------------------------ MODULE NodeLocks ------------------------------
(***************************************************************************)
(* The node's threads and the mutexes they take: the main thread, which    *)
(* builds the node and then runs the HTTP event loop, chain_sync of        *)
(* BlockChain, and the clean-up thread of MemPool.  The chain is its       *)
(* length, a block or a transaction is a choice of how its checks end.     *)
(*                                                                         *)
(* A std::mutex taken by the thread that holds it blocks for ever.         *)
(***************************************************************************)
EXTENDS Naturals

CONSTANTS
  MaxHeight,    \* bounds the peers' chain
  PopCount,     \* FORK_CHAIN_POP_COUNT
  MaxRetries,   \* FORK_RESET_RETRIES
  Free          \* the owner of a mutex nobody holds

Thread == {"main", "chain_sync", "cleanup"}
Mutex  == {"lock", "mempool_mutex"}

LocksAssumption ==
  /\ MaxHeight \in Nat /\ PopCount \in Nat /\ MaxRetries \in Nat
  /\ Free \notin Thread

VARIABLES
  owner,       \* who holds each mutex
  pc,          \* where each thread is
  back,        \* where addBlock returns to, by thread
  isSyncing,   \* BlockChain::isSyncing
  numBlocks,   \* BlockChain::numBlocks
  retries,     \* BlockChain::retries
  memPool,     \* BlockChain::memPool is set
  left,        \* blocks the thread that pops has left to pop
  target,      \* the number of blocks of the best peer
  reply        \* the last status the main thread answered with

chain == <<isSyncing, numBlocks, retries, memPool, left>>
vars  == <<owner, pc, back, isSyncing, numBlocks, retries, memPool, left, target, reply>>

Goto(t, l)    == pc' = [pc EXCEPT ![t] = l]
Take(t, m)    == owner[m] = Free /\ owner' = [owner EXCEPT ![m] = t]
Release(m)    == owner' = [owner EXCEPT ![m] = Free]

Init ==
  /\ owner = [m \in Mutex |-> Free]
  /\ pc = [t \in Thread |-> IF t = "main" THEN "boot" ELSE "unborn"]
  /\ back = [t \in Thread |-> "none"]
  /\ isSyncing = FALSE /\ memPool = FALSE
  /\ numBlocks = 0 /\ retries = 0 /\ left = 0
  /\ target \in 0 .. MaxHeight
  /\ reply = "none"

(***************************************************************************)
(* The constructors: the chain is loaded or its genesis block added, with  *)
(* the lock free; chain_sync starts before the memory pool is set.         *)
(***************************************************************************)
LoadChain ==
  /\ pc["main"] = "boot"
  /\ \/ /\ numBlocks' \in 1 .. MaxHeight
        /\ Goto("main", "loaded")
        /\ UNCHANGED back
     \/ /\ Goto("main", "addBlock")
        /\ back' = [back EXCEPT !["main"] = "loaded"]
        /\ UNCHANGED numBlocks
  /\ UNCHANGED <<owner, isSyncing, retries, memPool, left, target, reply>>

\* A node whose hosts are disabled has no chain_sync.
StartChainSyncThread ==
  /\ pc["main"] = "loaded"
  /\ \E enabled \in BOOLEAN :
       pc' = [pc EXCEPT !["main"] = "ready", !["chain_sync"] = IF enabled THEN "sleep" ELSE @]
  /\ UNCHANGED <<chain, owner, back, target, reply>>

\* The payments that other hosts have pending are added to the pool meanwhile.
LoadMemPool ==
  /\ pc["main"] = "ready" /\ pc["chain_sync"] # "unborn"
  /\ Goto("main", "add_transaction")
  /\ UNCHANGED <<chain, owner, back, target, reply>>

SetMemPool ==
  /\ pc["main"] = "ready"
  /\ memPool' = TRUE
  /\ pc' = [pc EXCEPT !["main"] = "idle", !["cleanup"] = "sleep"]
  /\ UNCHANGED <<owner, back, isSyncing, numBlocks, retries, left, target, reply>>

(***************************************************************************)
(* addBlock takes the lock, whoever called it.  finishBlock takes          *)
(* mempool_mutex inside.  A refused block ends a synchronisation.          *)
(***************************************************************************)
AddBlock(t) ==
  /\ pc[t] = "addBlock"
  /\ Take(t, "lock")
  /\ Goto(t, "adding")
  /\ UNCHANGED <<chain, back, target, reply>>

FinishBlock(t) ==
  /\ pc[t] = "adding"
  /\ Release("lock")
  /\ \E accepted \in IF numBlocks = 0 THEN {TRUE} ELSE BOOLEAN :   \* genesis
       /\ accepted /\ memPool => owner["mempool_mutex"] = Free
       /\ numBlocks' = IF accepted THEN numBlocks + 1 ELSE numBlocks
       /\ Goto(t, IF ~accepted /\ t = "chain_sync" THEN "failed" ELSE back[t])
       /\ reply' = IF t # "main" THEN reply ELSE IF accepted THEN "SUCCESS" ELSE "refused"
  /\ isSyncing' = (isSyncing /\ pc'[t] # "failed")
  /\ UNCHANGED <<back, retries, memPool, left, target>>

CallAddBlock(t, l) ==
  /\ Goto(t, "addBlock")
  /\ back' = [back EXCEPT ![t] = l]

(***************************************************************************)
(* Requests                                                                *)
(***************************************************************************)
\* The constructor goes on, or the event loop does.
Answer(status) ==
  /\ Goto("main", IF memPool THEN "idle" ELSE "ready")
  /\ reply' = status

Receive ==
  /\ pc["main"] = "idle"
  /\ \E r \in {"submit", "add_transaction", "supply", "stats"} : Goto("main", r)
  /\ reply' = "none"
  /\ UNCHANGED <<chain, owner, back, target>>

SubmitProofOfWork ==
  /\ pc["main"] = "submit"
  /\ \E known \in BOOLEAN :
       IF known THEN Answer("INVALID_BLOCK_ID")
                ELSE Goto("main", "addBlockSync") /\ UNCHANGED reply
  /\ UNCHANGED <<chain, owner, back, target>>

AddBlockSync ==
  /\ pc["main"] = "addBlockSync"
  /\ IF isSyncing
     THEN Answer("IS_SYNCING") /\ UNCHANGED back
     ELSE /\ pc' = [pc EXCEPT !["main"] = "submitting"]
          /\ UNCHANGED <<back, reply>>
  /\ UNCHANGED <<chain, owner, target>>

LockAndAdd ==
  /\ pc["main"] = "submitting"
  /\ Take("main", "lock")
  /\ CallAddBlock("main", "idle")
  /\ UNCHANGED <<chain, target, reply>>

\* MemPool::addTransaction holds mempool_mutex throughout.
AddTransaction ==
  /\ pc["main"] = "add_transaction"
  /\ \/ /\ Take("main", "mempool_mutex")
        /\ Goto("main", "verifyTransaction")
        /\ UNCHANGED reply
     \/ /\ owner["mempool_mutex"] = Free        \* expired, queued already, or its fee too low
        /\ Answer("refused")
        /\ UNCHANGED owner
  /\ UNCHANGED <<chain, back, target>>

\* (Mutant: the early return while a synchronisation runs keeps the mutex.)
VerifyTransactionKeepsMutex ==
  /\ pc["main"] = "verifyTransaction"
  /\ IF isSyncing
     THEN Answer("IS_SYNCING") /\ UNCHANGED owner
     ELSE \/ Answer("refused") /\ Release("mempool_mutex")
          \/ Goto("main", "getWalletNonce") /\ UNCHANGED <<owner, reply>>
  /\ UNCHANGED <<chain, back, target>>

VerifyTransaction ==
  /\ pc["main"] = "verifyTransaction"
  /\ IF isSyncing
     THEN Answer("IS_SYNCING") /\ Release("mempool_mutex")
     ELSE \/ Answer("refused") /\ Release("mempool_mutex")
          \/ Goto("main", "getWalletNonce") /\ UNCHANGED <<owner, reply>>
  /\ UNCHANGED <<chain, back, target>>

GetWalletNonce ==
  /\ pc["main"] = "getWalletNonce"
  /\ owner["lock"] = Free
  /\ \/ Answer("INVALID_NONCE") /\ Release("mempool_mutex")
     \/ Take("main", "lock") /\ Goto("main", "executing") /\ UNCHANGED reply
  /\ UNCHANGED <<chain, back, target>>

\* The verdict, or an exception that the handler logs without an answer.
ExecuteTransaction ==
  /\ pc["main"] = "executing"
  /\ owner' = [m \in Mutex |-> Free]
  /\ \E status \in {"SUCCESS", "refused", "none"} : Answer(status)
  /\ UNCHANGED <<chain, back, target>>

GetSupply ==
  /\ pc["main"] = "supply"
  /\ owner["lock"] = Free
  /\ Answer("SUCCESS")
  /\ UNCHANGED <<chain, owner, back, target>>

ReadMemPool ==
  /\ pc["main"] = "stats"
  /\ owner["mempool_mutex"] = Free
  /\ Answer("SUCCESS")
  /\ UNCHANGED <<chain, owner, back, target>>

(***************************************************************************)
(* chain_sync                                                              *)
(***************************************************************************)
Wake ==
  /\ pc["chain_sync"] = "sleep"
  /\ ~isSyncing /\ target > numBlocks
  /\ Goto("chain_sync", "startChainSync")
  /\ UNCHANGED <<chain, owner, back, target, reply>>

\* (Mutant: the synchronisation leaves locking to addBlock.)
StartChainSyncUnlocked ==
  /\ pc["chain_sync"] = "startChainSync"
  /\ owner["lock"] = Free
  /\ isSyncing' = TRUE
  /\ left' \in {0} \cup {numBlocks - i + PopCount : i \in 1 .. numBlocks}
  /\ Goto("chain_sync", "popping")
  /\ UNCHANGED <<owner, numBlocks, retries, memPool, back, target, reply>>

\* The whole chain agrees with the peer's, or it differs from block i on.
StartChainSync ==
  /\ pc["chain_sync"] = "startChainSync"
  /\ Take("chain_sync", "lock")
  /\ isSyncing' = TRUE
  /\ left' \in {0} \cup {numBlocks - i + PopCount : i \in 1 .. numBlocks}
  /\ Goto("chain_sync", "popping")
  /\ UNCHANGED <<numBlocks, retries, memPool, back, target, reply>>

\* The loops at the start of startChainSync and after a failed synchronisation.
PopBlock ==
  /\ pc["chain_sync"] \in {"popping", "rolling back"}
  /\ left > 0 /\ numBlocks > 1
  /\ left' = left - 1
  /\ IF numBlocks > 2
     THEN numBlocks' = numBlocks - 1 /\ UNCHANGED <<pc, back>>
     ELSE numBlocks' = 0 /\ CallAddBlock("chain_sync", pc["chain_sync"])   \* resetChain
  /\ UNCHANGED <<owner, isSyncing, retries, memPool, target, reply>>

StopPopping ==
  /\ pc["chain_sync"] \in {"popping", "rolling back"}
  /\ left = 0 \/ numBlocks = 1
  /\ IF pc["chain_sync"] = "popping"
     THEN Goto("chain_sync", "fetching") /\ UNCHANGED <<owner, isSyncing>>
     ELSE Goto("chain_sync", "sleep") /\ Release("lock") /\ isSyncing' = FALSE
  /\ UNCHANGED <<numBlocks, retries, memPool, left, back, target, reply>>

Fetch ==
  /\ pc["chain_sync"] = "fetching"
  /\ numBlocks < target
  /\ \/ /\ CallAddBlock("chain_sync", "fetching")
        /\ UNCHANGED <<owner, isSyncing>>
     \/ /\ Goto("chain_sync", "failed")          \* readRawBlocks throws
        /\ Release("lock")
        /\ isSyncing' = FALSE
        /\ UNCHANGED back
  /\ UNCHANGED <<numBlocks, retries, memPool, left, target, reply>>

SyncSucceeds ==
  /\ pc["chain_sync"] = "fetching"
  /\ numBlocks >= target
  /\ Goto("chain_sync", "sleep")
  /\ Release("lock")
  /\ isSyncing' = FALSE
  /\ retries' = 0
  /\ UNCHANGED <<numBlocks, memPool, left, back, target, reply>>

\* After MaxRetries the process exits.
Retry ==
  /\ pc["chain_sync"] = "failed"
  /\ retries' = retries + 1
  /\ IF retries' > MaxRetries
     THEN pc' = [t \in Thread |-> "exited"]
     ELSE Goto("chain_sync", "retrying")
  /\ UNCHANGED <<owner, isSyncing, numBlocks, memPool, left, back, target, reply>>

RollBack ==
  /\ pc["chain_sync"] = "retrying"
  /\ Take("chain_sync", "lock")
  /\ isSyncing' = TRUE
  /\ left' = PopCount * retries
  /\ Goto("chain_sync", "rolling back")
  /\ UNCHANGED <<numBlocks, retries, memPool, back, target, reply>>

(***************************************************************************)
(* cleanupExpiredTransactions, and the peers                               *)
(***************************************************************************)
CleanUp ==
  /\ \/ pc["cleanup"] = "sleep" /\ Goto("cleanup", "cleaning")
     \/ pc["cleanup"] = "cleaning" /\ owner["mempool_mutex"] = Free /\ Goto("cleanup", "sleep")
  /\ UNCHANGED <<chain, owner, back, target, reply>>

PeersChange ==
  /\ target' \in 0 .. MaxHeight
  /\ UNCHANGED <<chain, owner, pc, back, reply>>

-----------------------------------------------------------------------------
Main ==
  \/ LoadChain \/ StartChainSyncThread \/ LoadMemPool \/ SetMemPool
  \/ SubmitProofOfWork \/ AddBlockSync \/ LockAndAdd
  \/ AddTransaction \/ VerifyTransaction \/ GetWalletNonce \/ ExecuteTransaction
  \/ GetSupply \/ ReadMemPool

Sync ==
  \/ StartChainSync \/ PopBlock \/ StopPopping \/ Fetch \/ SyncSucceeds \/ Retry \/ RollBack

Next ==
  \/ \E t \in {"main", "chain_sync"} : AddBlock(t) \/ FinishBlock(t)
  \/ Main \/ Receive \/ Wake \/ Sync \/ CleanUp \/ PeersChange

(***************************************************************************)
(* A thread that can run runs.  A mutex that is free again and again is    *)
(* obtained: the threads that take it sleep for seconds in between.  The   *)
(* constructor is sent finitely many payments.                             *)
(* Nobody has to send a request and no peer has to change.                 *)
(***************************************************************************)
Fairness ==
  /\ SF_vars(Main \/ AddBlock("main") \/ FinishBlock("main"))
  /\ SF_vars(SetMemPool)
  /\ SF_vars(Sync \/ AddBlock("chain_sync") \/ FinishBlock("chain_sync"))
  /\ SF_vars(CleanUp)
  /\ WF_vars(Wake)

Spec == Init /\ [][Next]_vars /\ Fairness

-----------------------------------------------------------------------------
Label == [main       |-> {"boot", "loaded", "ready", "idle", "submit", "addBlockSync", "submitting",
                          "addBlock", "adding", "add_transaction", "verifyTransaction",
                          "getWalletNonce", "executing", "supply", "stats", "exited"},
          chain_sync |-> {"unborn", "sleep", "startChainSync", "popping", "fetching", "addBlock",
                          "adding", "failed", "retrying", "rolling back", "exited"},
          cleanup    |-> {"unborn", "sleep", "cleaning", "exited"}]

\* Every mutex has one owner or none, every thread is at a line of its own,
\* and the chain's length stays within what the peers have.
TypeOK ==
  /\ owner \in [Mutex -> Thread \cup {Free}]
  /\ \A t \in Thread : pc[t] \in Label[t]
  /\ isSyncing \in BOOLEAN /\ memPool \in BOOLEAN
  /\ numBlocks \in 0 .. MaxHeight /\ retries \in 0 .. MaxRetries + 1

\* What a blocked thread waits for.
WaitsFor(t, m) ==
  \/ m = "lock" /\ pc[t] \in {"addBlock", "submitting", "getWalletNonce", "supply", "startChainSync", "retrying"}
  \/ m = "mempool_mutex" /\ pc[t] \in {"add_transaction", "stats", "cleaning"}
  \/ m = "mempool_mutex" /\ pc[t] = "adding" /\ memPool

StuckOnItself(t) == \E m \in Mutex : WaitsFor(t, m) /\ owner[m] = t

\* MemPool::addTransaction asks for BlockChain::lock while it holds
\* mempool_mutex and addBlock asks for them the other way round: no two threads
\* may ever hold what the other one waits for.
NoTwoThreadsDeadlock ==
  \A t, u \in Thread : \A m, n \in Mutex :
    ~(t # u /\ WaitsFor(t, m) /\ owner[m] = u /\ WaitsFor(u, n) /\ owner[n] = t)

\* Every call returns - a request is answered or dropped by an exception, a
\* synchronisation and a clean-up end - or some thread waits for a mutex of
\* its own, or the process exits: nothing else stops the node.
CallsReturn ==
  \A t \in Thread :
    pc[t] \notin {"idle", "sleep", "unborn"} ~>
      \/ pc[t] \in {"idle", "sleep", "exited"}
      \/ \E u \in Thread : StuckOnItself(u)

\* test_request_manager.hpp: a block that is submitted is answered, with
\* SUCCESS if it is a good one.
SubmittedBlockAnswered == pc["main"] = "submitting" ~> pc["main"] = "idle"

=============================================================================
