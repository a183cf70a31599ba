------------------------------ MODULE ChainSync ------------------------------
(***************************************************************************)
(* chain_sync and startChainSync of BlockChain: a node follows the chains  *)
(* of its peers.  What it knows of a peer are the headers it holds of it   *)
(* (module HeaderChain), read again at every question to HostManager; the  *)
(* blocks come from the peer itself.                                       *)
(*                                                                         *)
(* BlockChain::lock is a std::mutex.  Whoever synchronises, rolls back or  *)
(* submits a block holds it when addBlock takes it again, and waits there  *)
(* for ever (module NodeLocks has the threads).  So the first block that   *)
(* is to be added, fetched or the genesis block after a reset, ends what   *)
(* is modelled here: what the loop does with further blocks is never run.  *)
(* Calls that hold the lock for a moment are left out.                     *)
(***************************************************************************)
EXTENDS Integers, SequencesExt, FiniteSetsExt

CONSTANTS
  Block, Genesis,
  Work,         \* the work of a block
  Peer,
  NoHost,       \* the name "", of no host
  Chains,       \* the chains that a peer may have
  PopCount,     \* FORK_CHAIN_POP_COUNT
  MaxRetries    \* FORK_RESET_RETRIES

SyncAssumption ==
  /\ Genesis \in Block /\ Work \in [Block -> Nat \ {0}]
  /\ IsFiniteSet(Peer) /\ Peer # {} /\ NoHost \notin Peer
  /\ Chains \subseteq Seq(Block) /\ <<>> \in Chains
  /\ PopCount \in Nat \ {0} /\ MaxRetries \in Nat

VARIABLES
  chain,        \* the node's blocks
  headers,      \* what it holds of each peer's chain
  lock,         \* who holds BlockChain::lock, if it is not "free"
  pc,
  bestHost,
  target,       \* targetBlockCount
  left,         \* blocks left to pop
  i,            \* the first block that is asked for
  retries,
  has,          \* the peers' chains
  settled       \* the peers answer, and neither they nor anyone adds blocks

locals == <<bestHost, left, i>>
world  == <<has, settled>>
vars   == <<chain, headers, lock, pc, locals, target, retries, world>>

Init ==
  /\ chain \in {c \in Chains : c # <<>>}
  /\ headers = [p \in Peer |-> <<>>] /\ has = headers /\ settled = FALSE
  /\ lock = "free" /\ pc = "sleep"
  /\ bestHost = NoHost /\ left = 0 /\ i = 1
  /\ target = Len(chain) /\ retries = 0

Goto(l) == pc' = l

\* The function is left, with its locals and the lock.
Return(l) ==
  /\ Goto(l) /\ lock' = "free"
  /\ bestHost' = NoHost /\ left' = 0 /\ i' = 1

NumBlocks == Len(chain)

WorkOf(c) ==
  LET sum[n \in 0 .. Len(c)] == IF n = 0 THEN 0 ELSE sum[n - 1] + Work[c[n]] IN sum[Len(c)]

(***************************************************************************)
(* HostManager's answers                                                   *)
(***************************************************************************)
TotalWork == Max({WorkOf(headers[p]) : p \in Peer})

\* The length of the first peer that has the most work; 0 if none has any.
BlockCounts == {Len(headers[p]) : p \in {q \in Peer : WorkOf(headers[q]) = TotalWork}}

\* No hash for the last header either, nor of a host that is not followed.
BlockHash(p, n) ==
  IF p \notin Peer THEN <<>> ELSE IF n >= Len(headers[p]) THEN <<>> ELSE <<headers[p][n]>>

\* The highest of those whose height could be asked for: one that cannot be
\* reached counts as -1, one whose answer is no number is passed over, and where
\* that is every one there is no host.
GoodHosts(up, mute) ==
  LET height(p) == IF p \in up THEN Len(has[p]) ELSE -1
      asked     == Peer \ mute
  IN IF asked = {} THEN {NoHost} ELSE {p \in asked : \A q \in asked : height(q) <= height(p)}

-----------------------------------------------------------------------------
Wake ==
  /\ pc = "sleep"
  /\ \E count \in BlockCounts : count > NumBlocks
  /\ Goto("lock")
  /\ UNCHANGED <<chain, headers, lock, locals, target, retries, world>>

StartChainSync ==
  /\ pc = "lock" /\ lock = "free"
  /\ lock' = "sync" /\ Goto("good host")
  /\ UNCHANGED <<chain, headers, locals, target, retries, world>>

GetGoodHost ==
  /\ pc = "good host"
  /\ \E up, mute \in SUBSET Peer :
       /\ settled => up = Peer /\ mute = {}
       /\ bestHost' \in GoodHosts(up, mute)
  /\ Goto("target")
  /\ UNCHANGED <<chain, headers, lock, target, left, i, retries, world>>

GetBlockCount ==
  /\ pc = "target"
  /\ target' \in BlockCounts
  /\ Goto("compare")
  /\ UNCHANGED <<chain, headers, lock, locals, retries, world>>

\* (Mutant: one block too few is popped when the chains part.)
ToPopShort ==
  LET parts == {n \in 1 .. NumBlocks : BlockHash(bestHost, n) # <<chain[n]>>}
  IN IF parts = {} THEN 0 ELSE NumBlocks - Min(parts)

\* From the first block that is not the trusted host's, and PopCount more.
ToPop ==
  LET parts == {n \in 1 .. NumBlocks : BlockHash(bestHost, n) # <<chain[n]>>}
  IN IF parts = {} THEN 0 ELSE NumBlocks - Min(parts) + PopCount

CompareWork ==
  /\ pc = "compare"
  /\ left' = IF TotalWork > WorkOf(chain) THEN ToPop ELSE 0
  /\ Goto("popping")
  /\ UNCHANGED <<chain, headers, lock, bestHost, target, i, retries, world>>

PopBlock ==
  /\ pc \in {"popping", "rolling back"}
  /\ left > 0 /\ NumBlocks > 2
  /\ chain' = SubSeq(chain, 1, NumBlocks - 1)
  /\ left' = left - 1
  /\ UNCHANGED <<headers, lock, pc, bestHost, target, i, retries, world>>

\* With the second block goes the first: resetChain sets the target to 1, clears
\* what is stored, and is about to add the first block again.
PopToReset ==
  /\ pc \in {"popping", "rolling back"}
  /\ left > 0 /\ NumBlocks = 2
  /\ chain' = <<>> /\ target' = 1
  /\ Goto("own lock")
  /\ UNCHANGED <<headers, lock, locals, retries, world>>

StopPopping ==
  /\ pc = "popping"
  /\ left = 0 \/ NumBlocks = 1
  /\ Goto("fetch") /\ i' = NumBlocks + 1
  /\ UNCHANGED <<chain, headers, lock, bestHost, target, left, retries, world>>

StopRollingBack ==
  /\ pc = "rolling back"
  /\ left = 0 \/ NumBlocks = 1
  /\ Return("sleep")
  /\ UNCHANGED <<chain, headers, target, retries, world>>

(***************************************************************************)
(* A batch: an exception when there is no host or no block in the answer;  *)
(* else its first block is to be added.                                    *)
(***************************************************************************)
NoBlocks ==
  IF bestHost = NoHost THEN {TRUE} ELSE IF settled THEN {i > Len(has[bestHost])} ELSE BOOLEAN


FetchBatch ==
  /\ pc = "fetch" /\ i <= target
  /\ \E none \in NoBlocks :
       IF none THEN Return("failed")
               ELSE Goto("own lock") /\ UNCHANGED <<lock, locals>>
  /\ UNCHANGED <<chain, headers, target, retries, world>>

SyncSucceeds ==
  /\ pc = "fetch" /\ i > target
  /\ Return("sleep")
  /\ retries' = 0
  /\ UNCHANGED <<chain, headers, target, world>>

(***************************************************************************)
(* A synchronisation that failed is followed by a longer and longer way    *)
(* back, and the process exits after MaxRetries of them.  The thread has   *)
(* to get the lock for the way back.                                       *)
(***************************************************************************)
SyncFails ==
  /\ pc = "failed"
  /\ retries' = retries + 1
  /\ Goto(IF retries' > MaxRetries THEN "exited" ELSE "retry")
  /\ UNCHANGED <<chain, headers, lock, locals, target, world>>

RollBack ==
  /\ pc = "retry" /\ lock = "free"
  /\ lock' = "sync" /\ Goto("rolling back")
  /\ left' = PopCount * retries
  /\ UNCHANGED <<chain, headers, bestHost, i, target, retries, world>>

-----------------------------------------------------------------------------
\* A block that is submitted while the lock is free.
AddBlockSync ==
  /\ lock = "free" /\ pc # "exited" /\ ~settled
  /\ lock' = "handler"
  /\ UNCHANGED <<chain, headers, pc, locals, target, retries, world>>

HeadersChange ==
  /\ ~settled
  /\ \E p \in Peer, c \in Chains : headers' = [headers EXCEPT ![p] = c]
  /\ UNCHANGED <<chain, lock, pc, locals, target, retries, world>>

\* The header chains have come to be the peers' chains.
Settle ==
  /\ ~settled /\ settled' = TRUE
  /\ has' \in [Peer -> Chains \ {<<>>}]
  /\ headers' = has'
  /\ UNCHANGED <<chain, lock, pc, locals, target, retries>>

Sync ==
  \/ Wake \/ StartChainSync \/ GetGoodHost \/ GetBlockCount \/ CompareWork
  \/ PopBlock \/ PopToReset \/ StopPopping \/ StopRollingBack
  \/ FetchBatch \/ SyncSucceeds \/ SyncFails \/ RollBack

Next == Sync \/ AddBlockSync \/ HeadersChange \/ Settle

\* The thread runs on; nothing outside has to happen.
Spec == Init /\ [][Next]_vars /\ WF_vars(Sync)

-----------------------------------------------------------------------------
\* Chains are chains, the counters stay in their ranges; a node has a block
\* unless it is to get its first one again.
TypeOK ==
  /\ chain \in Seq(Block) /\ (chain = <<>> => pc = "own lock")
  /\ chain # <<>> => chain[1] = Genesis
  /\ headers \in [Peer -> Chains] /\ has \in [Peer -> Chains]
  /\ pc \in {"sleep", "lock", "good host", "target", "compare", "popping", "fetch", "failed",
             "retry", "rolling back", "own lock", "exited"}
  /\ lock \in {"free", "sync", "handler"}
  /\ pc \in {"good host", "target", "compare", "popping", "fetch", "rolling back", "own lock"}
       <=> lock = "sync"
  /\ bestHost \in Peer \cup {NoHost} /\ {target, i, left} \subseteq Nat
  /\ retries \in 0 .. MaxRetries + 1 /\ settled \in BOOLEAN

\* Whatever was popped, refused and retried before: once its peers have settled
\* on chains of more work and more blocks than the node's, and the lock is free,
\* the node settles on one of the highest of them, goes back to blocks that it
\* shares with that one, and has the one after them from it, or the first of all,
\* when it comes to its own lock.
ComesToFork ==
  /\ settled /\ pc = "sleep" /\ lock = "free"
  /\ TotalWork > WorkOf(chain) /\ \A count \in BlockCounts : count > NumBlocks
  ~>
  /\ pc = "own lock"
  /\ bestHost \in GoodHosts(Peer, {}) /\ IsPrefix(chain, headers[bestHost])
  /\ chain # <<>> => i = NumBlocks + 1 /\ i <= target /\ target <= Len(has[bestHost])


=============================================================================
