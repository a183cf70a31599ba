----------------------------- MODULE NodeProofs -----------------------------
(***************************************************************************)
(* What holds of the threads, the rate limiter, the proof-of-work cache    *)
(* and the memory pool of a node, for every value of the constants.        *)
(***************************************************************************)
EXTENDS Node, TLAPS

\* A step of the node is a step of one part, and the others stand still.
LEMMA PartsStep ==
  ASSUME [Next]_vars
  PROVE  /\ part' = part
         /\ [Locks!Next]_Locks!vars /\ [Http!Next]_Http!vars /\ [Reading!Next]_Reading!vars
         /\ [Rate!Next]_Rate!vars /\ [Pow!Next]_Pow!vars
         /\ part # "copies" => [Pool!Next]_Pool!vars
<1>. USE DEF vars, locksVars, poolVars, httpVars, readingVars, limiterVars, powVars,
             Locks!vars, Pool!vars, Pool!pool, Pool!chain, Http!vars, Reading!vars, Rate!vars,
             Pow!vars
<1>1. CASE UNCHANGED vars  BY <1>1
<1>2. CASE Next  BY <1>2 DEF Next
<1>. QED  BY <1>1, <1>2

LockTypes ==
  /\ owner \in [Locks!Mutex -> {"main", "chain_sync", Free}]
  /\ DOMAIN lockPc = Locks!Thread /\ DOMAIN back = Locks!Thread
  /\ back["main"] \in {"none", "loaded", "idle"}

\* mempool_mutex is held by one thread at most, the main one, while a
\* transaction is checked, or was when the process exited; the others only pass
\* through it.
PoolMutexIsMains ==
  /\ owner["mempool_mutex"] \in {"main", Free}
  /\ owner["mempool_mutex"] = "main" =>
       lockPc["main"] \in {"verifyTransaction", "getWalletNonce", "executing", "exited"}

\* Who changes the chain, or undoes what it executed, has the lock.
ChangesUnderLock ==
  /\ lockPc["main"] \in {"adding", "executing"} => owner["lock"] = "main"
  /\ lockPc["chain_sync"] \in {"popping", "rolling back", "fetching", "addBlock"} => owner["lock"] = "chain_sync"

\* chain_sync comes to addBlock with the lock and gets no further; the rest are
\* lines of other threads.
SyncStopsAtItself == lockPc["chain_sync"] \notin {"adding", "add_transaction", "stats", "cleaning"}

LocksInv == LockTypes /\ PoolMutexIsMains /\ ChangesUnderLock /\ SyncStopsAtItself

LEMMA LocksStart == ASSUME Locks!LocksAssumption, Locks!Init PROVE LocksInv

    BY DEF Locks!LocksAssumption, Locks!Init, LocksInv, LockTypes, PoolMutexIsMains,
           ChangesUnderLock,
         SyncStopsAtItself, Locks!Thread, Locks!Mutex

LEMMA AddBlockKeeps ==
  ASSUME Locks!LocksAssumption, LocksInv, NEW t \in {"main", "chain_sync"},
         Locks!AddBlock(t) \/ Locks!FinishBlock(t)
  PROVE  LocksInv'
<1>1. CASE t = "main" /\ Locks!AddBlock(t)

    BY <1>1 DEF Locks!AddBlock, Locks!Take, Locks!Goto, Locks!chain, Locks!LocksAssumption,
                LocksInv, LockTypes, PoolMutexIsMains,
              ChangesUnderLock, SyncStopsAtItself, Locks!Thread, Locks!Mutex
<1>2. CASE t = "chain_sync" /\ Locks!AddBlock(t)

    BY <1>2 DEF Locks!AddBlock, Locks!Take, Locks!LocksAssumption, LocksInv, ChangesUnderLock,
                Locks!Thread
<1>3. CASE t = "main" /\ Locks!FinishBlock(t)
  <2>1. /\ lockPc["main"] = "adding" /\ owner' = [owner EXCEPT !["lock"] = Free] /\ back' = back
        /\ lockPc' = [lockPc EXCEPT !["main"] = back["main"]]
    BY <1>3 DEF Locks!FinishBlock, Locks!Release, Locks!Goto
  <2>. QED
    BY <2>1 DEF Locks!LocksAssumption, LocksInv, LockTypes, PoolMutexIsMains, ChangesUnderLock,
                SyncStopsAtItself, Locks!Thread, Locks!Mutex
<1>4. CASE t = "chain_sync" /\ Locks!FinishBlock(t)
  BY <1>4 DEF Locks!FinishBlock, LocksInv, SyncStopsAtItself
<1>. QED  BY <1>1, <1>2, <1>3, <1>4

LEMMA MainKeeps ==
  ASSUME Locks!LocksAssumption, LocksInv, Locks!Main \/ Locks!Receive
  PROVE  LocksInv'
<1>. USE DEF LocksInv, LockTypes, PoolMutexIsMains, ChangesUnderLock, SyncStopsAtItself,
             Locks!LocksAssumption, Locks!Thread, Locks!Mutex, Locks!Goto, Locks!Take,
             Locks!Release, Locks!Answer, Locks!CallAddBlock
<1>1. ASSUME Locks!LoadChain  PROVE LocksInv'  BY <1>1 DEF Locks!LoadChain
<1>2. ASSUME Locks!StartChainSyncThread  PROVE LocksInv'  BY <1>2 DEF Locks!StartChainSyncThread
<1>3. ASSUME Locks!SetMemPool  PROVE LocksInv'  BY <1>3 DEF Locks!SetMemPool
<1>4. ASSUME Locks!SubmitProofOfWork  PROVE LocksInv'  BY <1>4 DEF Locks!SubmitProofOfWork
<1>5. ASSUME Locks!AddBlockSync  PROVE LocksInv'  BY <1>5 DEF Locks!AddBlockSync
<1>6. ASSUME Locks!LockAndAdd  PROVE LocksInv'  BY <1>6 DEF Locks!LockAndAdd
<1>7. ASSUME Locks!AddTransaction  PROVE LocksInv'
  <2>1. lockPc["main"] = "add_transaction" /\ back' = back
    BY <1>7 DEF Locks!AddTransaction, Locks!chain
  <2>2. CASE /\ owner["mempool_mutex"] = Free /\ owner' = [owner EXCEPT !["mempool_mutex"] = "main"]
             /\ lockPc' = [lockPc EXCEPT !["main"] = "verifyTransaction"]
    BY <2>1, <2>2
  <2>3. CASE owner' = owner /\ owner["mempool_mutex"] = Free /\ \E l \in {"idle", "ready"} : lockPc' = [lockPc EXCEPT !["main"] = l]
    BY <2>1, <2>3
  <2>. QED  BY <1>7, <2>2, <2>3 DEF Locks!AddTransaction
<1>8. ASSUME Locks!VerifyTransaction  PROVE LocksInv'
  <2>1. lockPc["main"] = "verifyTransaction" /\ back' = back
    BY <1>8 DEF Locks!VerifyTransaction, Locks!chain
  <2>2. CASE /\ owner' = [owner EXCEPT !["mempool_mutex"] = Free]
             /\ \E l \in {"idle", "ready"} : lockPc' = [lockPc EXCEPT !["main"] = l]
    BY <2>1, <2>2
  <2>3. CASE owner' = owner /\ lockPc' = [lockPc EXCEPT !["main"] = "getWalletNonce"]
    BY <2>1, <2>3
  <2>. QED  BY <1>8, <2>2, <2>3 DEF Locks!VerifyTransaction
<1>9. ASSUME Locks!GetWalletNonce  PROVE LocksInv'
  <2>1. lockPc["main"] = "getWalletNonce" /\ owner["lock"] = Free /\ back' = back
    BY <1>9 DEF Locks!GetWalletNonce, Locks!chain
  <2>2. CASE /\ owner' = [owner EXCEPT !["mempool_mutex"] = Free]
             /\ \E l \in {"idle", "ready"} : lockPc' = [lockPc EXCEPT !["main"] = l]
    BY <2>1, <2>2
  <2>3. CASE /\ owner' = [owner EXCEPT !["lock"] = "main"]
             /\ lockPc' = [lockPc EXCEPT !["main"] = "executing"]
    BY <2>1, <2>3
  <2>. QED  BY <1>9, <2>2, <2>3 DEF Locks!GetWalletNonce
<1>10. ASSUME Locks!ExecuteTransaction  PROVE LocksInv'  BY <1>10 DEF Locks!ExecuteTransaction
<1>11. ASSUME Locks!GetSupply  PROVE LocksInv'  BY <1>11 DEF Locks!GetSupply
<1>12. ASSUME Locks!ReadMemPool  PROVE LocksInv'  BY <1>12 DEF Locks!ReadMemPool
<1>13. ASSUME Locks!Receive  PROVE LocksInv'  BY <1>13 DEF Locks!Receive
<1>14. ASSUME Locks!LoadMemPool  PROVE LocksInv'  BY <1>14 DEF Locks!LoadMemPool
<1>. QED
  BY <1>1, <1>2, <1>3, <1>4, <1>5, <1>6, <1>7, <1>8, <1>9, <1>10, <1>11, <1>12, <1>13, <1>14
  DEF Locks!Main

LEMMA SyncKeeps ==
  ASSUME Locks!LocksAssumption, LocksInv, Locks!Wake \/ Locks!Sync
  PROVE  LocksInv'
<1>. USE DEF LocksInv, LockTypes, PoolMutexIsMains, ChangesUnderLock, SyncStopsAtItself,
             Locks!LocksAssumption, Locks!Thread, Locks!Mutex, Locks!Goto, Locks!Take,
             Locks!Release, Locks!CallAddBlock
<1>1. ASSUME Locks!Wake  PROVE LocksInv'  BY <1>1 DEF Locks!Wake
<1>2. ASSUME Locks!StartChainSync  PROVE LocksInv'  BY <1>2 DEF Locks!StartChainSync
<1>3. ASSUME Locks!PopBlock  PROVE LocksInv'  BY <1>3 DEF Locks!PopBlock
<1>4. ASSUME Locks!StopPopping  PROVE LocksInv'  BY <1>4 DEF Locks!StopPopping
<1>5. ASSUME Locks!Fetch  PROVE LocksInv'
  <2>1. lockPc["chain_sync"] = "fetching"  BY <1>5 DEF Locks!Fetch
  <2>2. CASE /\ Locks!CallAddBlock("chain_sync", "fetching") /\ owner' = owner
    BY <2>1, <2>2
  <2>3. CASE /\ lockPc' = [lockPc EXCEPT !["chain_sync"] = "failed"]
             /\ owner' = [owner EXCEPT !["lock"] = Free] /\ back' = back
    BY <2>1, <2>3
  <2>. QED  BY <1>5, <2>2, <2>3 DEF Locks!Fetch
<1>6. ASSUME Locks!SyncSucceeds  PROVE LocksInv'  BY <1>6 DEF Locks!SyncSucceeds
<1>7. ASSUME Locks!Retry  PROVE LocksInv'
  <2>1. owner' = owner /\ back' = back  BY <1>7 DEF Locks!Retry
  <2>2. CASE lockPc' = [lockPc EXCEPT !["chain_sync"] = "retrying"]  BY <2>1, <2>2
  <2>3. CASE lockPc' = [t \in Locks!Thread |-> "exited"]  BY <2>1, <2>3
  <2>. QED  BY <1>7, <2>2, <2>3 DEF Locks!Retry
<1>8. ASSUME Locks!RollBack  PROVE LocksInv'  BY <1>8 DEF Locks!RollBack
<1>. QED  BY <1>1, <1>2, <1>3, <1>4, <1>5, <1>6, <1>7, <1>8 DEF Locks!Sync

LEMMA OtherThreadsKeep ==
  ASSUME Locks!LocksAssumption, LocksInv,
         Locks!CleanUp \/ Locks!PeersChange \/ UNCHANGED Locks!vars
  PROVE  LocksInv'
<1>. USE DEF LocksInv, LockTypes, PoolMutexIsMains, ChangesUnderLock, SyncStopsAtItself,
             Locks!Thread, Locks!Mutex, Locks!Goto
<1>1. ASSUME Locks!CleanUp  PROVE LocksInv'  BY <1>1 DEF Locks!CleanUp
<1>2. ASSUME Locks!PeersChange  PROVE LocksInv'  BY <1>2 DEF Locks!PeersChange
<1>3. ASSUME UNCHANGED Locks!vars  PROVE LocksInv'  BY <1>3 DEF Locks!vars
<1>. QED  BY <1>1, <1>2, <1>3

\* Of two threads that wait for each other one has mempool_mutex: that is the
\* main one, and the other would be chain_sync, in finishBlock.
LEMMA LocksInvSuffices == ASSUME Locks!LocksAssumption, LocksInv PROVE Locks!NoTwoThreadsDeadlock
<1>. SUFFICES ASSUME NEW t \in Locks!Thread, NEW u \in Locks!Thread, NEW m \in Locks!Mutex,
                     NEW n \in Locks!Mutex,
                     t # u, Locks!WaitsFor(t, m), owner[m] = u, Locks!WaitsFor(u, n), owner[n] = t
              PROVE  FALSE
  BY DEF Locks!NoTwoThreadsDeadlock
<1>. USE DEF Locks!LocksAssumption, LocksInv, LockTypes, PoolMutexIsMains, SyncStopsAtItself,
             Locks!Thread, Locks!Mutex, Locks!WaitsFor
<1>1. CASE m = "mempool_mutex"
  <2>1. u = "main" /\ n = "lock" /\ t = "chain_sync"  BY <1>1
  <2>. QED  BY <1>1, <2>1
<1>2. CASE n = "mempool_mutex"
  <2>1. t = "main" /\ m = "lock" /\ u = "chain_sync"  BY <1>2
  <2>. QED  BY <1>2, <2>1
<1>. QED  BY <1>1, <1>2

\* addTransaction takes mempool_mutex before the lock and addBlock the lock
\* before mempool_mutex: no two threads wait for each other, since the only one
\* that could add a block while a request is handled stops before.
THEOREM NoCircularWait == Spec => []NoTwoThreadsDeadlock
<1>1. Init => LocksInv
  BY LocksStart, NodeAssumption DEF Init
<1>2. LocksInv /\ [Next]_vars => LocksInv'
  <2>1. LocksInv /\ [Locks!Next]_Locks!vars => LocksInv'
    BY AddBlockKeeps, MainKeeps, SyncKeeps, OtherThreadsKeep, NodeAssumption DEF Locks!Next
  <2>. QED  BY <2>1, PartsStep
<1>3. LocksInv => NoTwoThreadsDeadlock
  BY LocksInvSuffices, NodeAssumption DEF NoTwoThreadsDeadlock
<1>. QED  BY <1>1, <1>2, <1>3, PTL DEF Spec

-----------------------------------------------------------------------------
\* What an entry is good for: it lies at least "add" times the number of
\* requests since the i-th, which itself counts, after that request, less
\* "seconds".  An address without an entry has no history.
EntryCovers ==
  \A ip \in Ip :
    /\ ip \notin known => accepted[ip] = <<>>
    /\ \A k \in DOMAIN accepted[ip] :
         /\ accepted[ip][k] - seconds + (Len(accepted[ip]) - k + 1) * Rate!add <= entries[ip]
         /\ accepted[ip][k] <= now

LimiterInv == Rate!TypeOK /\ EntryCovers /\ Rate!Paced /\ Rate!RefusedBriefly

LEMMA AddIsNat == ASSUME Rate!LimiterAssumption PROVE Rate!add \in Nat
  BY DEF Rate!LimiterAssumption, Rate!add

\* One more request costs one more "add".
LEMMA OneMore ==
  ASSUME Rate!LimiterAssumption, NEW k \in Int
  PROVE  (k + 1) * Rate!add = k * Rate!add + Rate!add /\ k * Rate!add \in Int
  BY AddIsNat

LEMMA HistoryHolds ==
  ASSUME NEW S, NEW q \in Seq(S), NEW k \in DOMAIN q
  PROVE  q[k] \in S
  OBVIOUS

LEMMA LimiterStarts == ASSUME Rate!LimiterAssumption, Rate!Init PROVE LimiterInv

    BY DEF Rate!LimiterAssumption, Rate!Init, LimiterInv, Rate!TypeOK, EntryCovers, Rate!Paced,
           Rate!RefusedBriefly

\* An address gets an entry: its history is this request, that of others stays
\* or is forgotten whole.
LEMMA EnterKeeps ==
  ASSUME Rate!LimiterAssumption, LimiterInv, NEW ip \in Ip, Rate!Enter(ip)
  PROVE  LimiterInv'
<1>1. PICK kept \in SUBSET (known \cup {ip}) :
        /\ known' = kept
        /\ entries' = [entries EXCEPT ![ip] = now - seconds + Rate!add]
        /\ accepted' = [x \in Ip |-> IF x \notin kept THEN <<>>
                                     ELSE IF x = ip THEN <<now>> ELSE accepted[x]]
  BY DEF Rate!Enter
<1>2. now' = now /\ now \in Nat /\ Rate!add \in Nat /\ seconds \in Nat
  BY AddIsNat DEF Rate!Enter, LimiterInv, Rate!TypeOK, Rate!LimiterAssumption
<1>3. \A x \in Ip : \/ accepted'[x] = <<>> /\ x \notin known'
                    \/ accepted'[x] = <<now>> /\ x = ip /\ entries'[x] = now - seconds + Rate!add
                    \/ accepted'[x] = accepted[x] /\ x # ip /\ x \in known /\ entries'[x] = entries[x]
  BY <1>1 DEF LimiterInv, Rate!TypeOK
<1>4. Rate!TypeOK'
  <2>1. entries' \in [Ip -> Int]  BY <1>1, <1>2 DEF LimiterInv, Rate!TypeOK
  <2>2. accepted' \in [Ip -> Seq(0 .. LimiterTime)]
    <3>1. <<>> \in Seq(0 .. LimiterTime) /\ <<now>> \in Seq(0 .. LimiterTime)
      BY DEF LimiterInv, Rate!TypeOK
    <3>2. \A x \in Ip : accepted[x] \in Seq(0 .. LimiterTime)  BY DEF LimiterInv, Rate!TypeOK
    <3>3. \A x \in Ip : accepted'[x] \in Seq(0 .. LimiterTime)  BY <1>3, <3>1, <3>2
    <3>. QED  BY <1>1, <3>3
  <2>. QED  BY <1>1, <1>2, <2>1, <2>2 DEF LimiterInv, Rate!TypeOK
<1>5. EntryCovers'
  <2>. SUFFICES ASSUME NEW x \in Ip
                PROVE  /\ x \notin known' => accepted'[x] = <<>>
                       /\ \A k \in DOMAIN accepted'[x] :
                            /\ accepted'[x][k] - seconds + (Len(accepted'[x]) - k + 1) * Rate!add <= entries'[x]
                            /\ accepted'[x][k] <= now
    BY <1>2 DEF EntryCovers
  <2>1. CASE accepted'[x] = <<>>  BY <2>1
  <2>2. CASE accepted'[x] = <<now>> /\ x = ip /\ entries'[x] = now - seconds + Rate!add
    <3>1. x \in known'  BY <1>1, <2>2
    <3>2. (1 - 1 + 1) * Rate!add = Rate!add  BY <1>2
    <3>. QED  BY <1>2, <2>2, <3>1, <3>2
  <2>3. CASE accepted'[x] = accepted[x] /\ x # ip /\ x \in known /\ entries'[x] = entries[x]
    <3>1. x \notin known' => accepted'[x] = <<>>  BY <1>1
    <3>. QED  BY <2>3, <3>1 DEF LimiterInv, EntryCovers
  <2>. QED  BY <1>3, <2>1, <2>2, <2>3
<1>6. Rate!Paced'
  <2>. SUFFICES ASSUME NEW x \in Ip, NEW i \in DOMAIN accepted'[x],
                       NEW j \in DOMAIN accepted'[x], i < j
                PROVE  (j - i) * Rate!add <= accepted'[x][j] - accepted'[x][i] + seconds
    BY DEF Rate!Paced
  <2>1. accepted'[x] = accepted[x]  BY <1>3
  <2>. QED  BY <2>1 DEF LimiterInv, Rate!Paced
<1>7. Rate!RefusedBriefly'
  <2>. SUFFICES ASSUME NEW x \in known'  PROVE entries'[x] <= now + Rate!add
    BY <1>2 DEF Rate!RefusedBriefly
  <2>1. x \in Ip  BY <1>1 DEF LimiterInv, Rate!TypeOK
  <2>2. CASE x = ip  BY <1>1, <1>2, <2>2 DEF LimiterInv, Rate!TypeOK
  <2>3. CASE x # ip
    <3>1. x \in known /\ entries'[x] = entries[x]  BY <1>1, <2>1, <2>3 DEF LimiterInv, Rate!TypeOK
    <3>. QED  BY <3>1 DEF LimiterInv, Rate!RefusedBriefly
  <2>. QED  BY <2>2, <2>3
<1>. QED  BY <1>4, <1>5, <1>6, <1>7 DEF LimiterInv

\* A request is accepted: the entry lies "add" further, and not before it was
\* good for, so it was "seconds" after every request less what these cost.
LEMMA AcceptKeeps ==
  ASSUME Rate!LimiterAssumption, LimiterInv, NEW ip \in Ip, Rate!Accept(ip)
  PROVE  LimiterInv'
<1>. DEFINE h == accepted[ip]
<1>1. /\ now \in 0 .. LimiterTime /\ Rate!add \in Nat /\ seconds \in Nat /\ LimiterTime \in Nat
      /\ entries[ip] \in Int /\ entries[ip] <= now /\ ip \in known
      /\ h \in Seq(0 .. LimiterTime)
  BY AddIsNat DEF Rate!Accept, LimiterInv, Rate!TypeOK, Rate!LimiterAssumption
<1>2. /\ entries' = [entries EXCEPT ![ip] = Rate!Later(now - seconds, entries[ip]) + Rate!add]
      /\ accepted' = [accepted EXCEPT ![ip] = Append(h, now)]
      /\ known' = known /\ now' = now
  BY DEF Rate!Accept
<1>3. /\ entries'[ip] \in Int /\ entries'[ip] >= entries[ip] + Rate!add /\ entries'[ip] >= now - seconds + Rate!add
      /\ entries'[ip] <= now + Rate!add
  BY <1>1, <1>2 DEF Rate!Later, LimiterInv, Rate!TypeOK
<1>4. accepted'[ip] = Append(h, now)  BY <1>2 DEF LimiterInv, Rate!TypeOK
<1>5. \A x \in Ip : x # ip => accepted'[x] = accepted[x] /\ entries'[x] = entries[x]
  BY <1>2 DEF LimiterInv, Rate!TypeOK
<1>6. /\ Len(Append(h, now)) = Len(h) + 1 /\ Len(h) \in Nat
      /\ DOMAIN Append(h, now) = 1 .. Len(h) + 1 /\ DOMAIN h = 1 .. Len(h)
      /\ Append(h, now)[Len(h) + 1] = now
      /\ \A k \in 1 .. Len(h) : Append(h, now)[k] = h[k] /\ h[k] \in Int
  BY <1>1
<1>7. Rate!TypeOK'
  <2>1. entries' \in [Ip -> Int]  BY <1>2, <1>3 DEF LimiterInv, Rate!TypeOK
  <2>2. Append(h, now) \in Seq(0 .. LimiterTime)  BY <1>1
  <2>3. accepted' \in [Ip -> Seq(0 .. LimiterTime)]  BY <1>2, <2>2 DEF LimiterInv, Rate!TypeOK
  <2>. QED  BY <1>2, <2>1, <2>3 DEF LimiterInv, Rate!TypeOK
<1>8. \A k \in 1 .. Len(h) : /\ h[k] - seconds + (Len(h) - k + 1) * Rate!add <= entries[ip]
                             /\ h[k] <= now
  BY <1>6 DEF LimiterInv, EntryCovers
<1>9. EntryCovers'
  <2>. SUFFICES ASSUME NEW x \in Ip
                PROVE  /\ x \notin known' => accepted'[x] = <<>>
                       /\ \A k \in DOMAIN accepted'[x] :
                            /\ accepted'[x][k] - seconds + (Len(accepted'[x]) - k + 1) * Rate!add <= entries'[x]
                            /\ accepted'[x][k] <= now
    BY <1>2 DEF EntryCovers
  <2>1. CASE x # ip  BY <1>2, <1>5, <2>1 DEF LimiterInv, EntryCovers
  <2>2. CASE x = ip
    <3>. DEFINE g == Append(h, now)
    <3>0. ASSUME \A k \in DOMAIN g : /\ g[k] - seconds + (Len(g) - k + 1) * Rate!add <= entries'[ip]
                                     /\ g[k] <= now
          PROVE  /\ x \notin known' => accepted'[x] = <<>>
                 /\ \A k \in DOMAIN accepted'[x] :
                      /\ accepted'[x][k] - seconds + (Len(accepted'[x]) - k + 1) * Rate!add <= entries'[x]
                      /\ accepted'[x][k] <= now
      <4>. HIDE DEF g
      <4>1. accepted'[x] = g  BY <1>4, <2>2 DEF g
      <4>. QED  BY <1>1, <1>2, <2>2, <3>0, <4>1
    <3>. SUFFICES ASSUME NEW k \in 1 .. Len(h) + 1
                  PROVE  /\ Append(h, now)[k] - seconds + (Len(h) + 1 - k + 1) * Rate!add <= entries'[ip]
                         /\ Append(h, now)[k] <= now
      BY <1>6, <3>0
    <3>1. CASE k = Len(h) + 1
      <4>1. Len(h) + 1 - k + 1 = 1 /\ 1 * Rate!add = Rate!add  BY <1>1, <1>6, <3>1
      <4>. QED  BY <1>1, <1>3, <1>6, <3>1, <4>1
    <3>2. CASE k \in 1 .. Len(h)
      <4>. DEFINE m == Len(h) - k + 1
      <4>1. m \in Int /\ Len(h) + 1 - k + 1 = m + 1  BY <1>6, <3>2
      <4>2. (m + 1) * Rate!add = m * Rate!add + Rate!add /\ m * Rate!add \in Int  BY <4>1, OneMore
      <4>3. h[k] - seconds + m * Rate!add <= entries[ip] /\ h[k] <= now
        BY <1>8, <3>2
      <4>5. h[k] \in Int  BY <1>6, <3>2
      <4>4. h[k] - seconds + (m * Rate!add + Rate!add) <= entries'[ip]
        <5>. DEFINE p == m * Rate!add
                    a == h[k]
                    e == entries[ip]
                    f == entries'[ip]
        <5>1. p \in Int /\ a \in Int /\ e \in Int /\ f \in Int  BY <1>1, <1>3, <4>2, <4>5
        <5>2. a - seconds + p <= e /\ e + Rate!add <= f  BY <1>1, <1>3, <4>3
        <5>3. seconds \in Int /\ Rate!add \in Int  BY <1>1
        <5>. HIDE DEF p, a, e, f
        <5>4. a - seconds + (p + Rate!add) <= f  BY <5>1, <5>2, <5>3
        <5>. QED  BY <5>4 DEF p, a, f
      <4>. QED  BY <1>6, <3>2, <4>1, <4>2, <4>3, <4>4
    <3>. QED  BY <1>6, <3>1, <3>2
  <2>. QED  BY <2>1, <2>2
<1>10. Rate!Paced'
  <2>. SUFFICES ASSUME NEW x \in Ip, NEW i \in DOMAIN accepted'[x],
                       NEW j \in DOMAIN accepted'[x], i < j
                PROVE  (j - i) * Rate!add <= accepted'[x][j] - accepted'[x][i] + seconds
    BY DEF Rate!Paced
  <2>1. CASE x # ip  BY <1>5, <2>1 DEF LimiterInv, Rate!Paced
  <2>2. CASE x = ip
    <3>1. i \in 1 .. Len(h) /\ j \in 1 .. Len(h) + 1  BY <1>4, <1>6, <2>2
    <3>2. CASE j \in 1 .. Len(h)
      <4>1. (j - i) * Rate!add <= h[j] - h[i] + seconds
        BY <1>6, <3>1, <3>2 DEF LimiterInv, Rate!Paced
      <4>. QED  BY <1>4, <1>6, <2>2, <3>1, <3>2, <4>1
    <3>3. CASE j = Len(h) + 1
      <4>. DEFINE m == Len(h) - i + 1
      <4>1. j - i = m /\ m \in Int /\ i \in 1 .. Len(h)  BY <1>6, <3>1, <3>3
      <4>5. h[i] - seconds + m * Rate!add <= entries[ip]  BY <1>8, <4>1
      <4>2. h[i] - seconds + m * Rate!add <= entries[ip] /\ h[i] \in Int  BY <1>6, <4>1, <4>5
      <4>3. m * Rate!add \in Int  BY <4>1, OneMore
      <4>4. m * Rate!add <= now - h[i] + seconds
        <5>. DEFINE p == m * Rate!add
                    a == h[i]
                    e == entries[ip]
        <5>1. p \in Int /\ a \in Int /\ e \in Int  BY <1>1, <4>2, <4>3
        <5>2. a - seconds + p <= e /\ e <= now  BY <1>1, <4>2
        <5>3. seconds \in Int /\ now \in Int  BY <1>1
        <5>. HIDE DEF p, a, e
        <5>4. p <= now - a + seconds  BY <5>1, <5>2, <5>3
        <5>. QED  BY <5>4 DEF p, a
      <4>. QED  BY <1>4, <1>6, <2>2, <3>1, <3>3, <4>4
    <3>. QED  BY <1>6, <3>1, <3>2, <3>3
  <2>. QED  BY <2>1, <2>2
<1>11. Rate!RefusedBriefly'
  <2>. SUFFICES ASSUME NEW x \in known  PROVE entries'[x] <= now + Rate!add
    BY <1>2 DEF Rate!RefusedBriefly
  <2>1. x \in Ip  BY DEF LimiterInv, Rate!TypeOK
  <2>. QED  BY <1>3, <1>5, <2>1 DEF LimiterInv, Rate!RefusedBriefly
<1>. QED  BY <1>7, <1>9, <1>10, <1>11 DEF LimiterInv

\* A request that is refused changes nothing; time only passes.
LEMMA LimiterKeeps ==
  ASSUME Rate!LimiterAssumption, LimiterInv, [Rate!Next]_Rate!vars
  PROVE  LimiterInv'
<1>1. ASSUME NEW ip \in Ip, Rate!Enter(ip)  PROVE LimiterInv'  BY <1>1, EnterKeeps
<1>2. ASSUME NEW ip \in Ip, Rate!Accept(ip)  PROVE LimiterInv'  BY <1>2, AcceptKeeps
<1>3. ASSUME UNCHANGED Rate!vars  PROVE LimiterInv'
  BY <1>3 DEF Rate!vars, LimiterInv, Rate!TypeOK, EntryCovers, Rate!Paced, Rate!RefusedBriefly
<1>4. ASSUME Rate!Tick  PROVE LimiterInv'
  <2>1. now \in 0 .. LimiterTime /\ now' \in 0 .. LimiterTime /\ now' = now + 1 /\ LimiterTime \in Nat /\ Rate!add \in Nat
    BY <1>4, AddIsNat DEF Rate!Tick, LimiterInv, Rate!TypeOK, Rate!LimiterAssumption
  <2>2. known' = known /\ entries' = entries /\ accepted' = accepted  BY <1>4 DEF Rate!Tick
  <2>3. Rate!TypeOK'  BY <2>1, <2>2 DEF LimiterInv, Rate!TypeOK
  <2>4. EntryCovers'
    <3>1. ASSUME NEW x \in Ip, NEW k \in DOMAIN accepted[x]  PROVE accepted[x][k] \in Int
      <4>1. accepted[x] \in Seq(0 .. LimiterTime)  BY DEF LimiterInv, Rate!TypeOK
      <4>2. accepted[x][k] \in 0 .. LimiterTime  BY <4>1, HistoryHolds
      <4>. QED  BY <2>1, <4>2
    <3>. QED  BY <2>1, <2>2, <3>1 DEF LimiterInv, EntryCovers
  <2>5. Rate!Paced'  BY <2>2 DEF LimiterInv, Rate!Paced
  <2>6. Rate!RefusedBriefly'
    <3>1. \A x \in known : entries[x] \in Int  BY DEF LimiterInv, Rate!TypeOK
    <3>. QED  BY <2>1, <2>2, <3>1 DEF LimiterInv, Rate!RefusedBriefly
  <2>. QED  BY <2>3, <2>4, <2>5, <2>6 DEF LimiterInv
<1>. QED  BY <1>1, <1>2, <1>3, <1>4 DEF Rate!Next, Rate!limit, Rate!Refuse

LEMMA LimiterInvHolds == Spec => []LimiterInv
<1>1. Init => LimiterInv
  BY LimiterStarts, NodeAssumption DEF Init
<1>2. LimiterInv /\ [Next]_vars => LimiterInv'
  BY LimiterKeeps, PartsStep, NodeAssumption
<1>. QED  BY <1>1, <1>2, PTL DEF Spec

\* RateLimiter::limit: an address is accepted at most so often in any period,
\* whatever it asks for in between and whoever else asks.
THEOREM LimitPaces == Spec => []Paced
<1>1. LimiterInv => Paced  BY DEF LimiterInv, Paced
<1>. QED  BY <1>1, LimiterInvHolds, PTL

\* RateLimiter::limit: refused requests cost nothing, so none is refused for
\* longer than "add" after the last one that was accepted.
THEOREM LimitRefusesBriefly == Spec => []RefusedBriefly
<1>1. LimiterInv => RefusedBriefly  BY DEF LimiterInv, RefusedBriefly
<1>. QED  BY <1>1, LimiterInvHolds, PTL

-----------------------------------------------------------------------------
PowTypes ==
  /\ pc \in [Verifier -> {"idle", "lookup", "compute"}]
  /\ target \in [Verifier -> Target] /\ nonce \in [Verifier -> Nonce]
  /\ verdict \in [Verifier -> {"none", "valid", "invalid"}]
  /\ DOMAIN cache = Target
  /\ asked \in [Target -> SUBSET Nonce]

\* A hash in the cache is that of its target with a nonce somebody asked about.
CacheOfAsked ==
  \A t \in Target : cache[t] # NoHash => \E n \in asked[t] : cache[t] = <<t, n>>

\* A thread that looks up or computes has asked.
CallAsked ==
  \A x \in Verifier : pc[x] # "idle" => nonce[x] \in asked[target[x]]

PowInv == PowTypes /\ CacheOfAsked /\ CallAsked /\ Pow!VerdictOfAsked

LEMMA PowStarts == ASSUME Pow!Init PROVE PowInv
  BY DEF Pow!Init, PowInv, PowTypes, CacheOfAsked, CallAsked, Pow!VerdictOfAsked

\* Whatever is asked afterwards, a verdict stays one of a nonce that was.
LEMMA AskedGrows ==
  ASSUME PowInv, NEW t \in Target, NEW n \in Nonce,
         asked' = [asked EXCEPT ![t] = @ \cup {n}]
  PROVE  /\ asked' \in [Target -> SUBSET Nonce]
         /\ n \in asked'[t]
         /\ \A u \in Target : asked[u] \subseteq asked'[u]
  BY DEF PowInv, PowTypes

LEMMA VerifyNonceKeeps ==
  ASSUME PowInv, NEW x \in Verifier, NEW t \in Target, NEW n \in Nonce, Pow!VerifyNonce(x, t, n)
  PROVE  PowInv'
<1>1. /\ asked' \in [Target -> SUBSET Nonce] /\ n \in asked'[t]
      /\ \A u \in Target : asked[u] \subseteq asked'[u]
  BY AskedGrows DEF Pow!VerifyNonce
<1>2. PowTypes'  BY <1>1 DEF Pow!VerifyNonce, PowInv, PowTypes
<1>3. CacheOfAsked'  BY <1>1 DEF Pow!VerifyNonce, PowInv, CacheOfAsked
<1>4. /\ target'[x] = t /\ nonce'[x] = n /\ verdict'[x] = "none"
      /\ \A y \in Verifier : y # x => /\ pc'[y] = pc[y] /\ verdict'[y] = verdict[y]
                                    /\ target'[y] = target[y] /\ nonce'[y] = nonce[y]
                                    /\ target[y] \in Target
  BY DEF Pow!VerifyNonce, PowInv, PowTypes
<1>5. CallAsked'  BY <1>1, <1>4 DEF PowInv, CallAsked
<1>6. Pow!VerdictOfAsked'
  <2>. SUFFICES ASSUME NEW y \in Verifier, verdict'[y] # "none"
                PROVE  \E k \in asked'[target'[y]] :
                         (verdict'[y] = "valid") = (<<target'[y], k>> \in Solves)
    BY DEF Pow!VerdictOfAsked
  <2>1. y # x  BY <1>4
  <2>2. /\ verdict'[y] = verdict[y] /\ target'[y] = target[y] /\ verdict[y] # "none"
        /\ asked[target[y]] \subseteq asked'[target[y]]
    BY <1>1, <1>4, <2>1
  <2>3. PICK k \in asked[target[y]] : (verdict[y] = "valid") = (<<target[y], k>> \in Solves)
    BY <2>2 DEF PowInv, Pow!VerdictOfAsked
  <2>4. k \in asked'[target'[y]]  BY <2>2, <2>3
  <2>. QED  BY <2>2, <2>3, <2>4
<1>. QED  BY <1>2, <1>3, <1>5, <1>6 DEF PowInv

\* The hash a verdict is given for is that of the block and a nonce in "asked".
LEMMA ReturnKeeps ==
  ASSUME PowInv, NEW x \in Verifier, NEW n \in asked[target[x]], Pow!Return(x, <<target[x], n>>),
         UNCHANGED <<target, asked>>
  PROVE  Pow!VerdictOfAsked'
<1>. SUFFICES ASSUME NEW y \in Verifier, verdict'[y] # "none"
              PROVE  \E k \in asked[target[y]] : (verdict'[y] = "valid") = (<<target[y], k>> \in Solves)
  BY DEF Pow!VerdictOfAsked
<1>1. CASE y # x
  <2>1. verdict'[y] = verdict[y]  BY <1>1 DEF Pow!Return, PowInv, PowTypes
  <2>2. PICK k \in asked[target[y]] : (verdict[y] = "valid") = (<<target[y], k>> \in Solves)
    BY <2>1 DEF PowInv, Pow!VerdictOfAsked
  <2>. QED  BY <2>1, <2>2
<1>2. CASE y = x
  <2>1. verdict'[x] = IF <<target[x], n>> \in Solves THEN "valid" ELSE "invalid"
    BY DEF Pow!Return, Pow!checkLeadingZeroBits, PowInv, PowTypes
  <2>2. (verdict'[x] = "valid") = (<<target[x], n>> \in Solves)  BY <2>1
  <2>. QED  BY <1>2, <2>2
<1>. QED  BY <1>1, <1>2

LEMMA LookupKeeps ==
  ASSUME PowInv, NEW x \in Verifier, Pow!Lookup(x)
  PROVE  PowInv'
<1>1. UNCHANGED <<cache, target, nonce, asked>> /\ pc[x] = "lookup"  BY DEF Pow!Lookup
<1>2. target[x] \in Target  BY DEF PowInv, PowTypes
<1>3. PowTypes'  BY <1>1 DEF Pow!Lookup, Pow!Return, PowInv, PowTypes
<1>4. CacheOfAsked'  BY <1>1 DEF PowInv, CacheOfAsked
<1>5. \A y \in Verifier : pc'[y] = pc[y] \/ y = x
  BY DEF Pow!Lookup, Pow!Return, PowInv, PowTypes
<1>6. CallAsked'  BY <1>1, <1>5 DEF PowInv, CallAsked
<1>7. Pow!VerdictOfAsked'
  <2>1. CASE cache[target[x]] = NoHash
    <3>1. verdict' = verdict  BY <2>1 DEF Pow!Lookup
    <3>. QED  BY <1>1, <3>1 DEF PowInv, Pow!VerdictOfAsked
  <2>2. CASE cache[target[x]] # NoHash
    <3>1. PICK n \in asked[target[x]] : cache[target[x]] = <<target[x], n>>
      BY <1>2, <2>2 DEF PowInv, CacheOfAsked
    <3>2. Pow!Return(x, <<target[x], n>>)  BY <2>2, <3>1 DEF Pow!Lookup
    <3>. QED  BY <1>1, <3>2, ReturnKeeps
  <2>. QED  BY <2>1, <2>2
<1>. QED  BY <1>3, <1>4, <1>6, <1>7 DEF PowInv

\* Two threads may compute for one target: the second to finish replaces the
\* hash of the first, and both were asked for.
LEMMA StoreKeeps ==
  ASSUME PowInv, NEW x \in Verifier, Pow!Store(x)
  PROVE  PowInv'
<1>1. /\ UNCHANGED <<target, nonce, asked>> /\ Pow!Return(x, <<target[x], nonce[x]>>)
      /\ cache' = [cache EXCEPT ![target[x]] = <<target[x], nonce[x]>>]
  BY DEF Pow!Store
<1>2. nonce[x] \in asked[target[x]] /\ target[x] \in Target
  BY DEF Pow!Store, PowInv, CallAsked, PowTypes
<1>3. PowTypes'  BY <1>1 DEF Pow!Return, PowInv, PowTypes
<1>4. CacheOfAsked'
  <2>. SUFFICES ASSUME NEW t \in Target, cache'[t] # NoHash
                PROVE  \E n \in asked[t] : cache'[t] = <<t, n>>
    BY <1>1 DEF CacheOfAsked
  <2>1. CASE t = target[x]  BY <1>1, <1>2, <2>1 DEF PowInv, PowTypes
  <2>2. CASE t # target[x]  BY <1>1, <2>2 DEF PowInv, PowTypes, CacheOfAsked
  <2>. QED  BY <2>1, <2>2
<1>5. CallAsked'  BY <1>1 DEF Pow!Return, PowInv, PowTypes, CallAsked
<1>6. Pow!VerdictOfAsked'  BY <1>1, <1>2, ReturnKeeps
<1>. QED  BY <1>3, <1>4, <1>5, <1>6 DEF PowInv

LEMMA RestartKeeps == ASSUME PowInv, Pow!Restart PROVE PowInv'
  BY DEF Pow!Restart, PowInv, PowTypes, CacheOfAsked, CallAsked, Pow!VerdictOfAsked

LEMMA PowInvHolds == Spec => []PowInv
<1>1. Init => PowInv
  BY PowStarts DEF Init
<1>2. ASSUME PowInv, [Pow!Next]_Pow!vars  PROVE PowInv'
  <2>1. ASSUME UNCHANGED Pow!vars  PROVE PowInv'
    <3>1. UNCHANGED <<cache, pc, target, nonce, verdict, asked>>  BY <2>1 DEF Pow!vars
    <3>2. /\ PowTypes' <=> PowTypes
          /\ CacheOfAsked' <=> CacheOfAsked
          /\ CallAsked' <=> CallAsked
          /\ Pow!VerdictOfAsked' <=> Pow!VerdictOfAsked
      BY <3>1 DEF PowTypes, CacheOfAsked, CallAsked, Pow!VerdictOfAsked
    <3>. QED  BY <1>2, <3>2 DEF PowInv
  <2>. QED  BY <1>2, <2>1, VerifyNonceKeeps, LookupKeeps, StoreKeeps, RestartKeeps DEF Pow!Next
<1>3. PowInv /\ [Next]_vars => PowInv'
  BY <1>2, PartsStep
<1>. QED  BY <1>1, <1>3, PTL DEF Spec

\* Block::verifyNonce: its verdict is one that some nonce tried on this block
\* deserves, in this run of the node or an earlier one.
THEOREM VerdictsAreEarned == Spec => []VerdictOfAsked
<1>1. PowInv => VerdictOfAsked  BY DEF PowInv, VerdictOfAsked
<1>. QED  BY <1>1, PowInvHolds, PTL

-----------------------------------------------------------------------------
\* Each payment is in one block, and in none but the one that is being added.
PaidOnce ==
  /\ \A i, j \in DOMAIN blocks : i # j => blocks[i] \cap blocks[j] = {}
  /\ adding \cap Pool!InChain = {}
  /\ stage = "none" => adding = {}

PoolTypes ==
  /\ queue \subseteq Payment \X {0}
  /\ blocks \in Seq(SUBSET Payment) /\ adding \subseteq Payment
  /\ stage \in {"none", "executed", "finished"}

PoolInv == PoolTypes /\ PaidOnce /\ Pool!NothingMinedPending

LEMMA PoolStarts == ASSUME Pool!PaymentAssumption, Pool!Init PROVE PoolInv
  BY DEF Pool!Init, PoolInv, PoolTypes, PaidOnce, Pool!InChain, Pool!NothingMinedPending

\* A payment that is in a block, or in the one that is added, is not admitted.
LEMMA AddTransactionKeeps ==
  ASSUME PoolInv, NEW p \in Payment, NEW n \in {0}, Pool!AddTransaction(p, n)
  PROVE  PoolInv'
<1>1. UNCHANGED <<blocks, adding, stage, unnoticed>>
  BY DEF Pool!AddTransaction, Pool!chain
<1>2. \/ queue' = queue
      \/ /\ p \notin Pool!InChain /\ stage = "none"
         /\ \E m \in {0} : queue' = queue \cup {<<p, m>>}
  BY DEF Pool!AddTransaction, Pool!Refuse, Pool!Admit, Pool!Verdicts, Pool!Admission
<1>. QED  BY <1>1, <1>2 DEF PoolInv, PoolTypes, PaidOnce, Pool!InChain, Pool!NothingMinedPending

\* What a block pays was in no block before.
LEMMA ExecuteBlockKeeps ==
  ASSUME PoolInv, NEW ps \in SUBSET Payment, Pool!ExecuteBlock(ps)
  PROVE  PoolInv'
<1>1. /\ UNCHANGED <<blocks, unnoticed, queue>> /\ adding' = ps /\ stage' = "executed"
      /\ ps \cap Pool!InChain = {} /\ stage = "none"
  BY DEF Pool!ExecuteBlock, Pool!pool
<1>. QED  BY <1>1 DEF PoolInv, PoolTypes, PaidOnce, Pool!InChain, Pool!NothingMinedPending

\* finishBlock finds every copy of what the block pays.
LEMMA FinishBlockKeeps ==
  ASSUME PoolInv, Pool!FinishBlock
  PROVE  PoolInv'
<1>1. UNCHANGED <<blocks, adding>> /\ stage = "executed" /\ stage' = "finished"
  BY DEF Pool!FinishBlock
<1>2. /\ queue' \subseteq queue
      /\ \A e \in queue' : e[1] \in adding => e[1] \in unnoticed'
      /\ unnoticed \subseteq unnoticed'
  <2>1. CASE ~attached
    BY <2>1 DEF Pool!FinishBlock
  <2>2. CASE attached
    <3>1. PICK read \in [adding -> {0}] :
            queue' = queue \ (queue \cap {<<p, read[p]>> : p \in adding})
      BY <2>2 DEF Pool!FinishBlock
    <3>2. ASSUME NEW e \in queue', e[1] \in adding  PROVE FALSE
      <4>1. e \in Payment \X {0}
        BY <3>1, <3>2 DEF PoolInv, PoolTypes
      <4>2. e = <<e[1], e[2]>> /\ e[2] \in {0} /\ read[e[1]] \in {0}
        BY <3>2, <4>1
      <4>3. e = <<e[1], read[e[1]]>>
        BY <4>2
      <4>. QED  BY <3>1, <3>2, <4>3
    <3>. QED  BY <2>2, <3>1, <3>2 DEF Pool!FinishBlock
  <2>. QED  BY <2>1, <2>2
<1>. QED  BY <1>1, <1>2 DEF PoolInv, PoolTypes, PaidOnce, Pool!InChain, Pool!NothingMinedPending

LEMMA CommitBlockKeeps ==
  ASSUME PoolInv, Pool!CommitBlock
  PROVE  PoolInv'
<1>1. /\ blocks' = Append(blocks, adding) /\ adding' = {} /\ stage' = "none"
      /\ UNCHANGED <<queue, unnoticed>> /\ stage = "finished"
  BY DEF Pool!CommitBlock, Pool!pool
<1>2. /\ blocks \in Seq(SUBSET Payment) /\ Len(blocks) \in Nat
      /\ blocks' \in Seq(SUBSET Payment) /\ Len(blocks') = Len(blocks) + 1
      /\ blocks'[Len(blocks) + 1] = adding
      /\ \A i \in 1 .. Len(blocks) : blocks'[i] = blocks[i]
      /\ DOMAIN blocks = 1 .. Len(blocks) /\ DOMAIN blocks' = 1 .. Len(blocks) + 1
  BY <1>1 DEF PoolInv, PoolTypes
<1>3. Pool!InChain' = Pool!InChain \cup adding
  BY <1>2 DEF Pool!InChain
<1>4. ASSUME NEW i \in DOMAIN blocks', NEW j \in DOMAIN blocks', i # j
      PROVE  blocks'[i] \cap blocks'[j] = {}
  <2>1. CASE i \in DOMAIN blocks /\ j \in DOMAIN blocks
    BY <1>2, <1>4, <2>1 DEF PoolInv, PaidOnce
  <2>2. CASE i \notin DOMAIN blocks
    <3>1. i = Len(blocks) + 1 /\ j \in DOMAIN blocks
      BY <1>2, <1>4, <2>2
    <3>. QED  BY <1>2, <3>1 DEF PoolInv, PaidOnce, Pool!InChain
  <2>3. CASE j \notin DOMAIN blocks
    <3>1. j = Len(blocks) + 1 /\ i \in DOMAIN blocks
      BY <1>2, <1>4, <2>3
    <3>. QED  BY <1>2, <3>1 DEF PoolInv, PaidOnce, Pool!InChain
  <2>. QED  BY <2>1, <2>2, <2>3
<1>5. PaidOnce'
  BY <1>1, <1>4 DEF PaidOnce
<1>6. Pool!NothingMinedPending'
  BY <1>1, <1>3 DEF PoolInv, Pool!NothingMinedPending
<1>. QED  BY <1>1, <1>2, <1>5, <1>6 DEF PoolInv, PoolTypes

\* What the popped block paid is in no block left.
LEMMA PopBlockKeeps ==
  ASSUME PoolInv, Pool!PopBlock
  PROVE  PoolInv'
<1>. DEFINE n == Len(blocks)
<1>1. /\ blocks' = SubSeq(blocks, 1, n - 1) /\ unnoticed' = unnoticed \ blocks[n]
      /\ UNCHANGED <<queue, adding, stage>> /\ stage = "none" /\ blocks # <<>>
  BY DEF Pool!PopBlock, Pool!pool
<1>2. /\ n \in Nat \ {0} /\ n \in DOMAIN blocks
      /\ blocks' \in Seq(SUBSET Payment)
      /\ DOMAIN blocks' = 1 .. n - 1 /\ DOMAIN blocks = 1 .. n
      /\ \A i \in 1 .. n - 1 : blocks'[i] = blocks[i]
  BY <1>1 DEF PoolInv, PoolTypes
<1>. HIDE DEF n
<1>3. Pool!InChain' \subseteq Pool!InChain /\ Pool!InChain' \cap blocks[n] = {}
  <2>1. ASSUME NEW p \in Pool!InChain'  PROVE p \in Pool!InChain /\ p \notin blocks[n]
    <3>1. PICK i \in 1 .. n - 1 : p \in blocks[i]
      BY <1>2 DEF Pool!InChain
    <3>2. i \in DOMAIN blocks /\ i # n
      BY <1>2
    <3>. QED  BY <1>2, <3>1, <3>2 DEF PoolInv, PaidOnce, Pool!InChain
  <2>. QED  BY <2>1
<1>4. PaidOnce'
  BY <1>1, <1>2, <1>3 DEF PoolInv, PaidOnce
<1>5. Pool!NothingMinedPending'
  BY <1>1, <1>3 DEF PoolInv, Pool!NothingMinedPending
<1>. QED  BY <1>1, <1>2, <1>4, <1>5 DEF PoolInv, PoolTypes

LEMMA PoolOthersKeep ==
  ASSUME PoolInv, Pool!SetMemPool \/ Pool!CleanUp \/ Pool!Tick \/ UNCHANGED Pool!vars
  PROVE  PoolInv'
<1>1. UNCHANGED <<blocks, adding, stage, unnoticed>> /\ queue' \subseteq queue
  BY DEF Pool!SetMemPool, Pool!CleanUp, Pool!Tick, Pool!vars, Pool!chain, Pool!pool
<1>. QED  BY <1>1 DEF PoolInv, PoolTypes, PaidOnce, Pool!InChain, Pool!NothingMinedPending

LEMMA PoolInvHolds == Spec => [](part = "copies" \/ PoolInv)
<1>1. Init => PoolInv
  BY PoolStarts, NodeAssumption DEF Init
<1>2. ASSUME PoolInv, [Pool!Next]_Pool!vars  PROVE PoolInv'
  BY <1>2, AddTransactionKeeps, ExecuteBlockKeeps, FinishBlockKeeps, CommitBlockKeeps,
     PopBlockKeeps, PoolOthersKeep
     DEF Pool!Next
<1>3. (part = "copies" \/ PoolInv) /\ [Next]_vars => (part = "copies" \/ PoolInv)'
  BY <1>2, PartsStep
<1>. QED  BY <1>1, <1>3, PTL DEF Spec

\* MemPool::addTransaction and finishBlock: a payment that was pending when its
\* block was added does not stay so, and one that is in the chain does not become
\* so, however calls of the pool and of the chain alternate, with any payments.
THEOREM MinedIsNotPending == Spec => []NothingMinedPending
<1>1. (part = "copies" \/ PoolInv) => NothingMinedPending
  BY DEF PoolInv, NothingMinedPending
<1>. QED  BY <1>1, PoolInvHolds, PTL

-----------------------------------------------------------------------------
\* The entries of a wallet, what an entry costs, and what a set of them costs:
\* the sum that MapThenSumSet computes, over the sets left to add.
Of(w, s)  == {e \in s : e[1].from = w}
Price(e)  == e[1].amount + e[1].fee
First(u)  == CHOOSE e \in u : TRUE
Rest(u)   == u \ {First(u)}
Sums(s, f) ==
  f = [u \in SUBSET s |-> IF u = {} THEN 0 ELSE Price(First(u)) + f[Rest(u)]]
Costs(s)  == (CHOOSE f : Sums(s, f))[s]

LEMMA CostsAreSums ==
  ASSUME NEW s
  PROVE  /\ Pool!MapThenSumSet(LAMBDA e : Pool!Cost(e[1]), s) = Costs(s)
         /\ Copies!MapThenSumSet(LAMBDA e : Copies!Cost(e[1]), s) = Costs(s)
<1>1. Pool!MapThenSumSet(LAMBDA e : Pool!Cost(e[1]), s) = Costs(s)
  BY SMT DEF Costs, Sums, Price, Rest, First, Pool!MapThenSumSet, Pool!MapThenFoldSet, Pool!Cost
<1>2. Copies!MapThenSumSet(LAMBDA e : Copies!Cost(e[1]), s) = Costs(s)
  BY SMT DEF Costs, Sums, Price, Rest, First, Copies!MapThenSumSet, Copies!MapThenFoldSet, Copies!Cost
<1>. QED  BY <1>1, <1>2

LEMMA CostsOfFew ==
  /\ Costs({}) = 0
  /\ \A e : Price(e) \in Int => Costs({e}) = Price(e)
<1>1. Costs({}) = 0
  <2>. DEFINE f == [u \in {{}} |-> 0]
  <2>1. Sums({}, f)
    BY DEF Sums
  <2>2. Sums({}, CHOOSE g : Sums({}, g))
    BY <2>1
  <2>. QED  BY <2>2 DEF Sums, Costs
<1>2. ASSUME NEW e, Price(e) \in Int  PROVE Costs({e}) = Price(e)
  <2>. DEFINE cost == Price(e)
              f == [u \in SUBSET {e} |-> IF u = {} THEN 0 ELSE cost]
  <2>1. First({e}) = e /\ Rest({e}) = {}
    BY DEF Rest, First
  <2>2. ASSUME NEW g, Sums({e}, g)  PROVE g[{e}] = Price(e)
    <3>1. \A u \in SUBSET {e} : g[u] = IF u = {} THEN 0 ELSE Price(First(u)) + g[Rest(u)]
      BY <2>2 DEF Sums
    <3>2. g[{}] = 0
      BY <3>1
    <3>3. g[{e}] = Price(First({e})) + g[Rest({e})]
      BY <3>1
    <3>4. g[{e}] = Price(e) + 0
      BY <2>1, <3>2, <3>3
    <3>. QED  BY <1>2, <3>4
  <2>3. Sums({e}, f)
    <3>. HIDE DEF cost
    <3>1. f[{}] = 0 /\ f[{e}] = cost
      OBVIOUS
    <3>2. ASSUME NEW u \in SUBSET {e}
          PROVE  f[u] = IF u = {} THEN 0 ELSE Price(First(u)) + f[Rest(u)]
      <4>1. CASE u = {}  BY <4>1
      <4>2. CASE u = {e}
        <5>1. Price(First(u)) = cost /\ f[Rest(u)] = 0 /\ f[u] = cost /\ u # {}
          BY <2>1, <3>1, <4>2 DEF cost
        <5>2. cost \in Int
          BY <1>2 DEF cost
        <5>. QED  BY <5>1, <5>2
      <4>. QED  BY <4>1, <4>2
    <3>3. f = [u \in SUBSET {e} |-> IF u = {} THEN 0 ELSE Price(First(u)) + f[Rest(u)]]
      BY <3>2
    <3>. QED  BY <3>3 DEF Sums
  <2>4. Sums({e}, CHOOSE g : Sums({e}, g))
    BY <2>3
  <2>. QED  BY <2>2, <2>4 DEF Costs
<1>. QED  BY <1>1, <1>2

\* A wallet that has had a payment admitted is expected to have moved on, and no
\* wallet does: one entry of it at most is in the queue, and mempoolOutgoing has
\* that one's price.
OutgoingInv ==
  /\ outgoing \in [Wallet -> Int] /\ expected \in [Wallet -> Nat]
  /\ \A e \in queue : Price(e) \in Nat
  /\ \A w \in Wallet :
       \/ Of(w, queue) = {} /\ outgoing[w] = 0
       \/ expected[w] > 0 /\ \E e \in queue : Of(w, queue) = {e} /\ outgoing[w] = Price(e)

LEMMA OutgoingSuffices ==
  ASSUME OutgoingInv, NEW w \in Wallet
  PROVE  outgoing[w] = Costs(Of(w, queue))
<1>1. CASE Of(w, queue) = {} /\ outgoing[w] = 0
  BY <1>1, CostsOfFew
<1>2. ASSUME NEW e \in queue, Of(w, queue) = {e}, outgoing[w] = Price(e)
      PROVE  outgoing[w] = Costs(Of(w, queue))
  BY <1>2, CostsOfFew DEF OutgoingInv
<1>. QED  BY <1>1, <1>2 DEF OutgoingInv

LEMMA AdmitKeeps ==
  ASSUME OutgoingInv, NEW p, p.from \in Wallet, p.amount \in Nat, p.fee \in Nat, NEW m,
         expected[p.from] = 0,
         outgoing' = [outgoing EXCEPT ![p.from] = @ + (p.amount + p.fee)],
         queue' = queue \cup {<<p, m>>},
         expected' = [expected EXCEPT ![p.from] = @ + 1]
  PROVE  OutgoingInv'
<1>. DEFINE e == <<p, m>>
            price == p.amount + p.fee
<1>1. Price(e) = price /\ price \in Nat /\ e[1].from = p.from
  BY DEF Price
<1>2. Of(p.from, queue) = {} /\ outgoing[p.from] = 0
  BY DEF OutgoingInv
<1>3. /\ Of(p.from, queue') = {e}
      /\ \A w \in Wallet : w # p.from => Of(w, queue') = Of(w, queue)
  BY <1>1, <1>2 DEF Of
<1>4. /\ outgoing' \in [Wallet -> Int] /\ expected' \in [Wallet -> Nat]
      /\ outgoing'[p.from] = price /\ expected'[p.from] = 1
      /\ \A w \in Wallet : w # p.from => outgoing'[w] = outgoing[w] /\ expected'[w] = expected[w]
  BY <1>1, <1>2 DEF OutgoingInv
<1>. HIDE DEF e, price
<1>5. \A x \in queue' : Price(x) \in Nat
  BY <1>1 DEF OutgoingInv, e
<1>6. ASSUME NEW w \in Wallet
      PROVE  \/ Of(w, queue') = {} /\ outgoing'[w] = 0
             \/ expected'[w] > 0 /\ \E x \in queue' : Of(w, queue') = {x} /\ outgoing'[w] = Price(x)
  <2>1. CASE w = p.from
    <3>1. e \in queue'
      BY DEF e
    <3>2. Of(w, queue') = {e}
      BY <1>3, <2>1
    <3>3. outgoing'[w] = Price(e)
      BY <1>1, <1>4, <2>1
    <3>4. expected'[w] > 0
      BY <1>4, <2>1
    <3>. QED  BY <3>1, <3>2, <3>3, <3>4
  <2>2. CASE w # p.from
    <3>1. outgoing'[w] = outgoing[w] /\ expected'[w] = expected[w] /\ Of(w, queue') = Of(w, queue)
      BY <1>3, <1>4, <2>2
    <3>2. CASE Of(w, queue) = {} /\ outgoing[w] = 0
      BY <3>1, <3>2
    <3>3. ASSUME NEW x \in queue, Of(w, queue) = {x}, outgoing[w] = Price(x), expected[w] > 0
          PROVE  expected'[w] > 0 /\ Of(w, queue') = {x} /\ outgoing'[w] = Price(x) /\ x \in queue'
      BY <3>1, <3>3
    <3>. QED  BY <3>2, <3>3 DEF OutgoingInv
  <2>. QED  BY <2>1, <2>2
<1>7. \A w : Of(w, queue)' = Of(w, queue')
  BY DEF Of
<1>. QED  BY <1>4, <1>5, <1>6, <1>7 DEF OutgoingInv, Price

LEMMA RemoveKeeps ==
  ASSUME OutgoingInv, NEW gone \in SUBSET queue, queue' = queue \ gone, expected' = expected,
         outgoing' = [w \in Wallet |-> outgoing[w] - Costs(Of(w, gone))]
  PROVE  OutgoingInv'
<1>1. ASSUME NEW w \in Wallet
      PROVE  /\ outgoing'[w] \in Int
             /\ \/ Of(w, queue') = {} /\ outgoing'[w] = 0
                \/ /\ expected[w] > 0
                   /\ \E x \in queue' : Of(w, queue') = {x} /\ outgoing'[w] = Price(x)
  <2>0. outgoing[w] \in Int /\ outgoing'[w] = outgoing[w] - Costs(Of(w, gone))
    BY DEF OutgoingInv
  <2>1. CASE Of(w, gone) = {}
    <3>1. Of(w, queue') = Of(w, queue)
      BY <2>1 DEF Of
    <3>2. outgoing'[w] = outgoing[w]
      BY <2>0, <2>1, CostsOfFew
    <3>3. \A x : Of(w, queue') = {x} => x \in queue'
      BY DEF Of
    <3>. QED  BY <2>0, <3>1, <3>2, <3>3 DEF OutgoingInv
  <2>2. CASE Of(w, gone) # {}
    <3>1. Of(w, gone) \subseteq Of(w, queue)
      BY DEF Of
    <3>2. PICK x \in queue : Of(w, queue) = {x} /\ outgoing[w] = Price(x)
      BY <2>2, <3>1 DEF OutgoingInv
    <3>3. Of(w, gone) = {x}
      BY <2>2, <3>1, <3>2
    <3>4. Of(w, queue') = {}
      BY <3>2, <3>3 DEF Of
    <3>5. Price(x) \in Int /\ Costs({x}) = Price(x)
      BY <3>2, CostsOfFew DEF OutgoingInv
    <3>6. outgoing'[w] = Price(x) - Price(x)
      BY <2>0, <3>2, <3>3, <3>5
    <3>7. outgoing'[w] = 0
      BY <3>5, <3>6
    <3>8. outgoing'[w] \in Int
      BY <3>7
    <3>. QED  BY <3>4, <3>7, <3>8
  <2>. QED  BY <2>1, <2>2
<1>2. outgoing' \in [Wallet -> Int]
  BY <1>1
<1>3. \A w : Of(w, queue)' = Of(w, queue')
  BY DEF Of
<1>. QED  BY <1>1, <1>2, <1>3 DEF OutgoingInv, Price

LEMMA SameQueue ==
  ASSUME OutgoingInv, UNCHANGED <<queue, outgoing, expected>>
  PROVE  OutgoingInv'
  BY DEF OutgoingInv, Of, Price

\* What a step may do to the pool: nothing, admit a payment of a wallet that is
\* expected to be at its start, or drop entries and take what they cost.
PoolChange ==
  \/ UNCHANGED <<queue, outgoing, expected>>
  \/ \E p \in Payment \cup CopiedPayment, m \in {0} \cup CopyNonce :
       /\ p.from \in Wallet /\ p.amount \in Nat /\ p.fee \in Nat /\ expected[p.from] = 0
       /\ outgoing' = [outgoing EXCEPT ![p.from] = @ + (p.amount + p.fee)]
       /\ queue' = queue \cup {<<p, m>>}
       /\ expected' = [expected EXCEPT ![p.from] = @ + 1]
  \/ \E gone \in SUBSET queue :
       /\ queue' = queue \ gone /\ expected' = expected
       /\ outgoing' = [w \in Wallet |-> outgoing[w] - Costs(Of(w, gone))]

LEMMA PoolSteps == ASSUME Pool!PaymentAssumption, [Pool!Next]_Pool!vars PROVE PoolChange
<1>1. ASSUME NEW p \in Payment, NEW n \in {0}, Pool!AddTransaction(p, n)  PROVE PoolChange
  <2>1. CASE Pool!Admit(p) /\ expected[p.from] = 0
    <3>1. p.from \in Wallet /\ p.amount \in Nat /\ p.fee \in Nat
      BY DEF Pool!PaymentAssumption
    <3>. QED  BY <2>1, <3>1 DEF PoolChange, Pool!Admit, Pool!Cost
  <2>2. CASE UNCHANGED <<queue, outgoing, expected>>
    BY <2>2 DEF PoolChange
  <2>3. Pool!Admit(p) => expected[p.from] = 0
    BY <1>1 DEF Pool!AddTransaction, Pool!Refuse, Pool!Admit, Pool!Verdicts, Pool!Admission
  <2>. QED  BY <1>1, <2>1, <2>2, <2>3 DEF Pool!AddTransaction, Pool!Refuse
<1>2. ASSUME Pool!FinishBlock  PROVE PoolChange
  <2>1. ASSUME NEW done \in SUBSET queue, queue' = queue \ done,
               outgoing' = [w \in Wallet |-> outgoing[w] -
                              Pool!MapThenSumSet(LAMBDA e : Pool!Cost(e[1]), Pool!From(w, done))]
        PROVE  PoolChange
    <3>1. \A w : Pool!MapThenSumSet(LAMBDA e : Pool!Cost(e[1]), Pool!From(w, done)) = Costs(Of(w, done))
      BY CostsAreSums DEF Pool!From, Of
    <3>. QED  BY <1>2, <2>1, <3>1 DEF PoolChange, Pool!FinishBlock
  <2>2. CASE UNCHANGED <<queue, outgoing, expected>>
    BY <2>2 DEF PoolChange
  <2>. QED  BY <1>2, <2>1, <2>2 DEF Pool!FinishBlock
<1>3. ASSUME Pool!CleanUp  PROVE PoolChange
  <2>. DEFINE old == {e \in queue : Pool!Expired(e[1])}
  <2>1. \A w : Pool!MapThenSumSet(LAMBDA e : Pool!Cost(e[1]), Pool!From(w, old)) = Costs(Of(w, old))
    BY CostsAreSums DEF Pool!From, Of
  <2>. QED  BY <1>3, <2>1 DEF PoolChange, Pool!CleanUp
<1>4. UNCHANGED <<queue, outgoing, expected>> => PoolChange
  BY DEF PoolChange
<1>. QED
  BY <1>1, <1>2, <1>3, <1>4 DEF Pool!Next, Pool!vars, Pool!pool, Pool!ExecuteBlock, Pool!CommitBlock,
     Pool!PopBlock, Pool!SetMemPool, Pool!Tick

LEMMA CopiesSteps == ASSUME Copies!PaymentAssumption, [Copies!Next]_Copies!vars PROVE PoolChange
<1>1. ASSUME NEW p \in CopiedPayment, NEW n \in CopyNonce, Copies!AddTransaction(p, n)  PROVE PoolChange
  <2>1. CASE Copies!Admit(p) /\ expected[p.from] = 0
    <3>1. p.from \in Wallet /\ p.amount \in Nat /\ p.fee \in Nat
      BY DEF Copies!PaymentAssumption
    <3>. QED  BY <2>1, <3>1 DEF PoolChange, Copies!Admit, Copies!Cost
  <2>2. CASE UNCHANGED <<queue, outgoing, expected>>
    BY <2>2 DEF PoolChange
  <2>3. Copies!Admit(p) => expected[p.from] = 0
    BY <1>1 DEF Copies!AddTransaction, Copies!Refuse, Copies!Admit, Copies!Verdicts, Copies!Admission
  <2>. QED  BY <1>1, <2>1, <2>2, <2>3 DEF Copies!AddTransaction, Copies!Refuse
<1>2. ASSUME Copies!FinishBlock  PROVE PoolChange
  <2>1. ASSUME NEW done \in SUBSET queue, queue' = queue \ done,
               outgoing' = [w \in Wallet |-> outgoing[w] -
                              Copies!MapThenSumSet(LAMBDA e : Copies!Cost(e[1]), Copies!From(w, done))]
        PROVE  PoolChange
    <3>1. \A w : Copies!MapThenSumSet(LAMBDA e : Copies!Cost(e[1]), Copies!From(w, done)) = Costs(Of(w, done))
      BY CostsAreSums DEF Copies!From, Of
    <3>. QED  BY <1>2, <2>1, <3>1 DEF PoolChange, Copies!FinishBlock
  <2>2. CASE UNCHANGED <<queue, outgoing, expected>>
    BY <2>2 DEF PoolChange
  <2>. QED  BY <1>2, <2>1, <2>2 DEF Copies!FinishBlock
<1>3. ASSUME Copies!CleanUp  PROVE PoolChange
  <2>. DEFINE old == {e \in queue : Copies!Expired(e[1])}
  <2>1. \A w : Copies!MapThenSumSet(LAMBDA e : Copies!Cost(e[1]), Copies!From(w, old)) = Costs(Of(w, old))
    BY CostsAreSums DEF Copies!From, Of
  <2>. QED  BY <1>3, <2>1 DEF PoolChange, Copies!CleanUp
<1>4. UNCHANGED <<queue, outgoing, expected>> => PoolChange
  BY DEF PoolChange
<1>. QED
  BY <1>1, <1>2, <1>3, <1>4 DEF Copies!Next, Copies!vars, Copies!pool, Copies!ExecuteBlock, Copies!CommitBlock,
     Copies!PopBlock, Copies!SetMemPool, Copies!Tick

LEMMA PoolChangeKeeps == ASSUME OutgoingInv, PoolChange PROVE OutgoingInv'
  BY SameQueue, AdmitKeeps, RemoveKeeps DEF PoolChange

LEMMA OutgoingStarts == ASSUME Pool!Init PROVE OutgoingInv
  BY DEF Pool!Init, OutgoingInv, Of

LEMMA PoolsStep ==
  ASSUME [Next]_vars
  PROVE  [Pool!Next]_Pool!vars \/ [Copies!Next]_Copies!vars
<1>. USE DEF vars, poolVars, Pool!vars, Pool!pool, Pool!chain, Copies!vars, Copies!pool, Copies!chain
<1>1. CASE UNCHANGED vars  BY <1>1
<1>2. CASE Next  BY <1>2 DEF Next
<1>. QED  BY <1>1, <1>2

\* mempoolOutgoing, which addTransaction adds to and finishBlock and the clean-up
\* take from, each by its own rule, is always the sum over the queue, whatever
\* nonces the copies read.
THEOREM OutgoingAddsUp == Spec => []OutgoingIsQueued
<1>1. Init => OutgoingInv
  BY OutgoingStarts DEF Init
<1>2. OutgoingInv /\ [Next]_vars => OutgoingInv'
  <2>. SUFFICES ASSUME OutgoingInv, [Next]_vars  PROVE OutgoingInv'
    OBVIOUS
  <2>1. PoolChange
    BY PoolsStep, PoolSteps, CopiesSteps, NodeAssumption
  <2>. QED  BY <2>1, PoolChangeKeeps
<1>3. OutgoingInv => OutgoingIsQueued
  <2>. SUFFICES ASSUME OutgoingInv, NEW w \in Wallet
                PROVE  outgoing[w] = Pool!MapThenSumSet(LAMBDA e : Pool!Cost(e[1]), Pool!From(w, queue))
    BY DEF OutgoingIsQueued, Pool!OutgoingIsQueued
  <2>1. Pool!MapThenSumSet(LAMBDA e : Pool!Cost(e[1]), Pool!From(w, queue)) = Costs(Of(w, queue))
    BY CostsAreSums DEF Pool!From, Of
  <2>. QED  BY <2>1, OutgoingSuffices
<1>. QED  BY <1>1, <1>2, <1>3, PTL DEF Spec

=============================================================================
