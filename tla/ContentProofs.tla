---------------------------- MODULE ContentProofs ----------------------------
(***************************************************************************)
(* What the chain's databases say about its blocks, for every set of       *)
(* wallets and transactions, every chain height and every sequence of      *)
(* calls: times and difficulties, work, the payments and the balances.     *)
(***************************************************************************)
EXTENDS ChainContents, ChainProofs, WellFoundedInduction

-----------------------------------------------------------------------------
(***************************************************************************)
(* Induction over the natural numbers, and the sums it is used for.        *)
(***************************************************************************)

\* A set that has zero and with every number the next has them all.
LEMMA Induction ==
  ASSUME NEW S, 0 \in S, \A n \in Nat : n \in S => n + 1 \in S
  PROVE  Nat \subseteq S
<1>. DEFINE T == {n \in Nat : n \notin S}
            Lt == {ss \in Nat \X Nat : ss[1] < ss[2]}
<1>. SUFFICES ASSUME T # {} PROVE FALSE
  OBVIOUS
<1>1. IsWellFoundedOn(Lt, Nat)
  BY NatLessThanWellFounded DEF OpToRel
<1>2. PICK m \in T : \A k \in T : ~(<<k, m>> \in Lt)
  <2>1. T \subseteq Nat OBVIOUS
  <2>. HIDE DEF Lt, T
  <2>. QED BY <1>1, <2>1, WFMin
<1>3. m # 0 /\ m \in Nat /\ m \notin S
  OBVIOUS
<1>4. m - 1 \in Nat /\ m - 1 + 1 = m
  BY <1>3
<1>5. m - 1 \notin S
  BY <1>3, <1>4
<1>6. m - 1 \in T /\ <<m - 1, m>> \in Lt
  BY <1>3, <1>4, <1>5
<1>. QED BY <1>2, <1>6

\* s is the table of the sums of F up to n.
Sums(s, F, n) == s = [i \in 0 .. n |-> IF i = 0 THEN 0 ELSE s[i - 1] + F[i]]

\* There is such a table,
LEMMA SumsExist ==
  ASSUME NEW F, NEW n \in Nat
  PROVE  \E s : Sums(s, F, n)
<1>. DEFINE S == {m \in Nat : \E s : Sums(s, F, m)}
<1>1. 0 \in S
  <2>1. Sums([i \in 0 .. 0 |-> 0], F, 0)
    BY DEF Sums
  <2>. QED  BY <2>1
<1>2. ASSUME NEW m \in Nat, m \in S  PROVE m + 1 \in S
  <2>1. PICK s : Sums(s, F, m)
    BY <1>2
  <2>. DEFINE t == [i \in 0 .. m + 1 |-> IF i = m + 1 THEN s[m] + F[m + 1] ELSE s[i]]
  <2>2. \A i \in 0 .. m : s[i] = IF i = 0 THEN 0 ELSE s[i - 1] + F[i]
    BY <2>1 DEF Sums
  <2>3. \A i \in 0 .. m + 1 : t[i] = IF i = 0 THEN 0 ELSE t[i - 1] + F[i]
    <3>. SUFFICES ASSUME NEW i \in 0 .. m + 1
                  PROVE  t[i] = IF i = 0 THEN 0 ELSE t[i - 1] + F[i]
      OBVIOUS
    <3>1. CASE i = m + 1  BY <3>1
    <3>2. CASE i = 0  BY <2>2, <3>2
    <3>3. CASE i # m + 1 /\ i # 0
      <4>1. i \in 0 .. m /\ i - 1 \in 0 .. m /\ i - 1 # m + 1  BY <3>3
      <4>. QED  BY <2>2, <3>3, <4>1
    <3>. QED  BY <3>1, <3>2, <3>3
  <2>4. Sums(t, F, m + 1)
    BY <2>3 DEF Sums
  <2>. QED  BY <2>4
<1>. HIDE DEF S
<1>3. n \in S  BY <1>1, <1>2, Induction
<1>. QED  BY <1>3 DEF S

\* and two of them, for functions that agree, agree as far as both go.
LEMMA SumsAgree ==
  ASSUME NEW F, NEW G, NEW m \in Nat, NEW n \in Nat, NEW s, NEW t, m <= n,
         \A i \in 1 .. m : F[i] = G[i], Sums(s, F, m), Sums(t, G, n)
  PROVE  s[m] = t[m]
<1>. DEFINE S == {i \in Nat : i <= m => s[i] = t[i]}
<1>1. /\ \A i \in 0 .. m : s[i] = IF i = 0 THEN 0 ELSE s[i - 1] + F[i]
      /\ \A i \in 0 .. n : t[i] = IF i = 0 THEN 0 ELSE t[i - 1] + G[i]
  BY DEF Sums
<1>2. 0 \in S
  BY <1>1
<1>3. ASSUME NEW i \in Nat, i \in S  PROVE i + 1 \in S
  <2>. SUFFICES ASSUME i + 1 <= m  PROVE s[i + 1] = t[i + 1]
    OBVIOUS
  <2>1. s[i] = t[i] /\ F[i + 1] = G[i + 1] /\ i + 1 \in 0 .. m /\ i + 1 \in 0 .. n /\ i + 1 - 1 = i
    BY <1>3
  <2>. QED  BY <1>1, <2>1
<1>. HIDE DEF S
<1>4. m \in S  BY <1>2, <1>3, Induction
<1>. QED  BY <1>4 DEF S

LEMMA TotalIsSum ==
  ASSUME NEW F, NEW n \in Nat
  PROVE  \E s : Sums(s, F, n) /\ Total(F, n) = s[n]
<1>. DEFINE s == CHOOSE s : s = [i \in 0 .. n |-> IF i = 0 THEN 0 ELSE s[i - 1] + F[i]]
<1>1. s = [i \in 0 .. n |-> IF i = 0 THEN 0 ELSE s[i - 1] + F[i]]
  BY SumsExist DEF Sums
<1>2. Total(F, n) = s[n]
  BY DEF Total
<1>. QED  BY <1>1, <1>2 DEF Sums

\* The sum of one term more.
LEMMA TotalStep ==
  ASSUME NEW F, NEW n \in Nat
  PROVE  Total(F, 0) = 0 /\ Total(F, n + 1) = Total(F, n) + F[n + 1]
<1>1. PICK z : Sums(z, F, 0) /\ Total(F, 0) = z[0]  BY TotalIsSum
<1>2. PICK s : Sums(s, F, n) /\ Total(F, n) = s[n]  BY TotalIsSum
<1>3. PICK m \in Nat : m = n + 1  OBVIOUS
<1>4. PICK t : Sums(t, F, m) /\ Total(F, m) = t[m]  BY TotalIsSum
<1>5. z[0] = 0  BY <1>1 DEF Sums
<1>6. s[n] = t[n]
  <2>1. n <= m  BY <1>3
  <2>2. \A i \in 1 .. n : F[i] = F[i]  OBVIOUS
  <2>3. Sums(s, F, n) /\ Sums(t, F, m)  BY <1>2, <1>4
  <2>4. \A G, u, v : \A k, l \in Nat : k <= l /\ (\A i \in 1 .. k : F[i] = G[i]) /\ Sums(u, F, k) /\ Sums(v, G, l) => u[k] = v[k]
    BY SumsAgree
  <2>5. \A G, u, v : Sums(u, F, n) /\ Sums(v, G, m)  /\ (\A i \in 1 .. n : F[i] = G[i])=> u[n] = v[n]
    BY <2>1, <2>4
  <2>6. \A u, v : Sums(u, F, n) /\ Sums(v, F, m) => u[n] = v[n]
    BY <2>2, <2>5
  <2>. QED  BY <2>3, <2>6
<1>7. t[m] = t[n] + F[m]  BY <1>3, <1>4 DEF Sums
<1>. QED  BY <1>1, <1>2, <1>3, <1>4, <1>5, <1>6, <1>7

\* It only depends on the terms it adds.
LEMMA TotalAgrees ==
  ASSUME NEW F, NEW G, NEW n \in Nat, \A i \in 1 .. n : F[i] = G[i]
  PROVE  Total(F, n) = Total(G, n)
<1>1. PICK s : Sums(s, F, n) /\ Total(F, n) = s[n]  BY TotalIsSum
<1>2. PICK t : Sums(t, G, n) /\ Total(G, n) = t[n]  BY TotalIsSum
<1>. QED  BY <1>1, <1>2, SumsAgree

\* A sum of integers is one.
LEMMA TotalType ==
  ASSUME NEW F, NEW n \in Nat, \A i \in 1 .. n : F[i] \in Int
  PROVE  Total(F, n) \in Int
<1>. DEFINE S == {m \in Nat : m <= n => Total(F, m) \in Int}
<1>1. 0 \in S  BY TotalStep
<1>2. ASSUME NEW m \in Nat, m \in S  PROVE m + 1 \in S
  <2>. SUFFICES ASSUME m + 1 <= n  PROVE Total(F, m + 1) \in Int
    OBVIOUS
  <2>1. Total(F, m) \in Int /\ F[m + 1] \in Int  BY <1>2
  <2>. QED  BY <2>1, TotalStep
<1>. HIDE DEF S
<1>3. n \in S  BY <1>1, <1>2, Induction
<1>. QED  BY <1>3 DEF S
-----------------------------------------------------------------------------
(***************************************************************************)
(* The difficulty.                                                         *)
(***************************************************************************)

\* computeDifficulty's loop ends, after no more steps than there is room for.
LEMMA StepsFit ==
  ASSUME NEW elapsed, NEW expected, NEW room \in Nat
  PROVE  Steps(elapsed, expected, room) \in 0 .. room
<1>. DEFINE Stops(n) == Breaks(elapsed, expected, n)
            Ends(n) == (n = room \/ Stops(n)) /\ \A m \in 0 .. (n - 1) : ~Stops(m)
<1>. HIDE DEF Stops
<1>1. \E n \in 0 .. room : Ends(n)
  <2>. SUFFICES ASSUME \A n \in 0 .. room : ~Ends(n)  PROVE FALSE
    OBVIOUS
  <2>. DEFINE S == {n \in Nat : n <= room => \A m \in 0 .. n : m # room /\ ~Stops(m)}
  <2>1. 0 \in S
    <3>1. 0 \in 0 .. room /\ 0 .. (0 - 1) = {} /\ \A m \in 0 .. 0 : m = 0  OBVIOUS
    <3>. QED  BY <3>1
  <2>2. ASSUME NEW n \in Nat, n \in S  PROVE n + 1 \in S
    <3>. SUFFICES ASSUME n + 1 <= room
                  PROVE  \A m \in 0 .. n + 1 : m # room /\ ~Stops(m)
      OBVIOUS
    <3>1. \A m \in 0 .. n : m # room /\ ~Stops(m)  BY <2>2
    <3>2. n + 1 \in 0 .. room /\ n + 1 - 1 = n  OBVIOUS
    <3>3. n + 1 # room /\ ~Stops(n + 1)  BY <3>1, <3>2
    <3>4. \A m \in 0 .. n + 1 : m \in 0 .. n \/ m = n + 1  OBVIOUS
    <3>. QED  BY <3>1, <3>3, <3>4
  <2>. HIDE DEF S
  <2>3. room \in S  BY <2>1, <2>2, Induction
  <2>. QED  BY <2>3 DEF S
<1>2. Steps(elapsed, expected, room) = CHOOSE n \in 0 .. room : Ends(n)
  BY DEF Steps, Stops
<1>. QED  BY <1>1, <1>2

\* It moves the difficulty down when the blocks were slow and up otherwise.
LEMMA ComputedDirection ==
  ASSUME NEW current \in Nat, NEW elapsed, NEW expected
  PROVE  IF elapsed > expected THEN ComputeDifficulty(current, elapsed, expected) <= current
         ELSE ComputeDifficulty(current, elapsed, expected) >= current
<1>0. MinDifficulty \in Nat /\ MaxRetarget \in Nat  BY DifficultyAssumption
<1>1. CASE elapsed > expected /\ ~(current <= MinDifficulty)
  <2>1. current - MinDifficulty \in Nat  BY <1>0, <1>1
  <2>2. Steps(elapsed, expected, current - MinDifficulty) \in 0 .. (current - MinDifficulty)
    BY <2>1, StepsFit
  <2>. QED  BY <1>1, <2>1, <2>2 DEF ComputeDifficulty
<1>2. CASE ~(elapsed > expected) /\ ~(current >= MaxRetarget)
  <2>1. MaxRetarget - current \in Nat  BY <1>0, <1>2
  <2>2. Steps(elapsed, expected, MaxRetarget - current) \in 0 .. (MaxRetarget - current)
    BY <2>1, StepsFit
  <2>. QED  BY <1>2, <2>1, <2>2 DEF ComputeDifficulty
<1>3. CASE elapsed > expected /\ current <= MinDifficulty
  BY <1>3 DEF ComputeDifficulty
<1>4. CASE ~(elapsed > expected) /\ current >= MaxRetarget
  BY <1>4 DEF ComputeDifficulty
<1>. QED  BY <1>1, <1>2, <1>3, <1>4

\* addBlock moves the difficulty only at a multiple of DIFFICULTY_LOOKBACK, and
\* then towards the block time that is wanted.
THEOREM RetargetsTowardsTarget == Spec => RetargetDirection
<1>. DEFINE elapsed == cur.timestamp - blocks[numBlocks - Lookback].timestamp
            expected == Lookback * DesiredTime
<1>1. ASSUME ChainInv, SetBlockCount, ~booting, difficulty' # difficulty
      PROVE  /\ numBlocks % Lookback = 0
             /\ IF elapsed > expected THEN difficulty' <= cur.difficulty
                                      ELSE difficulty' >= cur.difficulty
  <2>1. pc = "count" /\ difficulty' = UpdatedDifficulty(blocks, numBlocks)
    BY <1>1 DEF SetBlockCount
  <2>2. /\ numBlocks % Lookback = 0
        /\ difficulty' = ComputeDifficulty(blocks[numBlocks].difficulty,
              blocks[numBlocks].timestamp - blocks[numBlocks - Lookback].timestamp, expected)
    BY <1>1, <2>1 DEF UpdatedDifficulty
  <2>3. IsBlock(cur) /\ numBlocks = storeCount + 1 /\ cur.id = storeCount + 1 /\ blocks[cur.id] = cur
    BY <2>1, <1>1 DEF ChainInv, CallOK, MemoryOK, FlightOK, Writing
  <2>4. cur.difficulty \in Nat
    BY <2>3, ChainAssumption DEF IsBlock
  <2>5. difficulty' = ComputeDifficulty(cur.difficulty, elapsed, expected)
    BY <2>2, <2>3
  <2>. HIDE DEF elapsed, expected
  <2>. QED  BY <2>2, <2>4, <2>5, ComputedDirection
<1>2. ChainInv /\ [Next]_vars =>
        [SetBlockCount /\ ~booting /\ difficulty' # difficulty =>
           LET e == cur.timestamp - blocks[numBlocks - Lookback].timestamp IN
           /\ numBlocks % Lookback = 0
           /\ IF e > Lookback * DesiredTime THEN difficulty' <= cur.difficulty
                                            ELSE difficulty' >= cur.difficulty]_vars
  BY <1>1
<1>. QED  BY <1>2, InvariantHolds, PTL DEF Spec, RetargetDirection

-----------------------------------------------------------------------------
(***************************************************************************)
(* The times.                                                              *)
(***************************************************************************)

\* The median before height h only looks at MEDIAN_SPAN blocks up to h.
LEMMA MedianKept ==
  ASSUME NEW h \in Int, \A i \in (h - MedianSpan + 1) .. h : blocks'[i] = blocks[i]
  PROVE  MedianTime(h)' = MedianTime(h)
<1>1. [i \in (h - MedianSpan + 1) .. h |-> blocks'[i].timestamp]
        = [i \in (h - MedianSpan + 1) .. h |-> blocks[i].timestamp]
  OBVIOUS
<1>2. MedianTime(h)' = Median([i \in (h - MedianSpan + 1) .. h |-> blocks'[i].timestamp])
  BY DEF MedianTime
<1>. QED  BY <1>1, <1>2 DEF MedianTime

\* The block let through is as late as the median, and stays so when it is
\* written, counted and built on.
LEMMA TimesKept ==
  ASSUME ChainInv, TimesOK, [Next]_vars
  PROVE  TimesOK'
<1>0. /\ storeCount \in Nat /\ DOMAIN blocks = Height
      /\ MedianSpan \in Nat /\ MedianSpan > 0
  BY Heights, ChainAssumption DEF ChainInv, TypeOK
<1>1. CASE AddBlock
  <2>1. /\ pc = "idle" /\ blocks' = blocks /\ storeCount' = storeCount
        /\ numBlocks = storeCount
    BY <1>1 DEF AddBlock, Idle, disk, ChainInv, MemoryOK
  <2>2. \E now \in NetworkTime : Accepted(cur', now)
    BY <1>1 DEF AddBlock, Begin
  <2>3. cur'.id > MedianSpan + 1 => cur'.timestamp >= MedianTime(cur'.id - 1)
    BY <1>0, <2>1, <2>2 DEF Accepted, TimeAccepted
  <2>4. \A h : MedianTime(h)' = MedianTime(h)
    BY <2>1 DEF MedianTime
  <2>. QED  BY <2>1, <2>3, <2>4 DEF TimesOK
<1>2. CASE SetBlock
  <2>1. /\ pc = "store" /\ pc' = "work" /\ storeCount' = storeCount /\ cur' = cur
        /\ cur.id = storeCount + 1 /\ blocks' = [blocks EXCEPT ![cur.id] = cur]
    BY <1>2 DEF SetBlock, ChainInv, FlightOK, Writing
  <2>2. \A h \in 0 .. storeCount : MedianTime(h)' = MedianTime(h)
    <3>. SUFFICES ASSUME NEW h \in 0 .. storeCount  PROVE MedianTime(h)' = MedianTime(h)
      OBVIOUS
    <3>1. \A i \in (h - MedianSpan + 1) .. h : blocks'[i] = blocks[i]
      BY <1>0, <2>1
    <3>. QED  BY <3>1, MedianKept
  <2>3. \A h \in (MedianSpan + 2) .. storeCount :
          blocks'[h] = blocks[h] /\ h - 1 \in 0 .. storeCount
    BY <1>0, <2>1
  <2>4. cur.id - 1 \in 0 .. storeCount
    BY <1>0, <2>1
  <2>. QED  BY <2>1, <2>2, <2>3, <2>4 DEF TimesOK, Writing
<1>3. CASE SetBlockCount
  <2>1. /\ pc = "count" /\ pc' = "idle" /\ blocks' = blocks /\ storeCount' = storeCount + 1
        /\ cur.id = storeCount + 1 /\ blocks[cur.id] = cur
    BY <1>3 DEF SetBlockCount, Return, ChainInv, MemoryOK, FlightOK, Writing
  <2>2. \A h : MedianTime(h)' = MedianTime(h)
    BY <2>1 DEF MedianTime
  <2>3. \A h \in (MedianSpan + 2) .. storeCount + 1 :
          blocks[h].timestamp >= MedianTime(h - 1)
    <3>. SUFFICES ASSUME NEW h \in (MedianSpan + 2) .. storeCount + 1
                  PROVE  blocks[h].timestamp >= MedianTime(h - 1)
      OBVIOUS
    <3>1. CASE h = storeCount + 1
      <4>1. cur.id > MedianSpan + 1  BY <1>0, <2>1, <3>1
      <4>2. cur.timestamp >= MedianTime(cur.id - 1)  BY <2>1, <4>1 DEF TimesOK, Writing
      <4>. QED  BY <2>1, <3>1, <4>2
    <3>2. CASE h # storeCount + 1
      <4>1. h \in (MedianSpan + 2) .. storeCount  BY <1>0, <3>2
      <4>. QED  BY <4>1 DEF TimesOK
    <3>. QED  BY <3>1, <3>2
  <2>. QED  BY <2>1, <2>2, <2>3 DEF TimesOK, Writing
<1>4. CASE PopBlockCount
  <2>1. /\ pc' = "popIndex" /\ blocks' = blocks /\ storeCount' = storeCount - 1
    BY <1>4 DEF PopBlockCount, ChainInv, MemoryOK
  <2>2. \A h : MedianTime(h)' = MedianTime(h)
    BY <2>1 DEF MedianTime
  <2>3. \A h \in (MedianSpan + 2) .. storeCount - 1 : h \in (MedianSpan + 2) .. storeCount
    BY <1>0
  <2>. QED  BY <2>1, <2>2, <2>3 DEF TimesOK, Writing
<1>5. CASE ClearBlocks \/ ClearCounts \/ ClearTxdb
  <2>1. storeCount' <= 1 /\ storeCount' \in Nat
    BY <1>0, <1>5, Heights DEF ClearBlocks, ClearCounts, ClearTxdb, ChainInv, MemoryOK
  <2>2. (MedianSpan + 2) .. storeCount' = {}
    BY <1>0, <2>1
  <2>3. pc' \in Writing => cur'.id = 1
    BY <1>5, GenesisAssumption DEF ClearBlocks, ClearCounts, ClearTxdb, Begin, Writing
  <2>. QED  BY <1>0, <2>2, <2>3 DEF TimesOK
<1>6. CASE /\ ~AddBlock /\ ~SetBlock /\ ~SetBlockCount /\ ~PopBlockCount
           /\ ~ClearBlocks /\ ~ClearCounts /\ ~ClearTxdb
  <2>1. UNCHANGED <<blocks, storeCount>> /\ (pc' \in Writing => pc \in Writing /\ cur' = cur)
    BY <1>6
       DEF Next, ExecuteNext, TakeBack, InsertTransactions, AddWork, PopBlock, UndoNext,
           RemoveWork, FinishPop, ClearLedger, VerifyTransaction, LoadChain,
           StartFails, StartChain, vars, disk, call, Return, Back, Writing, Idle
  <2>2. \A h : MedianTime(h)' = MedianTime(h)
    BY <2>1 DEF MedianTime
  <2>. QED  BY <2>1, <2>2 DEF TimesOK
<1>. QED  BY <1>1, <1>2, <1>3, <1>4, <1>5, <1>6

\* Whatever is added, refused and popped and wherever it is cut short, every
\* block is at least as late as the median of the blocks before it.
THEOREM TimesFollowMedian == Spec => []MedianRespected
<1>1. Init => TimesOK
  BY ChainAssumption DEF Init, TimesOK, Writing
<1>2. ChainInv /\ TimesOK /\ [Next]_vars => TimesOK'
  BY TimesKept
<1>3. ChainInv /\ TimesOK => MedianRespected
  BY DEF ChainInv, MemoryOK, TimesOK, MedianRespected
<1>. QED  BY <1>1, <1>2, <1>3, InvariantHolds, PTL DEF Spec

-----------------------------------------------------------------------------
(***************************************************************************)
(* The work.                                                               *)
(***************************************************************************)

\* The work of no blocks, of one block more, and of blocks that stay.
LEMMA ChainWorkFacts ==
  /\ ChainWork(0) = 0
  /\ \A n \in Nat : ChainWork(n + 1) = ChainWork(n) + WorkOf[blocks[n + 1].difficulty]
  /\ \A n \in Nat : (\A h \in 1 .. n : blocks'[h] = blocks[h]) => ChainWork(n)' = ChainWork(n)
<1>. DEFINE W(n) == [h \in 1 .. n |-> WorkOf[blocks[h].difficulty]]
<1>1. ChainWork(0) = 0
  BY TotalStep DEF ChainWork
<1>2. ASSUME NEW n \in Nat
      PROVE  ChainWork(n + 1) = ChainWork(n) + WorkOf[blocks[n + 1].difficulty]
  <2>1. W(n + 1)[n + 1] = WorkOf[blocks[n + 1].difficulty]
    OBVIOUS
  <2>2. \A i \in 1 .. n : W(n + 1)[i] = W(n)[i]
    OBVIOUS
  <2>. HIDE DEF W
  <2>3. Total(W(n + 1), n) = Total(W(n), n)
    BY <2>2, TotalAgrees
  <2>4. Total(W(n + 1), n + 1) = Total(W(n + 1), n) + W(n + 1)[n + 1]
    BY TotalStep
  <2>. QED  BY <2>1, <2>3, <2>4 DEF ChainWork, W
<1>3. ASSUME NEW n \in Nat, \A h \in 1 .. n : blocks'[h] = blocks[h]
      PROVE  ChainWork(n)' = ChainWork(n)
  <2>1. [h \in 1 .. n |-> WorkOf[blocks'[h].difficulty]] = W(n)
    BY <1>3
  <2>2. ChainWork(n)' = Total([h \in 1 .. n |-> WorkOf[blocks'[h].difficulty]], n)
    BY DEF ChainWork, Total
  <2>. QED  BY <2>1, <2>2 DEF ChainWork
<1>. QED  BY <1>1, <1>2, <1>3

\* Up to a height at which the store has blocks it is a number.
LEMMA ChainWorkType ==
  ASSUME NEW n \in Nat, \A h \in 1 .. n : IsBlock(blocks[h])
  PROVE  ChainWork(n) \in Int
<1>. DEFINE W == [h \in 1 .. n |-> WorkOf[blocks[h].difficulty]]
<1>1. \A h \in 1 .. n : W[h] \in Int
  BY ChainAssumption DEF IsBlock
<1>. HIDE DEF W
<1>. QED  BY <1>1, TotalType DEF ChainWork, W

\* Work and numBlocks move in one step, and a reset takes both back.
LEMMA WorkKept ==
  ASSUME ChainInv, WorkOK, [Next]_vars
  PROVE  WorkOK'
<1>0. storeCount \in Nat /\ numBlocks \in Nat /\ DOMAIN blocks = Height
  BY Heights DEF ChainInv, TypeOK
<1>1. CASE AddWork
  <2>1. /\ pc = "work" /\ pc' = "count" /\ numBlocks = storeCount
        /\ blocks' = blocks /\ numBlocks' = numBlocks + 1 /\ crashes' = crashes
        /\ totalWork' = totalWork + WorkOf[cur.difficulty] /\ storeWork' = totalWork'
        /\ blocks[numBlocks + 1] = cur
    BY <1>1 DEF AddWork, ChainInv, MemoryOK, FlightOK, Writing
  <2>2. ChainWork(numBlocks + 1) = ChainWork(numBlocks) + WorkOf[cur.difficulty]
    BY <1>0, <2>1, ChainWorkFacts
  <2>3. ChainWork(numBlocks)' = ChainWork(numBlocks + 1)
    BY <1>0, <2>1, ChainWorkFacts
  <2>4. crashes = 0 => totalWork = ChainWork(numBlocks)
    BY <2>1 DEF WorkOK, Intact, Clearing
  <2>. QED  BY <2>1, <2>2, <2>3, <2>4 DEF WorkOK, Intact, Clearing
<1>2. CASE RemoveWork
  <2>1. /\ pc = "popWork" /\ pc' = "popCount" /\ numBlocks = storeCount /\ storeCount > 1
        /\ blocks' = blocks /\ numBlocks' = numBlocks - 1 /\ crashes' = crashes
        /\ totalWork' = totalWork - WorkOf[cur.difficulty] /\ storeWork' = totalWork'
        /\ cur = blocks[numBlocks] /\ IsBlock(cur)
    BY <1>2 DEF RemoveWork, ChainInv, MemoryOK, FlightOK, CallOK, Popping
  <2>2. PICK n \in Nat : numBlocks = n + 1
    BY <1>0, <2>1
  <2>3. ChainWork(numBlocks) = ChainWork(n) + WorkOf[cur.difficulty]
    BY <2>1, <2>2, ChainWorkFacts
  <2>4. ChainWork(numBlocks)' = ChainWork(n)
    BY <2>1, <2>2, ChainWorkFacts
  <2>5. crashes = 0 => totalWork = ChainWork(numBlocks)
    BY <2>1 DEF WorkOK, Intact, Clearing
  <2>6. ChainWork(n) \in Int /\ WorkOf[cur.difficulty] \in Int
    <3>1. \A h \in 1 .. n : IsBlock(blocks[h])
      BY <2>1, <2>2, BlocksTyped DEF ChainInv, LinkOK
    <3>2. ChainWork(n) \in Int
      BY <3>1, ChainWorkType
    <3>. QED  BY <2>1, <3>2, ChainAssumption DEF IsBlock
  <2>. QED  BY <2>1, <2>3, <2>4, <2>5, <2>6 DEF WorkOK, Intact, Clearing
<1>3. CASE SetBlock
  <2>1. /\ pc = "store" /\ pc' = "work" /\ numBlocks = storeCount /\ cur.id = storeCount + 1
        /\ blocks' = [blocks EXCEPT ![cur.id] = cur]
        /\ UNCHANGED <<numBlocks, totalWork, storeWork, crashes>>
    BY <1>3 DEF SetBlock, memory, ChainInv, MemoryOK, FlightOK, Writing
  <2>2. \A h \in 1 .. numBlocks : blocks'[h] = blocks[h]
    BY <1>0, <2>1
  <2>3. ChainWork(numBlocks)' = ChainWork(numBlocks)
    BY <1>0, <2>1, <2>2, ChainWorkFacts
  <2>. QED  BY <2>1, <2>3 DEF WorkOK, Intact, Clearing
<1>4. CASE ClearLedger \/ ClearBlocks \/ ClearCounts \/ ClearTxdb
  <2>1. CASE ClearTxdb
    BY <2>1, ChainWorkFacts
       DEF ClearTxdb, Begin, memory, ChainInv, MemoryOK, WorkOK, Intact, Clearing
  <2>. QED  BY <1>4, <2>1 DEF ClearLedger, ClearBlocks, ClearCounts, memory, WorkOK, Intact, Clearing
<1>5. CASE LoadChain \/ StartFails \/ StartChain
  <2>1. crashes' # 0 \/ (crashes' = crashes /\ pc \in {"idle", "dead"})
    BY <1>5 DEF LoadChain, StartFails, StartChain, Stop, ChainInv, TypeOK
  <2>2. pc = "idle" => numBlocks = storeCount /\ Linked
    BY DEF ChainInv, MemoryOK, LinkOK
  <2>3. UNCHANGED <<blocks, storeCount, storeWork>>
    BY <1>5 DEF LoadChain, StartFails, StartChain, disk
  <2>4. storeCount > 0 /\ pc = "idle" => blocks[storeCount] # NoBlock
    BY <1>0, <2>2 DEF Linked
  <2>5. \A n \in Nat : ChainWork(n)' = ChainWork(n)
    BY <2>3, ChainWorkFacts
  <2>6. CASE LoadChain
    BY <1>0, <2>1, <2>2, <2>3, <2>5, <2>6 DEF LoadChain, Return, WorkOK, Intact, Clearing
  <2>7. CASE StartFails
    BY <1>0, <2>1, <2>3, <2>4, <2>7 DEF StartFails, Return, WorkOK, Intact, Clearing
  <2>8. CASE StartChain
    BY <1>0, <2>3, <2>8 DEF StartChain, WorkOK, Intact, Clearing
  <2>. QED  BY <1>5, <2>6, <2>7, <2>8
<1>6. CASE /\ ~AddWork /\ ~RemoveWork /\ ~SetBlock
           /\ ~ClearLedger /\ ~ClearBlocks /\ ~ClearCounts /\ ~ClearTxdb
           /\ ~LoadChain /\ ~StartFails /\ ~StartChain
  <2>1. UNCHANGED <<blocks, numBlocks, totalWork, storeWork, crashes>>
    BY <1>6
       DEF Next, AddBlock, ExecuteNext, TakeBack, InsertTransactions, SetBlockCount, PopBlock,
           UndoNext, PopBlockCount, FinishPop, VerifyTransaction, vars, disk, memory
  <2>2. /\ pc \notin Clearing \cup {"dead"} \/ pc' = pc
        /\ pc' \in Clearing => pc' = "clearLedger" \/ pc' = pc
    BY <1>6
       DEF Next, AddBlock, ExecuteNext, TakeBack, InsertTransactions, SetBlockCount, PopBlock,
           UndoNext, PopBlockCount, FinishPop, VerifyTransaction, vars, call, Idle, Begin,
           Return, Back, Clearing
  <2>3. pc' = "dead" /\ pc # "dead" => storeCount' = 0
    BY <1>6
       DEF Next, AddBlock, ExecuteNext, TakeBack, InsertTransactions, SetBlockCount, PopBlock,
           UndoNext, PopBlockCount, FinishPop, VerifyTransaction, vars, call, Idle, Begin,
           Return, Back, ChainInv, MemoryOK
  <2>4. pc = "dead" /\ pc' = "dead" => storeCount' = storeCount
    BY <1>6
       DEF Next, AddBlock, ExecuteNext, TakeBack, InsertTransactions, SetBlockCount, PopBlock,
           UndoNext, PopBlockCount, FinishPop, VerifyTransaction, vars, disk, Idle
  <2>5. ChainWork(numBlocks)' = ChainWork(numBlocks)
    BY <1>0, <2>1, ChainWorkFacts
  <2>. QED  BY <2>1, <2>2, <2>3, <2>4, <2>5 DEF WorkOK, Intact, Clearing
<1>. QED  BY <1>1, <1>2, <1>3, <1>4, <1>5, <1>6 DEF Next

\* As long as the process does not die during a call, the work in memory and on
\* disk is that of the chain's blocks.
THEOREM WorkIsOfChain == Spec => []WorkMatchesChain
<1>1. Init => WorkOK
  BY DEF Init, WorkOK, Intact, Clearing
<1>2. ChainInv /\ WorkOK /\ [Next]_vars => WorkOK'
  BY WorkKept
<1>3. WorkOK => WorkMatchesChain
  BY DEF WorkOK, WorkMatchesChain, Intact, Clearing
<1>. QED  BY <1>1, <1>2, <1>3, InvariantHolds, PTL DEF Spec

-----------------------------------------------------------------------------
(***************************************************************************)
(* The payments.                                                           *)
(***************************************************************************)

\* A call that is whole now was whole before, but for the end of a reset; and
\* the process only restarted if it stopped between calls.
LEMMA IntactSteps ==
  ASSUME ChainInv, WorkOK, [Next]_vars, Intact'
  PROVE  /\ Intact \/ ClearTxdb
         /\ LoadChain => pc = "idle" /\ pc' = "idle"
         /\ ~StartFails /\ ~StartChain
<1>0. storeCount \in Nat
  BY Heights DEF ChainInv, TypeOK
<1>1. CASE LoadChain \/ StartFails \/ StartChain
  <2>1. crashes' = crashes /\ crashes = 0 /\ pc \in {"idle", "dead"}
    BY <1>1 DEF LoadChain, StartFails, StartChain, Stop, Intact, ChainInv, TypeOK
  <2>2. pc = "dead" => storeCount = 0
    BY <2>1 DEF WorkOK
  <2>3. pc = "idle" /\ storeCount > 0 => blocks[storeCount] # NoBlock
    BY <1>0 DEF ChainInv, LinkOK, Linked
  <2>4. pc = "idle" => storeCount > 0
    BY DEF ChainInv, MemoryOK
  <2>5. ~StartFails /\ ~StartChain
    BY <1>0, <1>1, <2>1, <2>2, <2>3, <2>4 DEF StartFails, StartChain, Return, Intact, Clearing
  <2>. QED  BY <1>0, <1>1, <2>1, <2>2, <2>4, <2>5 DEF LoadChain, Return, Intact, Clearing
<1>2. CASE ~(LoadChain \/ StartFails \/ StartChain)
  <2>1. crashes' = crashes
    BY <1>2
       DEF Next, AddBlock, ExecuteNext, TakeBack, InsertTransactions, SetBlock, AddWork,
           SetBlockCount, PopBlock, UndoNext, RemoveWork, PopBlockCount, FinishPop, ClearLedger,
           ClearBlocks, ClearCounts, ClearTxdb, VerifyTransaction, vars
  <2>2. pc' \notin Clearing \cup {"dead"} => pc \notin Clearing \cup {"dead"} \/ ClearTxdb
    BY <1>2
       DEF Next, AddBlock, ExecuteNext, TakeBack, InsertTransactions, SetBlock, AddWork,
           SetBlockCount, PopBlock, UndoNext, RemoveWork, PopBlockCount, FinishPop, ClearLedger,
           ClearBlocks, ClearCounts, VerifyTransaction, vars, call, Idle, Clearing
  <2>. QED  BY <1>2, <2>1, <2>2 DEF Intact
<1>. QED  BY <1>1, <1>2

\* The keys of a block from a position on, one transaction at a time.
LEMMA KeysFacts ==
  ASSUME NEW b, IsBlock(b), NEW i \in 1 .. Len(b.txs), NEW k
  PROVE  /\ k \in Keys(b) <=> \E j \in DOMAIN b.txs, n \in Nonce : k = TxKey(b.txs[j], n)
         /\ k \in KeysFrom(b, i) <=>
              k \in KeysFrom(b, i + 1) \/ \E n \in Nonce : k = TxKey(b.txs[i], n)
         /\ k \notin KeysFrom(b, Len(b.txs) + 1)
<1>1. DOMAIN b.txs = 1 .. Len(b.txs) /\ Len(b.txs) \in Nat
  BY BlockTxs
<1>2. \A l \in Int : k \in KeysFrom(b, l) <=>
        \E j \in 1 .. Len(b.txs), n \in Nonce : j >= l /\ k = TxKey(b.txs[j], n)
  BY <1>1 DEF KeysFrom
<1>3. k \in Keys(b) <=> \E j \in DOMAIN b.txs, n \in Nonce : k = TxKey(b.txs[j], n)
  BY <1>1, <1>2 DEF Keys
<1>4. \A j \in 1 .. Len(b.txs) : j >= i <=> j >= i + 1 \/ j = i
  BY <1>1
<1>5. k \in KeysFrom(b, i) <=>
        k \in KeysFrom(b, i + 1) \/ \E n \in Nonce : k = TxKey(b.txs[i], n)
  BY <1>1, <1>2, <1>4
<1>6. k \notin KeysFrom(b, Len(b.txs) + 1)
  BY <1>1, <1>2
<1>. QED  BY <1>3, <1>5, <1>6

\* A transaction with the key of a payment is a payment, of the same wallets.
LEMMA KeyTells ==
  ASSUME NEW t, NEW u, NEW m, NEW n, TxKey(t, m) = TxKey(u, n)
  PROVE  /\ m = n /\ Contents(t) = Contents(u) /\ t.isFee = u.isFee
         /\ t.isFee \in BOOLEAN => Parties(t) = Parties(u)
<1>1. m = n /\ Contents(t) = Contents(u)
  BY DEF TxKey
<1>2. /\ t.isFee = u.isFee /\ t.to = u.to
      /\ (IF t.isFee THEN t.to ELSE t.from) = (IF u.isFee THEN u.to ELSE u.from)
  BY <1>1 DEF Contents
<1>3. t.isFee \in BOOLEAN => Parties(t) = Parties(u)
  BY <1>2 DEF Parties
<1>. QED  BY <1>1, <1>2, <1>3

\* A payment key in a block is that of one of its payments.
LEMMA PaymentAt ==
  ASSUME NEW b, IsBlock(b), NEW k \in PaymentKeys, k \in Keys(b)
  PROVE  \E j \in DOMAIN b.txs \ Fees(b.txs), n \in Nonce : k = TxKey(b.txs[j], n)
<1>1. PICK t \in Payments, m \in Nonce : k = TxKey(t, m)
  BY DEF PaymentKeys
<1>2. 1 \in 1 .. Len(b.txs)
  BY BlockTxs
<1>3. PICK j \in DOMAIN b.txs, n \in Nonce : k = TxKey(b.txs[j], n)
  BY <1>2, KeysFacts
<1>4. t.isFee = b.txs[j].isFee
  <2>1. TxKey(t, m) = TxKey(b.txs[j], n)
    BY <1>1, <1>3
  <2>. QED  BY ONLY <2>1, KeyTells
<1>5. ~t.isFee
  BY DEF Payments
<1>. QED  BY <1>3, <1>4, <1>5 DEF Fees

\* What Placed says of a key, for the set of keys in flight and the call's state.
LEMMA PlacedSteps ==
  ASSUME ChainInv, WorkOK, CopiesAgree, Intact, Intact', [Next]_vars,
         NEW k \in PaymentKeys, Placed(k)
  PROVE  Placed(k)'
<1>. USE DEF Intact, Clearing
<1>0. /\ storeCount \in Nat /\ DOMAIN blocks = Height /\ txdb \in [TxKeys -> 0 .. MaxHeight]
      /\ k \in TxKeys
  BY Heights DEF ChainInv, TypeOK, PaymentKeys, Payments, TxKeys
<1>b. \A h \in 1 .. storeCount : IsBlock(blocks[h]) /\ blocks[h].id = h
  BY BlocksTyped DEF ChainInv, LinkOK, Linked
<1>1. CASE AddBlock
  <2>1. /\ pc = "idle" /\ pc' = "execute" /\ numBlocks = storeCount /\ storeCount > 0
        /\ UNCHANGED <<txdb, blocks, storeCount>>
    BY <1>1 DEF AddBlock, Idle, Begin, disk, ChainInv, MemoryOK
  <2>2. PICK nonces \in [DOMAIN cur'.txs -> Nonce] :
          /\ cur'.id = numBlocks + 1
          /\ ScanAccepts(cur'.txs, cur'.id, nonces, Stored, MiningFee[cur'.id])
    BY <1>1 DEF AddBlock, Begin, Accepted
  <2>3. IsBlock(cur')
    BY <1>1, <2>1, AddBlockKeeps DEF ChainInv, CallOK, Writing
  <2>4. k \in Keys(cur') => txdb[k] = 0
    <3>. SUFFICES ASSUME k \in Keys(cur')  PROVE txdb[k] = 0
      OBVIOUS
    <3>1. PICK j \in DOMAIN cur'.txs \ Fees(cur'.txs), n \in Nonce : k = TxKey(cur'.txs[j], n)
      BY <2>3, PaymentAt
    <3>2. ~Repeated(cur'.txs, cur'.id, nonces, Stored, j)
      BY <2>2 DEF ScanAccepts
    <3>3. nonces[j] = n
      BY <3>1 DEF CopiesAgree
    <3>4. cur'.id # 1
      BY <1>0, <2>1, <2>2
    <3>. QED  BY <1>0, <3>1, <3>2, <3>3, <3>4 DEF Repeated, Stored
  <2>5. \A h \in 1 .. storeCount : h # 0
    BY <1>0
  <2>. QED  BY <1>0, <2>1, <2>4, <2>5 DEF Placed, Settled, KeysInFlight
<1>2. CASE InsertTransactions
  <2>1. /\ pc = "insert" /\ pc' = "store" /\ IsBlock(cur)
        /\ UNCHANGED <<blocks, storeCount, cur>>
    BY <1>2 DEF InsertTransactions, ChainInv, CallOK, Writing
  <2>2. PICK nonces \in [DOMAIN cur.txs -> Nonce] :
          txdb' = [l \in TxKeys |-> IF l \in {TxKey(cur.txs[i], nonces[i]) : i \in DOMAIN cur.txs}
                                    THEN cur.id ELSE txdb[l]]
    BY <1>2 DEF InsertTransactions
  <2>3. k \in Keys(cur) <=> k \in {TxKey(cur.txs[i], nonces[i]) : i \in DOMAIN cur.txs}
    <3>1. k \in Keys(cur) <=> \E j \in DOMAIN cur.txs, n \in Nonce : k = TxKey(cur.txs[j], n)
      <4>1. 1 \in 1 .. Len(cur.txs)  BY <2>1, BlockTxs
      <4>. QED  BY <2>1, <4>1, KeysFacts
    <3>2. \A j \in DOMAIN cur.txs, n \in Nonce : nonces[j] = n
      BY DEF CopiesAgree
    <3>. QED  BY <3>1, <3>2
  <2>4. txdb'[k] = IF k \in Keys(cur) THEN cur.id ELSE txdb[k]
    BY <1>0, <2>2, <2>3
  <2>. QED  BY <2>1, <2>4 DEF Placed, Settled, KeysInFlight, Writing
<1>3. CASE SetBlock
  <2>1. /\ pc = "store" /\ pc' = "work" /\ cur.id = storeCount + 1
        /\ blocks' = [blocks EXCEPT ![cur.id] = cur]
        /\ UNCHANGED <<txdb, storeCount, cur>>
    BY <1>3 DEF SetBlock, ChainInv, FlightOK, Writing
  <2>2. \A h \in 1 .. storeCount : blocks'[h] = blocks[h]
    BY <1>0, <2>1
  <2>. QED  BY <2>1, <2>2 DEF Placed, Settled, KeysInFlight, Writing
<1>4. CASE SetBlockCount
  <2>1. /\ pc = "count" /\ pc' = "idle" /\ storeCount' = storeCount + 1
        /\ cur.id = storeCount + 1 /\ blocks[storeCount + 1] = cur
        /\ UNCHANGED <<txdb, blocks>>
    BY <1>4 DEF SetBlockCount, Return, ChainInv, MemoryOK, FlightOK, Writing
  <2>2. \A h \in 1 .. storeCount + 1 : h \in 1 .. storeCount \/ h = storeCount + 1
    BY <1>0
  <2>3. storeCount + 1 \in 1 .. storeCount + 1 /\ \A h \in 1 .. storeCount : h \in 1 .. storeCount + 1
    BY <1>0
  <2>. QED  BY <2>1, <2>2, <2>3 DEF Placed, Settled, KeysInFlight, Writing, Popping
<1>5. CASE PopBlock
  <2>1. /\ pc = "idle" /\ pc' = "undo" /\ numBlocks = storeCount /\ storeCount > 1
        /\ cur' = blocks[storeCount] /\ pos' = Len(cur'.txs)
        /\ UNCHANGED <<txdb, blocks, storeCount>>
    BY <1>5 DEF PopBlock, Idle, disk, ChainInv, MemoryOK
  <2>2. PICK n \in Nat : storeCount = n + 1 /\ n \in 1 .. storeCount /\ n = storeCount - 1
    BY <1>0, <2>1
  <2>3. \A h \in 1 .. storeCount : h \in 1 .. n \/ h = storeCount
    BY <2>2
  <2>4. \A h \in 1 .. n : h \in 1 .. storeCount /\ h # storeCount
    BY <2>2
  <2>5. storeCount \in 1 .. storeCount
    BY <2>1, <2>2
  <2>6. cur'.id = storeCount /\ k \notin KeysFrom(cur', Len(cur'.txs) + 1)
    <3>1. IsBlock(cur') /\ cur'.id = storeCount
      BY <1>b, <2>1, <2>5
    <3>2. 1 \in 1 .. Len(cur'.txs)
      BY <3>1, BlockTxs
    <3>. QED  BY <3>1, <3>2, KeysFacts
  <2>7. k \in KeysInFlight' <=> k \in Keys(cur')
    BY <2>1, <2>6 DEF KeysInFlight
  <2>. QED  BY <2>1, <2>2, <2>3, <2>4, <2>5, <2>6, <2>7
            DEF Placed, Settled, KeysInFlight, Writing, Popping
<1>6. CASE UndoNext
  <2>1. /\ pc = "undo" /\ pc' \in {"undo", "popWork"} /\ pos' = pos - 1
        /\ pos \in 1 .. Len(cur.txs) /\ IsBlock(cur) /\ (pos = 1 => pc' = "popWork")
        /\ (pos # 1 => pc' = "undo")
        /\ UNCHANGED <<blocks, storeCount, cur>>
    BY <1>6 DEF UndoNext, ChainInv, CallOK, Popping
  <2>2. PICK n \in Nonce :
          txdb' = IF cur.txs[pos].isFee THEN txdb ELSE [txdb EXCEPT ![TxKey(cur.txs[pos], n)] = 0]
    BY <1>6 DEF UndoNext
  <2>3. \A m \in Nonce : m = n
    BY DEF CopiesAgree
  <2>4. k = TxKey(cur.txs[pos], n) => ~cur.txs[pos].isFee /\ k \in Keys(cur)
    <3>. SUFFICES ASSUME k = TxKey(cur.txs[pos], n)
                  PROVE  ~cur.txs[pos].isFee /\ k \in Keys(cur)
      OBVIOUS
    <3>1. PICK t \in Payments, m \in Nonce : k = TxKey(t, m)
      BY DEF PaymentKeys
    <3>2. TxKey(t, m) = TxKey(cur.txs[pos], n)
      BY <3>1
    <3>3. t.isFee = cur.txs[pos].isFee
      BY ONLY <3>2, KeyTells
    <3>4. pos \in DOMAIN cur.txs
      BY <2>1, BlockTxs
    <3>5. k \in Keys(cur)
      BY <2>1, <3>4, KeysFacts
    <3>. QED  BY <3>3, <3>5 DEF Payments
  <2>5. txdb'[k] = IF k = TxKey(cur.txs[pos], n) THEN 0 ELSE txdb[k]
    BY <1>0, <2>2, <2>4
  <2>6. k \in KeysFrom(cur, pos) <=> k \in KeysFrom(cur, pos + 1) \/ k = TxKey(cur.txs[pos], n)
    BY <2>1, <2>3, KeysFacts
  <2>7. k \in KeysInFlight' <=> k \in Keys(cur) /\ k \notin KeysFrom(cur, pos)
    <3>1. pos' + 1 = pos /\ KeysFrom(cur, 1) = Keys(cur)
      BY <2>1, BlockTxs DEF Keys
    <3>. QED  BY <2>1, <3>1 DEF KeysInFlight
  <2>8. k \in KeysInFlight <=> k \in Keys(cur) /\ k \notin KeysFrom(cur, pos + 1)
    BY <2>1 DEF KeysInFlight
  <2>9. Settled' = Settled
    BY <2>1 DEF Settled
  <2>. QED  BY <2>1, <2>4, <2>5, <2>6, <2>7, <2>8, <2>9 DEF Placed, Writing, Popping
<1>7. CASE PopBlockCount
  <2>1. /\ pc = "popCount" /\ pc' = "popIndex" /\ storeCount' = storeCount - 1
        /\ UNCHANGED <<txdb, blocks, cur>>
    BY <1>7 DEF PopBlockCount, ChainInv, MemoryOK
  <2>. QED  BY <2>1 DEF Placed, Settled, KeysInFlight, Writing, Popping
<1>8. CASE LoadChain
  <2>1. pc = "idle" /\ pc' = "idle" /\ UNCHANGED <<txdb, blocks, storeCount>>
    BY <1>8, IntactSteps DEF LoadChain, disk
  <2>. QED  BY <2>1 DEF Placed, Settled, KeysInFlight, Writing, Popping
<1>9. CASE /\ ~AddBlock /\ ~InsertTransactions /\ ~SetBlock /\ ~SetBlockCount /\ ~PopBlock
           /\ ~UndoNext /\ ~PopBlockCount /\ ~LoadChain
  <2>1. /\ UNCHANGED <<txdb, blocks, storeCount>>
        /\ (pc' \in Writing \cup Popping => cur' = cur /\ pc \in Writing \cup Popping)
        /\ Settled' = Settled
        /\ (pc' \in {"store", "work", "count"} <=> pc \in {"store", "work", "count"})
        /\ pc # "undo" \/ UNCHANGED <<pc, pos>>
        /\ pc' # "undo" \/ UNCHANGED <<pc, pos>>
    BY <1>9, IntactSteps
       DEF Next, ExecuteNext, TakeBack, AddWork, RemoveWork, FinishPop, ClearLedger, ClearBlocks,
           ClearCounts, ClearTxdb, VerifyTransaction, vars, disk, call, Idle, Return, Back,
           Settled, Writing, Popping
  <2>2. KeysInFlight' = KeysInFlight
    BY <2>1 DEF KeysInFlight, Writing, Popping
  <2>3. KeysInFlight # {} => cur' = cur
    BY <2>1 DEF KeysInFlight, Writing, Popping
  <2>. QED  BY <2>1, <2>2, <2>3 DEF Placed
<1>. QED  BY <1>1, <1>2, <1>3, <1>4, <1>5, <1>6, <1>7, <1>8, <1>9

\* The transaction store tells where each payment is, between calls and in them.
LEMMA PaymentsKept ==
  ASSUME ChainInv, WorkOK, PaymentsOK, [Next]_vars
  PROVE  PaymentsOK'
<1>. SUFFICES ASSUME CopiesAgree, Intact', NEW k \in PaymentKeys
              PROVE  Placed(k)'
  BY DEF PaymentsOK, CopiesAgree, PaymentKeys, Payments
<1>1. CASE Intact
  BY <1>1, PlacedSteps DEF PaymentsOK
<1>2. CASE ClearTxdb
  <2>1. pc' = "execute" /\ txdb' = [l \in TxKeys |-> 0] /\ storeCount' = 0
    BY <1>2 DEF ClearTxdb, Begin, ChainInv, MemoryOK
  <2>2. k \in TxKeys
    BY DEF PaymentKeys, Payments, TxKeys
  <2>. QED  BY <2>1, <2>2 DEF Placed, Settled, KeysInFlight
<1>. QED  BY <1>1, <1>2, IntactSteps

\* Between calls a payment that is in a block is where the transaction store says.
LEMMA PlacedIdle ==
  ASSUME ChainInv, PaymentsOK, CopiesAgree, crashes = 0, pc = "idle",
         NEW t \in Payments, NEW n \in Nonce
  PROVE  /\ \A e \in PaymentEntries(t) : txdb[TxKey(t, n)] = e[1]
         /\ PaymentEntries(t) = {} => txdb[TxKey(t, n)] = 0
<1>. DEFINE k == TxKey(t, n)
<1>1. k \in PaymentKeys /\ t \in Tx /\ ~t.isFee
  BY DEF PaymentKeys, Payments
<1>2. numBlocks = storeCount /\ storeCount \in Nat
  BY Heights DEF ChainInv, TypeOK, MemoryOK
<1>3. \A h \in 1 .. numBlocks : IsBlock(blocks[h])
  BY <1>2, BlocksTyped DEF ChainInv, LinkOK
<1>4. /\ \A h \in 1 .. numBlocks : k \in Keys(blocks[h]) => txdb[k] = h
      /\ (\A h \in 1 .. numBlocks : k \notin Keys(blocks[h])) => txdb[k] = 0
  BY <1>1, <1>2
     DEF PaymentsOK, Intact, Clearing, Placed, Settled, KeysInFlight, Writing, Popping
<1>5. \A h \in 1 .. numBlocks : k \in Keys(blocks[h]) <=>
        \E j \in DOMAIN blocks[h].txs : <<h, j>> \in PaymentEntries(t)
  <2>. SUFFICES ASSUME NEW h \in 1 .. numBlocks
                PROVE  k \in Keys(blocks[h]) <=>
                         \E j \in DOMAIN blocks[h].txs : <<h, j>> \in PaymentEntries(t)
    OBVIOUS
  <2>1. k \in Keys(blocks[h]) <=>
          \E j \in DOMAIN blocks[h].txs, m \in Nonce : k = TxKey(blocks[h].txs[j], m)
    <3>1. 1 \in 1 .. Len(blocks[h].txs)  BY <1>3, BlockTxs
    <3>. QED  BY <1>3, <3>1, KeysFacts
  <2>2. \A j \in DOMAIN blocks[h].txs : <<h, j>> \in PaymentEntries(t) <=>
          ~blocks[h].txs[j].isFee /\ Contents(blocks[h].txs[j]) = Contents(t)
    BY DEF PaymentEntries, Entries, TxAt
  <2>3. \A j \in DOMAIN blocks[h].txs, m \in Nonce : k = TxKey(blocks[h].txs[j], m) =>
          ~blocks[h].txs[j].isFee /\ Contents(blocks[h].txs[j]) = Contents(t)
    <3>. SUFFICES ASSUME NEW u, NEW m, TxKey(t, n) = TxKey(u, m)
                  PROVE  ~u.isFee /\ Contents(u) = Contents(t)
      OBVIOUS
    <3>1. Contents(t) = Contents(u) /\ t.isFee = u.isFee
      BY ONLY TxKey(t, n) = TxKey(u, m), KeyTells
    <3>. QED  BY <1>1, <3>1
  <2>4. \A j \in DOMAIN blocks[h].txs :
          Contents(blocks[h].txs[j]) = Contents(t) => k = TxKey(blocks[h].txs[j], n)
    BY DEF TxKey
  <2>. QED  BY <2>1, <2>2, <2>3, <2>4
<1>6. \A e \in PaymentEntries(t) :
        e[1] \in 1 .. numBlocks /\ e[2] \in DOMAIN blocks[e[1]].txs /\ e = <<e[1], e[2]>>
  BY DEF PaymentEntries, Entries
<1>. HIDE DEF k
<1>7. \A e \in PaymentEntries(t) : txdb[k] = e[1]
  BY <1>4, <1>5, <1>6
<1>8. PaymentEntries(t) = {} => txdb[k] = 0
  BY <1>4, <1>5
<1>. QED  BY <1>7, <1>8 DEF k

\* A nonce reads as something.
LEMMA SomeNonce == Nonce # {}
<1>1. PICK nonces \in [DOMAIN Genesis.txs -> Nonce] : TRUE
  BY GenesisAssumption
<1>2. 1 \in DOMAIN Genesis.txs
  BY GenesisIsBlock, BlockTxs
<1>. QED  BY <1>1, <1>2

\* If every copy of a transaction reads the same nonce, no payment is in two
\* blocks, whatever was added, refused and popped.
THEOREM NoPaymentTwice ==
  ASSUME CopiesAgree
  PROVE  Spec => []NoReplay
<1>1. Init => WorkOK /\ PaymentsOK
  BY DEF Init, WorkOK, PaymentsOK, Intact, Clearing
<1>2. ChainInv /\ WorkOK /\ PaymentsOK /\ [Next]_vars => WorkOK' /\ PaymentsOK'
  BY WorkKept, PaymentsKept
<1>3. ASSUME ChainInv, PaymentsOK  PROVE NoReplay
  <2>. SUFFICES ASSUME pc = "idle", crashes = 0, NEW t \in Payments,
                       NEW d \in PaymentEntries(t), NEW e \in PaymentEntries(t)
                PROVE  d[1] = e[1]
    BY DEF NoReplay
  <2>1. PICK n \in Nonce : TRUE
    BY SomeNonce
  <2>. QED  BY <1>3, <2>1, PlacedIdle
<1>. QED  BY <1>1, <1>2, <1>3, InvariantHolds, PTL DEF Spec

\* The transaction store names the block of every payment of the chain, and none
\* for any other.
THEOREM PaymentsAreFound ==
  ASSUME CopiesAgree
  PROVE  Spec => []PaymentStatus
<1>1. Init => WorkOK /\ PaymentsOK
  BY DEF Init, WorkOK, PaymentsOK, Intact, Clearing
<1>2. ChainInv /\ WorkOK /\ PaymentsOK /\ [Next]_vars => WorkOK' /\ PaymentsOK'
  BY WorkKept, PaymentsKept
<1>3. ASSUME ChainInv, PaymentsOK  PROVE PaymentStatus
  <2>. SUFFICES ASSUME pc = "idle", crashes = 0, NEW t \in Payments, NEW n \in Nonce
                PROVE  LET at == {e[1] : e \in PaymentEntries(t)} IN
                       IF at = {} THEN txdb[TxKey(t, n)] = 0 ELSE txdb[TxKey(t, n)] \in at
    BY DEF PaymentStatus
  <2>1. /\ \A e \in PaymentEntries(t) : txdb[TxKey(t, n)] = e[1]
        /\ PaymentEntries(t) = {} => txdb[TxKey(t, n)] = 0
    BY <1>3, PlacedIdle
  <2>. QED  BY <2>1
<1>. QED  BY <1>1, <1>2, <1>3, InvariantHolds, PTL DEF Spec

\* Copies with the same key concern the same wallets.
LEMMA PartiesByKey ==
  ASSUME NEW t \in Tx, NEW u, NEW m, NEW n, TxKey(t, m) = TxKey(u, n)
  PROVE  Parties(t) = Parties(u)
BY TxAssumption, KeyTells

\* What the index gains and loses with a block.
LEMMA EntryOf ==
  ASSUME NEW b, NEW nonces, NEW w, NEW k
  PROVE  <<w, k>> \in IndexEntries(b, nonces) <=>
           \E i \in DOMAIN b.txs : w \in Parties(b.txs[i]) /\ k = TxKey(b.txs[i], nonces[i])
BY DEF IndexEntries

\* Entries are added for the wallets of the block's transactions only.
LEMMA IndexPartiesKept ==
  ASSUME ChainInv, [Next]_vars,
         \A t \in Tx, n \in Nonce, w \in Wallet : <<w, TxKey(t, n)>> \in index => w \in Parties(t)
  PROVE  \A t \in Tx, n \in Nonce, w \in Wallet : <<w, TxKey(t, n)>> \in index' => w \in Parties(t)
<1>1. CASE SetBlock
  <2>1. PICK nonces \in [DOMAIN cur.txs -> Nonce] : index' = index \cup IndexEntries(cur, nonces)
    BY <1>1 DEF SetBlock
  <2>. SUFFICES ASSUME NEW t \in Tx, NEW n \in Nonce, NEW w \in Wallet,
                       <<w, TxKey(t, n)>> \in IndexEntries(cur, nonces)
                PROVE  w \in Parties(t)
    BY <2>1
  <2>2. PICK i \in DOMAIN cur.txs :
          w \in Parties(cur.txs[i]) /\ TxKey(t, n) = TxKey(cur.txs[i], nonces[i])
    BY EntryOf
  <2>3. TxKey(t, n) = TxKey(cur.txs[i], nonces[i])
    BY <2>2
  <2>4. Parties(t) = Parties(cur.txs[i])
    BY ONLY t \in Tx, <2>3, PartiesByKey
  <2>. QED  BY <2>2, <2>4
<1>2. CASE ~SetBlock
  <2>1. index' \subseteq index
    BY <1>2
       DEF Next, AddBlock, ExecuteNext, TakeBack, InsertTransactions, AddWork, SetBlockCount,
           PopBlock, UndoNext, RemoveWork, PopBlockCount, FinishPop, ClearLedger, ClearBlocks,
           ClearCounts, ClearTxdb, VerifyTransaction, LoadChain, StartFails, StartChain, vars, disk
  <2>. QED  BY <2>1
<1>. QED  BY <1>1, <1>2

\* The payments of the blocks that stay keep their entries.
LEMMA ListedSteps ==
  ASSUME ChainInv, WorkOK, PaymentsOK, CopiesAgree, Intact, Intact', [Next]_vars,
         \A h \in 1 .. Settled : Listed(blocks[h]),
         pc \in {"work", "count"} => Listed(cur)
  PROVE  /\ \A h \in 1 .. Settled' : Listed(blocks[h])'
         /\ pc' \in {"work", "count"} => Listed(cur)'
<1>. USE DEF Intact, Clearing
<1>0. storeCount \in Nat /\ DOMAIN blocks = Height
  BY Heights DEF ChainInv, TypeOK
<1>1. CASE SetBlock
  <2>1. /\ pc = "store" /\ pc' = "work" /\ cur.id = storeCount + 1
        /\ blocks' = [blocks EXCEPT ![cur.id] = cur]
        /\ UNCHANGED <<storeCount, cur>> /\ IsBlock(cur)
    BY <1>1 DEF SetBlock, ChainInv, CallOK, FlightOK, Writing
  <2>2. PICK nonces \in [DOMAIN cur.txs -> Nonce] : index' = index \cup IndexEntries(cur, nonces)
    BY <1>1 DEF SetBlock
  <2>3. \A h \in 1 .. storeCount : blocks'[h] = blocks[h]
    BY <1>0, <2>1
  <2>4. Listed(cur)'
    <3>. SUFFICES ASSUME NEW i \in DOMAIN cur.txs, NEW w \in Parties(cur.txs[i]), NEW n \in Nonce
                  PROVE  <<w, TxKey(cur.txs[i], n)>> \in index'
      BY <2>1 DEF Listed
    <3>1. nonces[i] = n
      BY DEF CopiesAgree
    <3>. QED  BY <2>2, <3>1, EntryOf
  <2>5. \A h \in 1 .. storeCount : Listed(blocks[h])'
    BY <2>1, <2>2, <2>3 DEF Listed, Settled
  <2>. QED  BY <2>1, <2>4, <2>5 DEF Settled
<1>2. CASE SetBlockCount
  <2>1. /\ pc = "count" /\ pc' = "idle" /\ storeCount' = storeCount + 1
        /\ blocks[storeCount + 1] = cur /\ UNCHANGED <<blocks, index>>
    BY <1>2 DEF SetBlockCount, Return, ChainInv, MemoryOK, FlightOK, Writing
  <2>2. \A h \in 1 .. storeCount + 1 : h \in 1 .. storeCount \/ h = storeCount + 1
    BY <1>0
  <2>. QED  BY <2>1, <2>2 DEF Listed, Settled
<1>3. CASE FinishPop
  <2>1. /\ pc = "popIndex" /\ pc' = "idle" /\ UNCHANGED <<blocks, storeCount>> /\ IsBlock(cur)
    BY <1>3 DEF FinishPop, Return, ChainInv, CallOK, Popping
  <2>2. PICK nonces \in [DOMAIN cur.txs -> Nonce] : index' = index \ IndexEntries(cur, nonces)
    BY <1>3 DEF FinishPop
  <2>3. ASSUME NEW h \in 1 .. storeCount  PROVE Listed(blocks[h])'
    <3>0. IsBlock(blocks[h])
      BY <2>1, BlocksTyped DEF ChainInv, LinkOK
    <3>. SUFFICES ASSUME NEW i \in DOMAIN blocks[h].txs, ~blocks[h].txs[i].isFee,
                         NEW w \in Parties(blocks[h].txs[i]), NEW n \in Nonce
                  PROVE  <<w, TxKey(blocks[h].txs[i], n)>> \notin IndexEntries(cur, nonces)
      BY <2>1, <2>2, <2>3 DEF Listed, Settled
    <3>. DEFINE k == TxKey(blocks[h].txs[i], n)
    <3>1. k \in PaymentKeys
      BY <3>0, BlockTxs DEF PaymentKeys, Payments
    <3>2. k \in Keys(blocks[h])
      BY <3>0, BlockTxs, KeysFacts
    <3>3. k \notin Keys(cur)
      BY <2>1, <3>1, <3>2 DEF PaymentsOK, Placed, Settled, Popping
    <3>. HIDE DEF k
    <3>4. \A j \in DOMAIN cur.txs : k # TxKey(cur.txs[j], nonces[j])
      <4>1. 1 \in 1 .. Len(cur.txs)  BY <2>1, BlockTxs
      <4>. QED  BY <2>1, <3>3, <4>1, KeysFacts
    <3>5. <<w, k>> \notin IndexEntries(cur, nonces)
      BY <3>4, EntryOf
    <3>. QED  BY <3>5 DEF k
  <2>. QED  BY <2>1, <2>3 DEF Settled
<1>4. CASE PopBlock \/ PopBlockCount
  <2>1. /\ pc' \in {"undo", "popIndex"} /\ UNCHANGED <<blocks, index>>
        /\ Settled' \in Int /\ Settled' <= Settled /\ Settled \in Int
    BY <1>0, <1>4 DEF PopBlock, PopBlockCount, Idle, disk, ChainInv, MemoryOK, Settled
  <2>2. \A h \in 1 .. Settled' : h \in 1 .. Settled
    BY <2>1
  <2>. QED  BY <2>1, <2>2 DEF Listed
<1>5. CASE ~SetBlock /\ ~SetBlockCount /\ ~FinishPop /\ ~PopBlock /\ ~PopBlockCount
  <2>1. /\ UNCHANGED <<blocks, index, Settled>>
        /\ pc' \in {"work", "count"} => cur' = cur /\ pc \in {"work", "count"}
    BY <1>5, IntactSteps
       DEF Next, AddBlock, ExecuteNext, TakeBack, InsertTransactions, AddWork, UndoNext,
           RemoveWork, ClearLedger, ClearBlocks, ClearCounts, ClearTxdb, VerifyTransaction,
           LoadChain, vars, disk, call, Idle, Begin, Return, Back, Settled
  <2>. QED  BY <2>1 DEF Listed
<1>. QED  BY <1>1, <1>2, <1>3, <1>4, <1>5

\* The wallet index follows the chain.
LEMMA IndexKept ==
  ASSUME ChainInv, WorkOK, PaymentsOK, IndexOK, [Next]_vars
  PROVE  IndexOK'
<1>1. ASSUME CopiesAgree, Intact'
      PROVE  /\ \A h \in 1 .. Settled' : Listed(blocks[h])'
             /\ pc' \in {"work", "count"} => Listed(cur)'
  <2>1. CASE Intact
    BY <1>1, <2>1, ListedSteps DEF IndexOK
  <2>2. CASE ClearTxdb
    BY <2>2 DEF ClearTxdb, Begin, ChainInv, MemoryOK, Settled
  <2>. QED  BY <1>1, <2>1, <2>2, IntactSteps
<1>2. \A t \in Tx, n \in Nonce, w \in Wallet : <<w, TxKey(t, n)>> \in index' => w \in Parties(t)
  BY IndexPartiesKept DEF IndexOK
<1>. QED  BY <1>1, <1>2 DEF IndexOK, CopiesAgree

\* The wallet index, the transaction store and the block store together list
\* for every wallet exactly the payments of the chain it is part of.
THEOREM HistoryIsOfChain ==
  ASSUME CopiesAgree
  PROVE  Spec => []HistoryMatchesChain
<1>1. Init => WorkOK /\ PaymentsOK /\ IndexOK
  BY DEF Init, WorkOK, PaymentsOK, IndexOK, Intact, Clearing
<1>2. ChainInv /\ WorkOK /\ PaymentsOK /\ IndexOK /\ [Next]_vars
        => WorkOK' /\ PaymentsOK' /\ IndexOK'
  BY WorkKept, PaymentsKept, IndexKept
<1>3. ASSUME ChainInv, PaymentsOK, IndexOK  PROVE HistoryMatchesChain
  <2>. SUFFICES ASSUME pc = "idle", crashes = 0, NEW w \in Wallet, NEW t \in Payments,
                       NEW n \in Nonce
                PROVE  TxKey(t, n) \in WalletHistory(w) <=>
                         w \in Parties(t) /\ PaymentEntries(t) # {}
    BY DEF HistoryMatchesChain
  <2>. DEFINE k == TxKey(t, n)
  <2>0. t \in Tx /\ k \in TxKeys
    BY DEF Payments, TxKeys
  <2>1. /\ \A e \in PaymentEntries(t) : txdb[k] = e[1]
        /\ PaymentEntries(t) = {} => txdb[k] = 0
    BY <1>3, PlacedIdle
  <2>2. ASSUME k \in WalletHistory(w)  PROVE w \in Parties(t) /\ PaymentEntries(t) # {}
    <3>1. <<w, k>> \in index /\ txdb[k] > 0
      BY <2>2 DEF WalletHistory
    <3>2. w \in Parties(t)
      BY <1>3, <2>0, <3>1 DEF IndexOK
    <3>. QED  BY <2>1, <3>1, <3>2
  <2>3. ASSUME w \in Parties(t), NEW e \in PaymentEntries(t)  PROVE k \in WalletHistory(w)
    <3>1. /\ e[1] \in 1 .. numBlocks /\ e[2] \in DOMAIN blocks[e[1]].txs
          /\ ~TxAt(e).isFee /\ Contents(TxAt(e)) = Contents(t)
      BY DEF PaymentEntries, Entries
    <3>2. TxKey(TxAt(e), n) = k
      BY <3>1 DEF TxKey
    <3>3. Parties(TxAt(e)) = Parties(t)
      BY ONLY <2>0, TxKey(TxAt(e), n) = TxKey(t, n), <3>2, PartiesByKey DEF k
    <3>4. Listed(blocks[e[1]])
      <4>1. numBlocks = Settled
        BY <1>3 DEF ChainInv, MemoryOK, Settled
      <4>. QED  BY <1>3, <3>1, <4>1 DEF IndexOK, Intact, Clearing
    <3>5. <<w, k>> \in index
      BY <2>3, <3>1, <3>2, <3>3, <3>4 DEF Listed, TxAt
    <3>6. txdb[k] = e[1] /\ txdb[k] > 0
      BY <2>1, <3>1
    <3>. QED  BY <2>0, <3>1, <3>2, <3>5, <3>6 DEF WalletHistory, TxAt
  <2>. QED  BY <2>2, <2>3
<1>. QED  BY <1>1, <1>2, <1>3, InvariantHolds, PTL DEF Spec

-----------------------------------------------------------------------------
(***************************************************************************)
(* The balances.                                                           *)
(***************************************************************************)

\* What a block moves, one transaction at a time.
LEMMA FlowFacts ==
  ASSUME NEW b, IsBlock(b), NEW w \in Wallet
  PROVE  /\ FlowUpTo(b, 0, w) = 0
         /\ \A k \in 1 .. Len(b.txs) :
              FlowUpTo(b, k, w)
                = FlowUpTo(b, k - 1, w) + Moves(b.txs[k], MinerOf(b.txs), b.id, w)
         /\ \A k \in 0 .. Len(b.txs) : FlowUpTo(b, k, w) \in Int
         /\ \A k \in 1 .. Len(b.txs) : Moves(b.txs[k], MinerOf(b.txs), b.id, w) \in Int
<1>. DEFINE F == [i \in DOMAIN b.txs |-> Flow(b, i, w)]
            M(k) == Moves(b.txs[k], MinerOf(b.txs), b.id, w)
<1>1. Len(b.txs) \in Nat /\ DOMAIN b.txs = 1 .. Len(b.txs)
  BY BlockTxs
<1>2. \A k \in 1 .. Len(b.txs) : F[k] = M(k) /\ M(k) \in Int
  <2>. SUFFICES ASSUME NEW k \in 1 .. Len(b.txs)  PROVE F[k] = M(k) /\ M(k) \in Int
    OBVIOUS
  <2>1. F[k] = Flow(b, k, w)
    BY <1>1
  <2>2. Flow(b, k, w) = M(k)
    BY DEF Flow, Moves
  <2>3. b.txs[k].amount \in Int /\ b.txs[k].fee \in Int
    BY BlockTxs, TxAssumption DEF Amount
  <2>4. Moves(b.txs[k], MinerOf(b.txs), b.id, w) \in Int
    <3>. DEFINE t == b.txs[k]
                In == IF t.to = w THEN t.amount ELSE 0
                Mined == IF MinerOf(b.txs) = w THEN t.fee ELSE 0
                Out == IF t.from = w THEN t.amount + t.fee ELSE 0
    <3>1. In \in Int /\ Mined \in Int /\ Out \in Int  BY <2>3
    <3>2. Moves(b.txs[k], MinerOf(b.txs), b.id, w) \in {In, In + Mined - Out}  BY DEF Moves
    <3>. HIDE DEF In, Mined, Out
    <3>3. In + Mined - Out \in Int  BY <3>1
    <3>. QED  BY <3>1, <3>2, <3>3
  <2>. HIDE DEF F
  <2>. QED  BY <2>1, <2>2, <2>4
<1>. HIDE DEF F, M
<1>3. \A k : FlowUpTo(b, k, w) = Total(F, k)
  BY DEF FlowUpTo, F
<1>4. \A k \in 1 .. Len(b.txs) : Total(F, k) = Total(F, k - 1) + F[k]
  <2>. SUFFICES ASSUME NEW k \in 1 .. Len(b.txs)  PROVE Total(F, k) = Total(F, k - 1) + F[k]
    OBVIOUS
  <2>1. k - 1 \in Nat /\ (k - 1) + 1 = k
    OBVIOUS
  <2>2. Total(F, (k - 1) + 1) = Total(F, k - 1) + F[(k - 1) + 1]
    BY <2>1, TotalStep
  <2>. QED  BY <2>1, <2>2
<1>5. \A k \in 0 .. Len(b.txs) : Total(F, k) \in Int
  <2>. SUFFICES ASSUME NEW k \in 0 .. Len(b.txs)  PROVE Total(F, k) \in Int
    OBVIOUS
  <2>1. \A i \in 1 .. k : F[i] \in Int
    BY <1>1, <1>2
  <2>2. k \in Nat
    OBVIOUS
  <2>. QED  BY <2>1, <2>2, TotalType
<1>6. Total(F, 0) = 0
  BY TotalStep
<1>. QED  BY <1>2, <1>3, <1>4, <1>5, <1>6 DEF M

\* What no blocks move, and one block more.
LEMMA ChainFlowFacts ==
  ASSUME NEW w
  PROVE  /\ ChainFlow(0, w) = 0
         /\ \A n \in Nat : ChainFlow(n + 1, w)
                             = ChainFlow(n, w) + FlowUpTo(blocks[n + 1], Len(blocks[n + 1].txs), w)
<1>. DEFINE W(n) == [h \in 1 .. n |-> FlowUpTo(blocks[h], Len(blocks[h].txs), w)]
<1>1. ChainFlow(0, w) = 0
  BY TotalStep DEF ChainFlow
<1>2. ASSUME NEW n \in Nat
      PROVE  ChainFlow(n + 1, w)
               = ChainFlow(n, w) + FlowUpTo(blocks[n + 1], Len(blocks[n + 1].txs), w)
  <2>1. W(n + 1)[n + 1] = FlowUpTo(blocks[n + 1], Len(blocks[n + 1].txs), w)
    OBVIOUS
  <2>2. \A i \in 1 .. n : W(n + 1)[i] = W(n)[i]
    OBVIOUS
  <2>. HIDE DEF W
  <2>3. Total(W(n + 1), n) = Total(W(n), n)
    BY <2>2, TotalAgrees
  <2>4. Total(W(n + 1), n + 1) = Total(W(n + 1), n) + W(n + 1)[n + 1]
    BY TotalStep
  <2>. QED  BY <2>1, <2>3, <2>4 DEF ChainFlow, W
<1>. QED  BY <1>1, <1>2

\* What blocks move is a number.
LEMMA ChainFlowType ==
  ASSUME NEW n \in Nat, \A h \in 1 .. n : IsBlock(blocks[h]), NEW w \in Wallet
  PROVE  ChainFlow(n, w) \in Int
<1>. DEFINE W == [h \in 1 .. n |-> FlowUpTo(blocks[h], Len(blocks[h].txs), w)]
<1>1. \A h \in 1 .. n : W[h] \in Int
  <2>. SUFFICES ASSUME NEW h \in 1 .. n  PROVE FlowUpTo(blocks[h], Len(blocks[h].txs), w) \in Int
    OBVIOUS
  <2>1. IsBlock(blocks[h]) /\ Len(blocks[h].txs) \in 0 .. Len(blocks[h].txs)
    BY BlockTxs
  <2>. QED  BY <2>1, FlowFacts
<1>. HIDE DEF W
<1>. QED  BY <1>1, TotalType DEF ChainFlow, W

\* As long as the blocks stay, what they move does.
LEMMA FlowsStay ==
  ASSUME NEW n \in Nat, \A h \in 1 .. n : blocks'[h] = blocks[h], NEW w
  PROVE  /\ \A m \in 0 .. n : ChainFlow(m, w)' = ChainFlow(m, w)
         /\ \A h \in 1 .. n : InRange(h, w) => InRange(h, w)'
<1>1. ASSUME NEW m \in 0 .. n  PROVE ChainFlow(m, w)' = ChainFlow(m, w)
  <2>1. [h \in 1 .. m |-> FlowUpTo(blocks'[h], Len(blocks'[h].txs), w)]
          = [h \in 1 .. m |-> FlowUpTo(blocks[h], Len(blocks[h].txs), w)]
    OBVIOUS
  <2>2. ChainFlow(m, w)' = Total([h \in 1 .. m |-> FlowUpTo(blocks'[h], Len(blocks'[h].txs), w)], m)
    BY DEF ChainFlow, FlowUpTo, Flow, Total
  <2>. QED  BY <2>1, <2>2 DEF ChainFlow
<1>2. ASSUME NEW h \in 1 .. n, InRange(h, w)  PROVE InRange(h, w)'
  <2>1. h - 1 \in 0 .. n
    OBVIOUS
  <2>. QED  BY <1>1, <1>2, <2>1 DEF InRange
<1>. QED  BY <1>1, <1>2

\* What Balanced says at the points of a call.
LEMMA BalancedParts ==
  ASSUME NEW w, Balanced(w)
  PROVE  /\ \A h \in 1 .. storeCount : InRange(h, w)
         /\ pc \in Writing \cup {"idle", "rollback", "popIndex"} => ChainFlow(storeCount, w) \in Amount
         /\ pc \in {"idle", "popIndex"} => Balance(ledger, w) = ChainFlow(storeCount, w)
         /\ pc \in Writing =>
              /\ \A k \in 0 .. Executed : ChainFlow(storeCount, w) + FlowUpTo(cur, k, w) \in Amount
              /\ Balance(ledger, w) = ChainFlow(storeCount, w) + FlowUpTo(cur, Executed, w)
         /\ pc \in {"execute", "rollback"} =>
              Balance(deltas, w) = Minus(Balance(ledger, w), ChainFlow(storeCount, w))
         /\ pc \in {"undo", "popWork", "popCount"} => ChainFlow(storeCount - 1, w) \in Amount
         /\ pc = "undo" =>
              Balance(ledger, w) = ChainFlow(storeCount - 1, w) + FlowUpTo(cur, pos, w)
         /\ pc \in {"popWork", "popCount"} => Balance(ledger, w) = ChainFlow(storeCount - 1, w)
<1>1. /\ pc \in Writing \cup {"idle", "rollback", "popIndex"} => Settled = storeCount
      /\ pc \in {"undo", "popWork", "popCount"} => Settled = storeCount - 1
      /\ pc = "undo" => InFlight(w) = FlowUpTo(cur, pos, w)
      /\ pc \in Writing => InFlight(w) = FlowUpTo(cur, Executed, w)
      /\ pc \in {"idle", "popIndex", "popWork", "popCount"} => InFlight(w) = 0
  BY DEF Settled, InFlight, Executed, Writing
<1>2. \A a \in Amount : a + 0 = a
  BY DEF Amount
<1>3. \A s : s = Settled /\ pc \in {"idle", "popIndex", "popWork", "popCount"} =>
               Balance(ledger, w) = ChainFlow(s, w)
  BY <1>1, <1>2 DEF Balanced
<1>. QED  BY <1>1, <1>3 DEF Balanced, Writing

\* Adding blocks: while a call writes, every balance stays what the blocks and
\* the transactions executed so far add up to.
LEMMA WritingBalances ==
  ASSUME ChainInv, Steady', NEW w \in Wallet, Balanced(w),
         AddBlock \/ ExecuteNext \/ TakeBack \/ InsertTransactions \/ SetBlock \/ AddWork
           \/ SetBlockCount
  PROVE  Balanced(w)'
<1>0. /\ storeCount \in Nat /\ DOMAIN blocks = Height /\ ledger \in Ledgers /\ deltas \in Ledgers
      /\ invalid \subseteq Nat \X Wallet
  BY Heights DEF ChainInv, TypeOK
<1>1. PICK n \in Nat : n = storeCount
  BY <1>0
<1>b. /\ 0 \in Amount /\ \A a \in Amount : Minus(a, a) = 0 /\ a + 0 = a
      /\ Amount \subseteq Int
  BY AmountAssumption DEF Amount, Minus
<1>s. \A h \in 1 .. n : InRange(h, w)
  BY <1>1, BalancedParts
<1>2. CASE AddBlock
  <2>1. /\ pc = "idle" /\ pc' = "execute" /\ pos' = 1 /\ deltas' = EmptyLedger
        /\ UNCHANGED <<ledger, blocks, storeCount>>
    BY <1>2 DEF AddBlock, Idle, Begin, disk
  <2>2. IsBlock(cur')
    BY <1>2, <2>1, AddBlockKeeps DEF ChainInv, CallOK, Writing
  <2>3. /\ ChainFlow(n, w)' = ChainFlow(n, w)
        /\ \A h \in 1 .. n : InRange(h, w)'
    BY <1>s, <2>1, FlowsStay
  <2>4. FlowUpTo(cur', 0, w) = 0
    BY <2>2, FlowFacts
  <2>5. Balance(EmptyLedger, w) = 0
    BY DEF Balance, HasWallet, EmptyLedger
  <2>6. ChainFlow(n, w) \in Amount /\ Balance(ledger, w) = ChainFlow(n, w)
    BY <1>1, <2>1, BalancedParts
  <2>7. Settled' = n /\ Executed' = 0 /\ InFlight(w)' = FlowUpTo(cur', 0, w)
    BY <1>1, <2>1 DEF Settled, Executed, InFlight, Writing
  <2>8. \A k \in 0 .. Executed' : k = 0
    BY <2>7
  <2>9. storeCount' = n
    BY <1>1, <2>1
  <2>. QED  BY <1>b, <2>1, <2>3, <2>4, <2>5, <2>6, <2>7, <2>8, <2>9 DEF Balanced
<1>e. \A x, t, k, m, fee, id : IsRun(x) /\ t \in Tx /\ m \in Wallet =>
        LET y == ExecuteBlockTx(x, t, k, m, fee, id) IN
        /\ \A c \in Amount : Covers(x, w, c) => Covers(y, w, c)
        /\ y.status = "SUCCESS" =>
             Balance(y.ledger, w) = Balance(x.ledger, w) + Moves(t, m, id, w)
  BY ExecuteBlockTxMoves
<1>3. CASE ExecuteNext
  <2>. DEFINE t == cur.txs[pos]
              m == MinerOf(cur.txs)
              r == Run(ledger, deltas, invalid)
  <2>1. /\ pc = "execute" /\ IsBlock(cur) /\ pos \in 1 .. Len(cur.txs)
        /\ UNCHANGED <<blocks, storeCount>>
    BY <1>3 DEF ExecuteNext, ChainInv, CallOK, Writing
  <2>2. PICK k \in Nonce :
          LET x == ExecuteBlockTx(r, t, k, m, MiningFee[cur.id], cur.id) IN
          /\ ledger' = x.ledger
          /\ \/ /\ x.status = "SUCCESS" /\ deltas' = x.deltas /\ cur' = cur
                /\ pc' = IF pos = Len(cur.txs) THEN "insert" ELSE "execute"
                /\ pos' = IF pos = Len(cur.txs) THEN pos ELSE pos + 1
             \/ torn' = TRUE
             \/ x.status # "SUCCESS" /\ deltas' = x.deltas /\ pc' = "rollback"
    BY <1>3 DEF ExecuteNext
  <2>. DEFINE x == ExecuteBlockTx(r, t, k, m, MiningFee[cur.id], cur.id)
  <2>3. t \in Tx /\ m \in Wallet /\ Len(cur.txs) \in Nat
    BY <2>1, BlockTxs
  <2>4. IsRun(r) /\ r.ledger = ledger /\ r.deltas = deltas
    BY <1>0 DEF IsRun, Run
  <2>5. /\ \A c \in Amount : Covers(r, w, c) => Covers(x, w, c)
        /\ x.status = "SUCCESS" =>
             Balance(x.ledger, w) = Balance(ledger, w) + Moves(t, m, cur.id, w)
    <3>. DEFINE fee == MiningFee[cur.id]
    <3>1. x = ExecuteBlockTx(r, t, k, m, fee, cur.id)
      OBVIOUS
    <3>. HIDE DEF t, m, r, x, fee
    <3>2. LET y == ExecuteBlockTx(r, t, k, m, fee, cur.id) IN
          /\ \A c \in Amount : Covers(r, w, c) => Covers(y, w, c)
          /\ y.status = "SUCCESS" =>
               Balance(y.ledger, w) = Balance(r.ledger, w) + Moves(t, m, cur.id, w)
      BY <2>3, <2>4, <1>e
    <3>. QED  BY <2>4, <3>1, <3>2
  <2>6. /\ ChainFlow(n, w) \in Amount
        /\ Covers(r, w, ChainFlow(n, w))
        /\ Balance(ledger, w) = ChainFlow(n, w) + FlowUpTo(cur, pos - 1, w)
        /\ \A l \in 0 .. pos - 1 : ChainFlow(n, w) + FlowUpTo(cur, l, w) \in Amount
    BY <1>1, <2>1, <2>4, BalancedParts DEF Covers, Executed, Writing
  <2>7. Covers(x, w, ChainFlow(n, w))
    BY <2>5, <2>6
  <2>8. /\ FlowUpTo(cur, pos, w) = FlowUpTo(cur, pos - 1, w) + Moves(t, m, cur.id, w)
        /\ FlowUpTo(cur, pos, w) \in Int /\ FlowUpTo(cur, pos - 1, w) \in Int
        /\ Moves(t, m, cur.id, w) \in Int
    <3>1. pos \in 0 .. Len(cur.txs) /\ pos - 1 \in 0 .. Len(cur.txs)
      BY <2>1, <2>3
    <3>. QED  BY <2>1, <3>1, FlowFacts
  <2>9. /\ ChainFlow(n, w)' = ChainFlow(n, w)
        /\ \A h \in 1 .. n : InRange(h, w)'
    BY <1>s, <1>1, <2>1, FlowsStay
  <2>10. storeCount' = n
    BY <1>1, <2>1
  <2>. HIDE DEF x, t, m, r
  <2>11. CASE /\ x.status = "SUCCESS" /\ deltas' = x.deltas /\ cur' = cur
              /\ pc' = IF pos = Len(cur.txs) THEN "insert" ELSE "execute"
              /\ pos' = IF pos = Len(cur.txs) THEN pos ELSE pos + 1
    <3>1. pc' \in {"insert", "execute"} /\ Executed' = pos /\ Settled' = n
          /\ InFlight(w)' = FlowUpTo(cur, pos, w)
      <4>1. pc' \in {"insert", "execute"}  BY <2>11
      <4>2. Executed' = pos  BY <2>1, <2>11 DEF Executed
      <4>3. Settled' = n  BY <2>10, <4>1 DEF Settled
      <4>. QED  BY <2>11, <4>1, <4>2, <4>3 DEF InFlight, Writing
    <3>2. Balance(ledger', w) = ChainFlow(n, w) + FlowUpTo(cur, pos, w)
      <4>1. Balance(ledger', w) = ChainFlow(n, w) + FlowUpTo(cur, pos - 1, w) + Moves(t, m, cur.id, w)
        BY <2>2, <2>5, <2>6, <2>11 DEF x
      <4>2. ChainFlow(n, w) \in Int  BY <1>b, <2>6
      <4>. QED  BY <2>8, <4>1, <4>2
    <3>3. ledger' \in Ledgers
      BY <1>3, ExecuteNextKeeps, <2>2 DEF ChainInv, TypeOK
    <3>4. Balance(ledger', w) \in Amount
      BY <3>3, BalanceFacts
    <3>5. \A l \in 0 .. pos : ChainFlow(n, w) + FlowUpTo(cur, l, w) \in Amount
      <4>1. \A l \in 0 .. pos : l \in 0 .. pos - 1 \/ l = pos  BY <2>1
      <4>. QED  BY <2>6, <3>2, <3>4, <4>1
    <3>6. Balance(deltas', w) = Minus(Balance(ledger', w), ChainFlow(n, w))
      BY <2>2, <2>7, <2>11 DEF Covers, x
    <3>. QED  BY <2>6, <2>9, <2>10, <2>11, <3>1, <3>2, <3>5, <3>6 DEF Balanced
  <2>12. CASE x.status # "SUCCESS" /\ deltas' = x.deltas /\ pc' = "rollback"
    <3>1. Balance(deltas', w) = Minus(Balance(ledger', w), ChainFlow(n, w))
      BY <2>2, <2>7, <2>12 DEF Covers, x
    <3>2. Settled' = n
      BY <2>10, <2>12 DEF Settled
    <3>. QED  BY <2>6, <2>9, <2>10, <2>12, <3>1, <3>2 DEF Balanced, Writing
  <2>. QED  BY <2>2, <2>11, <2>12 DEF x, Steady
<1>4. CASE TakeBack
  <2>1. /\ pc = "rollback" /\ ~RollbackThrows(ledger, deltas) /\ ledger' = Rollback(ledger, deltas)
        /\ pc' = "idle" /\ UNCHANGED <<blocks, storeCount>>
    BY <1>4 DEF TakeBack, Return, Back, Steady
  <2>2. ChainFlow(n, w) \in Amount /\ Balance(deltas, w) = Minus(Balance(ledger, w), ChainFlow(n, w))
    BY <1>1, <2>1, BalancedParts
  <2>3. Balance(ledger', w) = ChainFlow(n, w)
    BY <1>0, <2>1, <2>2, RollbackMoves
  <2>4. /\ ChainFlow(n, w)' = ChainFlow(n, w)
        /\ \A h \in 1 .. n : InRange(h, w)'
    BY <1>s, <2>1, FlowsStay
  <2>5. Settled' = n /\ storeCount' = n /\ InFlight(w)' = 0
    BY <1>1, <2>1 DEF Settled, InFlight, Writing
  <2>. QED  BY <1>b, <2>1, <2>2, <2>3, <2>4, <2>5 DEF Balanced, Writing
<1>5. CASE InsertTransactions \/ SetBlock \/ AddWork
  <2>1. /\ pc \in {"insert", "store", "work"} /\ pc' \in {"store", "work", "count"}
        /\ cur.id = storeCount + 1 /\ UNCHANGED <<ledger, storeCount, cur>>
    BY <1>5 DEF InsertTransactions, SetBlock, AddWork, ChainInv, FlightOK, Writing
  <2>2. \A h \in 1 .. n : blocks'[h] = blocks[h]
    <3>1. CASE SetBlock  BY <1>0, <1>1, <2>1, <3>1 DEF SetBlock
    <3>. QED  BY <1>5, <3>1 DEF InsertTransactions, AddWork
  <2>3. /\ ChainFlow(n, w)' = ChainFlow(n, w)
        /\ \A h \in 1 .. n : InRange(h, w)'
    BY <1>s, <2>2, FlowsStay
  <2>4. Executed = Len(cur.txs) /\ Executed' = Len(cur.txs)
    BY <2>1 DEF Executed
  <2>5. /\ ChainFlow(n, w) \in Amount
        /\ Balance(ledger, w) = ChainFlow(n, w) + FlowUpTo(cur, Len(cur.txs), w)
        /\ \A l \in 0 .. Len(cur.txs) : ChainFlow(n, w) + FlowUpTo(cur, l, w) \in Amount
    BY <1>1, <2>1, <2>4, BalancedParts DEF Writing
  <2>6. Settled' = n /\ storeCount' = n /\ InFlight(w)' = FlowUpTo(cur, Len(cur.txs), w)
    BY <1>1, <2>1, <2>4 DEF Settled, InFlight, Writing
  <2>. QED  BY <2>1, <2>3, <2>4, <2>5, <2>6 DEF Balanced
<1>6. CASE SetBlockCount
  <2>1. /\ pc = "count" /\ pc' = "idle" /\ storeCount' = storeCount + 1
        /\ cur = blocks[n + 1] /\ UNCHANGED <<ledger, blocks>>
    BY <1>1, <1>6
       DEF SetBlockCount, Return, ChainInv, MemoryOK, FlightOK, Writing
  <2>2. Executed = Len(cur.txs)
    BY <2>1 DEF Executed
  <2>3. /\ ChainFlow(n, w) \in Amount
        /\ Balance(ledger, w) = ChainFlow(n, w) + FlowUpTo(cur, Len(cur.txs), w)
        /\ \A l \in 0 .. Len(cur.txs) : ChainFlow(n, w) + FlowUpTo(cur, l, w) \in Amount
    BY <1>1, <2>1, <2>2, BalancedParts DEF Writing
  <2>4. ChainFlow(n + 1, w) = ChainFlow(n, w) + FlowUpTo(cur, Len(cur.txs), w)
    BY <2>1, ChainFlowFacts
  <2>5. InRange(n + 1, w)
    <3>1. n + 1 - 1 = n
      OBVIOUS
    <3>. QED  BY <2>1, <2>3, <3>1 DEF InRange
  <2>6. \A h \in 1 .. n + 1 : InRange(h, w)
    BY <1>s, <2>5
  <2>7. ChainFlow(n + 1, w)' = ChainFlow(n + 1, w) /\ \A h \in 1 .. n + 1 : InRange(h, w)'
    <3>1. n + 1 \in Nat /\ n + 1 \in 0 .. n + 1
      OBVIOUS
    <3>. QED  BY <2>1, <2>6, <3>1, FlowsStay
  <2>8. Settled' = n + 1 /\ storeCount' = n + 1 /\ InFlight(w)' = 0
    BY <1>1, <2>1 DEF Settled, InFlight, Writing
  <2>9. Balance(ledger', w) = ChainFlow(n + 1, w) /\ ChainFlow(n + 1, w) \in Amount
    <3>1. Len(cur.txs) \in 0 .. Len(cur.txs)
      BY <2>1, BlockTxs DEF ChainInv, CallOK, Writing
    <3>. QED  BY <2>1, <2>3, <2>4, <3>1
  <2>. QED  BY <1>b, <2>1, <2>7, <2>8, <2>9 DEF Balanced, Writing
<1>. QED  BY <1>2, <1>3, <1>4, <1>5, <1>6

\* Popping blocks: undoing meets the balances that executing left.
LEMMA PoppingBalances ==
  ASSUME ChainInv, Steady', NEW w \in Wallet, Balanced(w),
         PopBlock \/ UndoNext \/ RemoveWork \/ PopBlockCount \/ FinishPop
  PROVE  Balanced(w)'
<1>0. storeCount \in Nat /\ ledger \in Ledgers
  BY Heights DEF ChainInv, TypeOK
<1>1. PICK n \in Nat : n = storeCount
  BY <1>0
<1>b. \A a \in Amount : a + 0 = a /\ a \in Int
  BY DEF Amount
<1>s. \A h \in 1 .. n : InRange(h, w)
  BY <1>1, BalancedParts
<1>u. UNCHANGED blocks
  BY DEF PopBlock, UndoNext, RemoveWork, PopBlockCount, FinishPop, disk
<1>f. /\ \A m \in 0 .. n : ChainFlow(m, w)' = ChainFlow(m, w)
      /\ \A h \in 1 .. n : InRange(h, w)'
  BY <1>s, <1>u, FlowsStay
<1>2. CASE PopBlock
  <2>1. /\ pc = "idle" /\ pc' = "undo" /\ n > 1 /\ cur' = blocks[n] /\ pos' = Len(cur'.txs)
        /\ UNCHANGED <<ledger, storeCount>>
    BY <1>1, <1>2 DEF PopBlock, Idle, disk, ChainInv, MemoryOK
  <2>2. IsBlock(blocks[n])
    BY <1>1, <2>1, BlocksTyped DEF ChainInv, LinkOK
  <2>3. PICK p \in Nat : n = p + 1
    BY <2>1
  <2>4. Balance(ledger, w) = ChainFlow(n, w)
    BY <1>1, <2>1, BalancedParts
  <2>5. ChainFlow(n, w) = ChainFlow(p, w) + FlowUpTo(cur', Len(cur'.txs), w)
    BY <2>1, <2>3, ChainFlowFacts
  <2>6. ChainFlow(p, w) \in Amount
    <3>1. InRange(n, w) /\ n - 1 = p /\ 0 \in 0 .. Len(blocks[n].txs)
      BY <1>s, <2>1, <2>2, <2>3, BlockTxs
    <3>2. ChainFlow(p, w) + FlowUpTo(blocks[n], 0, w) \in Amount
      BY <3>1 DEF InRange
    <3>3. FlowUpTo(blocks[n], 0, w) = 0
      BY <2>2, FlowFacts
    <3>4. ChainFlow(p, w) \in Int
      BY <1>1, <2>1, <2>3, BlocksTyped, ChainFlowType DEF ChainInv, LinkOK
    <3>. QED  BY <3>2, <3>3, <3>4
  <2>7. /\ Settled' = p /\ Executed' = Len(cur'.txs) /\ storeCount' = n
        /\ InFlight(w)' = FlowUpTo(cur', Len(cur'.txs), w)
    BY <1>1, <2>1, <2>3 DEF Settled, Executed, InFlight
  <2>8. ChainFlow(p, w)' = ChainFlow(p, w)
    BY <1>f, <2>3
  <2>. QED  BY <1>f, <2>1, <2>4, <2>5, <2>6, <2>7, <2>8 DEF Balanced, Writing
<1>3. CASE UndoNext
  <2>. DEFINE t == cur.txs[pos]
              m == MinerOf(cur.txs)
  <2>1. /\ pc = "undo" /\ pc' = (IF pos = 1 THEN "popWork" ELSE "undo") /\ pos' = pos - 1
        /\ n > 1 /\ cur = blocks[n] /\ cur.id = n /\ IsBlock(cur) /\ pos \in 1 .. Len(cur.txs)
        /\ ledger' = RollbackLedger(ledger, t, m)
        /\ UNCHANGED <<cur, storeCount>>
    BY <1>1, <1>3 DEF UndoNext, ChainInv, FlightOK, CallOK, LinkOK, Linked, Popping
  <2>2. t \in Tx /\ m \in Wallet /\ Len(cur.txs) \in Nat
    BY <2>1, BlockTxs
  <2>3. PICK p \in Nat : n = p + 1
    <3>1. n > 1
      BY <2>1
    <3>2. n - 1 \in Nat /\ n = (n - 1) + 1
      BY <3>1
    <3>. QED  BY <3>2
  <2>4. ChainFlow(p, w) \in Amount /\ Balance(ledger, w) = ChainFlow(p, w) + FlowUpTo(cur, pos, w)
    <3>1. storeCount - 1 = p
      BY <1>1, <2>3
    <3>. QED  BY <2>1, <3>1, BalancedParts
  <2>5. /\ FlowUpTo(cur, pos, w) = FlowUpTo(cur, pos - 1, w) + Moves(t, m, cur.id, w)
        /\ FlowUpTo(cur, pos, w) \in Int /\ FlowUpTo(cur, pos - 1, w) \in Int
        /\ Moves(t, m, cur.id, w) \in Int
        /\ FlowUpTo(cur, 0, w) = 0
    <3>1. pos \in 0 .. Len(cur.txs) /\ pos - 1 \in 0 .. Len(cur.txs)
      BY <2>1, <2>2
    <3>. QED  BY <2>1, <3>1, FlowFacts
  <2>6. ChainFlow(p, w) + FlowUpTo(cur, pos - 1, w) \in Amount
    <3>1. InRange(n, w) /\ n - 1 = p /\ pos - 1 \in 0 .. Len(cur.txs)
      BY <1>s, <2>1, <2>2, <2>3
    <3>. QED  BY <2>1, <3>1 DEF InRange
  <2>7. \A v \in RollbackWallets(t, m) : HasWallet(ledger, v)
    <3>1. Recorded(ledger, cur, Len(cur.txs))
      BY <1>1, <2>1 DEF ChainInv, RecordsOK
    <3>. QED  BY <2>1, <2>2, <3>1 DEF Recorded
  <2>8. \A L, u, r, id : L \in Ledgers /\ u \in Tx /\ r \in Wallet /\ id # 1
          /\ (\A v \in RollbackWallets(u, r) : HasWallet(L, v))
          /\ Balance(L, w) - Moves(u, r, id, w) \in Amount
          => Balance(RollbackLedger(L, u, r), w) = Balance(L, w) - Moves(u, r, id, w)
    BY RollbackLedgerMoves
  <2>. HIDE DEF t, m
  <2>9. Balance(ledger, w) - Moves(t, m, cur.id, w) = ChainFlow(p, w) + FlowUpTo(cur, pos - 1, w)
    <3>1. ChainFlow(p, w) \in Int
      BY <1>b, <2>4
    <3>. QED  BY <2>4, <2>5, <3>1
  <2>10. Balance(ledger', w) = ChainFlow(p, w) + FlowUpTo(cur, pos - 1, w)
    <3>1. cur.id # 1
      BY <2>1
    <3>. QED  BY <1>0, <2>1, <2>2, <2>6, <2>7, <2>8, <2>9, <3>1
  <2>11. Settled' = p /\ storeCount' = n
    BY <1>1, <2>1, <2>3 DEF Settled
  <2>12. ChainFlow(p, w) + InFlight(w)' = ChainFlow(p, w) + FlowUpTo(cur, pos - 1, w)
    <3>1. CASE pos = 1
      <4>1. pos - 1 = 0 /\ InFlight(w)' = 0
        BY <2>1, <3>1 DEF InFlight, Writing
      <4>. QED  BY <2>5, <4>1
    <3>2. CASE pos # 1
      <4>1. InFlight(w)' = FlowUpTo(cur, pos - 1, w)
        BY <2>1, <3>2 DEF InFlight, Executed
      <4>. QED  BY <4>1
    <3>. QED  BY <3>1, <3>2
  <2>13. ChainFlow(p, w)' = ChainFlow(p, w)
    BY <1>f, <2>3
  <2>. QED  BY <1>f, <2>1, <2>4, <2>10, <2>11, <2>12, <2>13 DEF Balanced, Writing
<1>4. CASE RemoveWork \/ PopBlockCount
  <2>1. /\ pc \in {"popWork", "popCount"} /\ UNCHANGED ledger
        /\ \/ pc' = "popCount" /\ storeCount' = storeCount
           \/ pc' = "popIndex" /\ storeCount' = storeCount - 1
        /\ storeCount > 0
    BY <1>0, <1>4 DEF RemoveWork, PopBlockCount, ChainInv, MemoryOK
  <2>2. PICK p \in Nat : n = p + 1
    BY <1>1, <2>1
  <2>3. ChainFlow(p, w) \in Amount /\ Balance(ledger, w) = ChainFlow(p, w)
    <3>1. storeCount - 1 = p
      BY <1>1, <2>2
    <3>. QED  BY <2>1, <3>1, BalancedParts
  <2>4. Settled' = p /\ storeCount' \in {n, p} /\ InFlight(w)' = 0
    BY <1>1, <2>1, <2>2 DEF Settled, InFlight, Writing
  <2>5. \A h \in 1 .. storeCount' : InRange(h, w)'
    <3>1. \A h \in 1 .. storeCount' : h \in 1 .. n
      BY <2>2, <2>4
    <3>. QED  BY <1>f, <3>1
  <2>6. ChainFlow(p, w)' = ChainFlow(p, w)
    BY <1>f, <2>2
  <2>. QED  BY <1>b, <2>1, <2>3, <2>4, <2>5, <2>6 DEF Balanced, Writing
<1>5. CASE FinishPop
  <2>1. pc = "popIndex" /\ pc' = "idle" /\ UNCHANGED <<ledger, storeCount>>
    BY <1>5 DEF FinishPop, Return, Steady, Clearing
  <2>2. ChainFlow(n, w) \in Amount /\ Balance(ledger, w) = ChainFlow(n, w)
    BY <1>1, <2>1, BalancedParts
  <2>3. Settled' = n /\ storeCount' = n /\ InFlight(w)' = 0
    BY <1>1, <2>1 DEF Settled, InFlight, Writing
  <2>4. ChainFlow(n, w)' = ChainFlow(n, w)
    BY <1>f
  <2>. QED  BY <1>b, <1>f, <2>1, <2>2, <2>3, <2>4 DEF Balanced, Writing
<1>. QED  BY <1>2, <1>3, <1>4, <1>5

\* A reset starts from nothing, a verified transaction leaves its deltas, and a
\* restart between calls finds what was there.
LEMMA OtherBalances ==
  ASSUME ChainInv, BalancesOK, Steady', NEW w \in Wallet, Steady => Balanced(w),
         \/ ClearLedger \/ ClearBlocks \/ ClearCounts \/ ClearTxdb
         \/ VerifyTransaction
         \/ LoadChain \/ StartFails \/ StartChain
         \/ UNCHANGED vars
  PROVE  Balanced(w)'
<1>0. /\ storeCount \in Nat /\ ledger \in Ledgers /\ invalid \subseteq Nat \X Wallet
      /\ torn \in BOOLEAN
  BY Heights DEF ChainInv, TypeOK
<1>1. PICK n \in Nat : n = storeCount
  BY <1>0
<1>b. 0 \in Amount /\ Minus(0, 0) = 0 /\ \A a \in Amount : a + 0 = a
  BY AmountAssumption DEF Amount, Minus
<1>2. CASE ClearTxdb
  <2>1. /\ pc = "clearTxdb" /\ pc' = "execute" /\ pos' = 1 /\ cur' = Genesis
        /\ deltas' = EmptyLedger /\ ledger' = EmptyLedger /\ storeCount' = 0
        /\ blocks' = blocks
    BY <1>2 DEF ClearTxdb, Begin, ChainInv, MemoryOK, BalancesOK, Clearing
  <2>2. FlowUpTo(Genesis, 0, w) = 0
    BY GenesisIsBlock, FlowFacts
  <2>3. ChainFlow(0, w)' = 0
    <3>1. 0 \in Nat /\ 0 \in 0 .. 0 /\ \A h \in 1 .. 0 : blocks'[h] = blocks[h]
      OBVIOUS
    <3>2. ChainFlow(0, w)' = ChainFlow(0, w)
      BY <3>1, FlowsStay
    <3>. QED  BY <3>2, ChainFlowFacts
  <2>4. Balance(EmptyLedger, w) = 0
    BY DEF Balance, HasWallet, EmptyLedger
  <2>5. Settled' = 0 /\ Executed' = 0 /\ InFlight(w)' = FlowUpTo(Genesis, 0, w)
    BY <2>1 DEF Settled, Executed, InFlight, Writing
  <2>6. (\A k \in 0 .. Executed' : k = 0) /\ 1 .. 0 = {}
    BY <2>5
  <2>. QED  BY <1>b, <2>1, <2>2, <2>3, <2>4, <2>5, <2>6 DEF Balanced
<1>3. CASE VerifyTransaction
  <2>1. PICK t \in Tx, k \in Nonce, l \in Nonce :
          LET x == ExecuteTransaction(ledger, invalid, t, l) IN
          /\ ledger' = x.ledger
          /\ \/ pc' = "rollback" /\ deltas' = x.deltas /\ torn' = torn
             \/ torn' = TRUE
    BY <1>3 DEF VerifyTransaction
  <2>2. pc = "idle" /\ UNCHANGED <<blocks, storeCount>>
    BY <1>3 DEF VerifyTransaction, Idle
  <2>. DEFINE x == ExecuteTransaction(ledger, invalid, t, l)
  <2>3. Covers(x, w, Balance(ledger, w))
    BY <1>0, ExecuteTransactionMoves
  <2>4. ledger' = x.ledger /\ pc' = "rollback" /\ deltas' = x.deltas /\ torn' = torn
    BY <2>1 DEF Steady
  <2>. HIDE DEF x
  <2>5. Balanced(w)
    BY <2>2, <2>4 DEF Steady, Clearing
  <2>6. ChainFlow(n, w) \in Amount /\ Balance(ledger, w) = ChainFlow(n, w)
        /\ \A h \in 1 .. n : InRange(h, w)
    BY <1>1, <2>2, <2>5, BalancedParts
  <2>7. Balance(deltas', w) = Minus(Balance(ledger', w), ChainFlow(n, w))
    BY <2>3, <2>4, <2>6 DEF Covers
  <2>8. Settled' = n /\ storeCount' = n
    BY <1>1, <2>2, <2>4 DEF Settled
  <2>9. ChainFlow(n, w)' = ChainFlow(n, w) /\ \A h \in 1 .. n : InRange(h, w)'
    BY <2>2, <2>6, FlowsStay
  <2>. QED  BY <2>4, <2>6, <2>7, <2>8, <2>9 DEF Balanced, Writing
<1>4. CASE LoadChain
  <2>1. /\ pc = "idle" /\ ~torn /\ pc' = "idle" /\ UNCHANGED <<ledger, blocks, storeCount>>
    BY <1>0, <1>4 DEF LoadChain, Stop, Return, disk, Steady
  <2>2. ChainFlow(n, w) \in Amount /\ Balance(ledger, w) = ChainFlow(n, w)
        /\ \A h \in 1 .. n : InRange(h, w)
    BY <1>1, <2>1, BalancedParts DEF Steady, Clearing
  <2>3. ChainFlow(n, w)' = ChainFlow(n, w) /\ \A h \in 1 .. n : InRange(h, w)'
    BY <2>1, <2>2, FlowsStay
  <2>4. Settled' = n /\ storeCount' = n /\ InFlight(w)' = 0
    BY <1>1, <2>1 DEF Settled, InFlight, Writing
  <2>. QED  BY <1>b, <2>1, <2>2, <2>3, <2>4 DEF Balanced, Writing
<1>5. CASE ClearLedger \/ ClearBlocks \/ ClearCounts \/ StartFails \/ StartChain
  BY <1>5
     DEF ClearLedger, ClearBlocks, ClearCounts, StartFails, StartChain, Return, Steady, Clearing
<1>6. CASE UNCHANGED vars
  <2>1. Steady /\ UNCHANGED <<pc, cur, pos, blocks, storeCount, ledger, deltas>>
    BY <1>6 DEF vars, disk, call, Steady
  <2>2. \A m : ChainFlow(m, w)' = ChainFlow(m, w)
    BY <2>1 DEF ChainFlow, FlowUpTo, Flow, Total
  <2>3. \A h : InRange(h, w) => InRange(h, w)'
    BY <2>1, <2>2 DEF InRange
  <2>4. Settled' = Settled /\ Executed' = Executed
    BY <2>1 DEF Settled, Executed
  <2>5. InFlight(w)' = InFlight(w)
    BY <2>1, <2>4 DEF InFlight
  <2>6. ChainFlow(Settled, w)' = ChainFlow(Settled, w)
    BY <2>2, <2>4
  <2>. QED  BY <2>1, <2>2, <2>3, <2>4, <2>5, <2>6 DEF Balanced
<1>. QED  BY <1>2, <1>3, <1>4, <1>5, <1>6

\* Every action keeps the balances.
LEMMA BalancesKept ==
  ASSUME ChainInv, BalancesOK, [Next]_vars
  PROVE  BalancesOK'
<1>1. pc' \in Clearing \ {"clearLedger"} => ledger' = EmptyLedger
  <2>1. pc' \in Clearing \ {"clearLedger"} =>
          \/ ClearLedger
          \/ pc \in Clearing \ {"clearLedger"} /\ ledger' = ledger
    <3>1. AddBlock \/ ExecuteNext \/ TakeBack \/ InsertTransactions \/ SetBlock \/ AddWork =>
            pc' \notin Clearing \ {"clearLedger"}
      BY DEF AddBlock, ExecuteNext, TakeBack, InsertTransactions, SetBlock, AddWork,
             Idle, Begin, Return, Back, Clearing
    <3>2. SetBlockCount \/ PopBlock \/ UndoNext \/ RemoveWork \/ PopBlockCount \/ FinishPop =>
            pc' \notin Clearing \ {"clearLedger"}
      BY DEF SetBlockCount, PopBlock, UndoNext, RemoveWork, PopBlockCount, FinishPop,
             Idle, Begin, Return, Back, Clearing
    <3>3. VerifyTransaction \/ LoadChain \/ StartFails \/ StartChain =>
            pc' \notin Clearing \ {"clearLedger"}
      BY DEF VerifyTransaction, LoadChain, StartFails, StartChain, Idle, Begin, Return, Back,
             Clearing
    <3>4. ClearBlocks \/ ClearCounts \/ ClearTxdb \/ UNCHANGED vars =>
            (pc' \in Clearing \ {"clearLedger"} =>
               pc \in Clearing \ {"clearLedger"} /\ ledger' = ledger)
      BY DEF ClearBlocks, ClearCounts, ClearTxdb, vars, disk, call, Return, Back, Clearing
    <3>. QED  BY <3>1, <3>2, <3>3, <3>4 DEF Next
  <2>. QED  BY <2>1 DEF ClearLedger, BalancesOK
<1>2. ASSUME Steady', NEW w \in Wallet  PROVE Balanced(w)'
  <2>1. CASE \/ AddBlock \/ ExecuteNext \/ TakeBack \/ InsertTransactions \/ SetBlock \/ AddWork
             \/ SetBlockCount \/ PopBlock \/ UndoNext \/ RemoveWork \/ PopBlockCount \/ FinishPop
    <3>1. Steady
      <4>1. torn' = torn \/ torn' = TRUE \/ torn' = (torn \/ RollbackThrows(ledger, deltas))
        BY <2>1
           DEF AddBlock, ExecuteNext, TakeBack, InsertTransactions, SetBlock, AddWork,
               SetBlockCount, PopBlock, UndoNext, RemoveWork, PopBlockCount, FinishPop
      <4>2. pc \notin Clearing \cup {"dead"}
        BY <2>1
           DEF AddBlock, ExecuteNext, TakeBack, InsertTransactions, SetBlock, AddWork,
               SetBlockCount, PopBlock, UndoNext, RemoveWork, PopBlockCount, FinishPop,
               Idle, Clearing
      <4>3. ~torn
        BY <1>2, <4>1 DEF Steady
      <4>. QED  BY <4>2, <4>3 DEF Steady
    <3>2. Balanced(w)
      BY <1>2, <3>1 DEF BalancesOK
    <3>. QED  BY <1>2, <2>1, <3>2, WritingBalances, PoppingBalances
  <2>2. CASE \/ ClearLedger \/ ClearBlocks \/ ClearCounts \/ ClearTxdb \/ VerifyTransaction
             \/ LoadChain \/ StartFails \/ StartChain \/ UNCHANGED vars
    BY <1>2, <2>2, OtherBalances DEF BalancesOK
  <2>. QED  BY <2>1, <2>2 DEF Next
<1>. QED  BY <1>1, <1>2 DEF BalancesOK

\* Whatever was added, refused, popped, verified and reset, and wherever the
\* process stopped between calls, the ledger has what the transactions of the
\* chain add up to.
THEOREM BalancesAreOfChain == Spec => []BalancesMatchChain
<1>1. Init => BalancesOK
  BY DEF Init, BalancesOK, Steady, Clearing
<1>2. ChainInv /\ BalancesOK /\ [Next]_vars => BalancesOK'
  BY BalancesKept
<1>3. ChainInv /\ BalancesOK => BalancesMatchChain
  <2>. SUFFICES ASSUME ChainInv, BalancesOK, pc = "idle", ~torn, NEW w \in Wallet
                PROVE  Balance(ledger, w) = NetFlow(w)
    BY DEF BalancesMatchChain
  <2>1. Balance(ledger, w) = ChainFlow(storeCount, w)
    BY BalancedParts DEF BalancesOK, Steady, Clearing
  <2>2. numBlocks = storeCount
    BY DEF ChainInv, MemoryOK
  <2>. QED  BY <2>1, <2>2 DEF NetFlow
<1>. QED  BY <1>1, <1>2, <1>3, InvariantHolds, PTL DEF Spec

-----------------------------------------------------------------------------
\* The databases hold what the chain's blocks say, at every point of every call.
THEOREM ContentsHold == Spec => []ContentsInv
<1>1. Init => TimesOK /\ WorkOK /\ PaymentsOK /\ IndexOK /\ BalancesOK
  BY ChainAssumption
     DEF Init, TimesOK, WorkOK, PaymentsOK, IndexOK, BalancesOK, Intact, Steady, Clearing, Writing
<1>2. ContentsInv /\ [Next]_vars => TimesOK' /\ WorkOK' /\ PaymentsOK' /\ IndexOK' /\ BalancesOK'
  BY TimesKept, WorkKept, PaymentsKept, IndexKept, BalancesKept DEF ContentsInv
<1>3. ChainInv /\ TimesOK /\ WorkOK /\ PaymentsOK /\ IndexOK /\ BalancesOK <=> ContentsInv
  BY DEF ContentsInv
<1>. QED  BY <1>1, <1>2, <1>3, InvariantHolds, PTL DEF Spec
=============================================================================
