---------------------------- MODULE NetworkProofs ----------------------------
(***************************************************************************)
(* What holds of the headers a node has of a peer and of the peers it      *)
(* follows, for every value of the constants.                              *)
(***************************************************************************)
EXTENDS Network, TLAPS, FiniteSetTheorems

\* A step is a step of one part, and the others stand still.
LEMMA PartsStep ==
  ASSUME [Next]_vars
  PROVE  /\ part' = part
         /\ [Headers!Next]_Headers!vars
         /\ part = "hosts" => [Hosts!Next]_Hosts!vars
         /\ part # "hosts" => [Listed!Next]_Listed!vars
<1>. USE DEF vars, headersVars, syncVars, hostsVars, callsVars, Headers!vars, Headers!seen,
             Headers!locals, Headers!world, Hosts!vars, Listed!vars
<1>1. CASE UNCHANGED vars  BY <1>1
<1>2. CASE Next  BY <1>2 DEF Next
<1>. QED  BY <1>1, <1>2

-----------------------------------------------------------------------------
(***************************************************************************)
(* The headers of a peer are one chain, whatever it answers, in batches of *)
(* whatever size, and whenever the checkpoints are there.                  *)
(***************************************************************************)
HeaderTypes ==
  /\ blockHashes \in Seq(Header) /\ answer \in Seq(Header)
  /\ store \in Seq(Header) /\ Headers!IsChain(store)
  /\ peer \in Seq(Header) /\ loadI \in Nat /\ loadTarget \in Nat
  /\ loadPc \in {"fetch", "headers", "length", "work"} => loadI >= 1
  /\ loadPc \in {"length", "work"} => answer # <<>>

\* While the node's own blocks are copied the hashes are the first of them, and
\* the thread has not come further.
CopiesStore ==
  ~tried /\ store # <<>> =>
    /\ loadPc = "start" /\ Len(blockHashes) <= Len(store)
    /\ \A n \in 1 .. Len(blockHashes) : blockHashes[n] = store[n]

HeadersInv == HeaderTypes /\ CopiesStore /\ Headers!Linked

\* What is appended to a chain is part of it if it names the last one.
LEMMA ChainGrows ==
  ASSUME NEW hs \in Seq(Header), NEW h \in Header, Headers!IsChain(hs), h \in GoodNonce,
         HeaderPrev[h] = IF hs = <<>> THEN NullHash ELSE hs[Len(hs)]
  PROVE  Append(hs, h) \in Seq(Header) /\ Headers!IsChain(Append(hs, h))
<1>. DEFINE g == Append(hs, h)
<1>1. /\ g \in Seq(Header) /\ Len(g) = Len(hs) + 1 /\ Len(hs) \in Nat
      /\ \A n \in 1 .. Len(hs) : g[n] = hs[n]
      /\ g[Len(hs) + 1] = h
      /\ hs = <<>> <=> Len(hs) = 0
  OBVIOUS
<1>. HIDE DEF g
<1>2. ASSUME NEW n \in 1 .. Len(g)
      PROVE  g[n] \in GoodNonce /\ HeaderPrev[g[n]] = IF n = 1 THEN NullHash ELSE g[n - 1]
  <2>1. CASE n \in 1 .. Len(hs)
    <3>1. g[n] = hs[n] /\ (n # 1 => g[n - 1] = hs[n - 1])  BY <1>1, <2>1
    <3>. QED  BY <2>1, <3>1 DEF Headers!IsChain
  <2>2. CASE n = Len(hs) + 1
    <3>1. n # 1 => g[n - 1] = hs[Len(hs)]  BY <1>1, <2>2
    <3>. QED  BY <1>1, <2>2, <3>1
  <2>. QED  BY <1>1, <2>1, <2>2
<1>. QED  BY <1>1, <1>2 DEF Headers!IsChain, g

LEMMA HeadersStart == ASSUME Headers!HeaderAssumption, Headers!Init PROVE HeadersInv

    BY DEF Headers!HeaderAssumption, Headers!Init, HeadersInv, HeaderTypes, CopiesStore,
           Headers!Linked, Headers!IsChain

\* The first block's predecessor is the null hash, in the store as for a peer.
LEMMA CopyKeeps ==
  ASSUME Headers!HeaderAssumption, HeadersInv, Headers!CopyStore
  PROVE  HeadersInv'
<1>1. /\ ~tried /\ store # <<>> /\ UNCHANGED <<answer, loadI, loadTarget, store, peer>>
      /\ Len(blockHashes) \in Nat /\ Len(store) \in Nat /\ Len(blockHashes) <= Len(store)
      /\ \A n \in 1 .. Len(blockHashes) : blockHashes[n] = store[n]
  BY DEF Headers!CopyStore, Headers!locals, Headers!world, HeadersInv, HeaderTypes, CopiesStore
<1>2. CASE Len(blockHashes) < Len(store)
  <2>. DEFINE k == Len(blockHashes) + 1
  <2>1. blockHashes' = Append(blockHashes, store[k]) /\ loadPc' = loadPc /\ tried' = tried
    BY <1>2 DEF Headers!CopyStore
  <2>2. k \in 1 .. Len(store) /\ store[k] \in Header /\ store[k] \in GoodNonce
    BY <1>1, <1>2 DEF HeadersInv, HeaderTypes, Headers!IsChain
  <2>3. HeaderPrev[store[k]] =
          IF blockHashes = <<>> THEN NullHash ELSE blockHashes[Len(blockHashes)]
    <3>1. HeaderPrev[store[k]] = IF k = 1 THEN NullHash ELSE store[k - 1]
      BY <2>2 DEF HeadersInv, HeaderTypes, Headers!IsChain
    <3>2. CASE blockHashes = <<>>  BY <3>1, <3>2
    <3>3. CASE blockHashes # <<>>
      <4>1. k # 1 /\ Len(blockHashes) \in 1 .. Len(blockHashes) /\ k - 1 = Len(blockHashes)
        BY <1>1, <3>3 DEF HeadersInv, HeaderTypes
      <4>2. blockHashes[Len(blockHashes)] = store[Len(blockHashes)]  BY <1>1, <4>1
      <4>. QED  BY <3>1, <3>3, <4>1, <4>2
    <3>. QED  BY <3>2, <3>3
  <2>4. blockHashes' \in Seq(Header) /\ Headers!Linked'
    BY <2>1, <2>2, <2>3, ChainGrows DEF HeadersInv, HeaderTypes, Headers!Linked
  <2>5. /\ Len(blockHashes') = k
        /\ \A n \in 1 .. k : blockHashes'[n] = store[n]
    BY <1>1, <2>1, <2>2 DEF HeadersInv, HeaderTypes
  <2>. QED
    BY <1>1, <2>1, <2>2, <2>4, <2>5 DEF HeadersInv, HeaderTypes, CopiesStore, Headers!IsChain
<1>3. CASE ~(Len(blockHashes) < Len(store))
  <2>1. blockHashes' = blockHashes /\ tried' = TRUE /\ loadPc' = "load"
    BY <1>3 DEF Headers!CopyStore, Headers!Goto
  <2>. QED
    BY <1>1, <2>1 DEF HeadersInv, HeaderTypes, CopiesStore, Headers!Linked, Headers!IsChain
<1>. QED  BY <1>2, <1>3

\* Header by header: one that does not link on is not taken.
LEMMA PushKeeps ==
  ASSUME Headers!HeaderAssumption, HeadersInv, Headers!PushHash
  PROVE  HeadersInv'
<1>1. /\ UNCHANGED <<answer, loadI, loadTarget, store, peer, tried>>
      /\ loadPc = "headers" /\ answer # <<>> /\ loadPc' # "start"
  BY DEF Headers!PushHash, Headers!Goto, Headers!locals, Headers!world
<1>2. CASE blockHashes' = blockHashes
  BY <1>1, <1>2 DEF HeadersInv, HeaderTypes, CopiesStore, Headers!Linked, Headers!IsChain
<1>3. CASE ~Headers!Refused(Head(answer)) /\ blockHashes' = Append(blockHashes, Head(answer))
  <2>1. Head(answer) \in Header  BY <1>1 DEF HeadersInv, HeaderTypes
  <2>2. Head(answer) \in GoodNonce /\ HeaderPrev[Head(answer)] = Headers!LastHash
    BY <1>3 DEF Headers!Refused
  <2>3. blockHashes' \in Seq(Header) /\ Headers!Linked'
    BY <1>3, <2>1, <2>2, ChainGrows DEF Headers!LastHash, HeadersInv, HeaderTypes, Headers!Linked
  <2>. QED  BY <1>1, <2>3 DEF HeadersInv, HeaderTypes, CopiesStore, Headers!IsChain
<1>. QED  BY <1>2, <1>3 DEF Headers!PushHash

\* Reset shows readers the old hashes, or none.
LEMMA ResetKeeps ==
  ASSUME Headers!HeaderAssumption, HeadersInv, Headers!Reset
  PROVE  HeadersInv'
<1>1. /\ UNCHANGED <<tried, Headers!locals, Headers!world>> /\ loadPc # "start"
      /\ loadPc' \in {"reset length", "reset hashes", "start"}
      /\ \/ blockHashes' = blockHashes /\ loadPc' # "start"
         \/ blockHashes' = <<>>
  BY DEF Headers!Reset, Headers!Goto
<1>2. Headers!IsChain(<<>>) /\ <<>> \in Seq(Header)  BY DEF Headers!IsChain
<1>3. ~(~tried /\ store # <<>>)  BY <1>1 DEF HeadersInv, CopiesStore
<1>. QED
  BY <1>1, <1>2, <1>3 DEF Headers!locals, Headers!world, HeadersInv, HeaderTypes, CopiesStore,
                          Headers!Linked

\* What a peer answers: headers, and nothing more is known of them.
LEMMA ReadKeeps ==
  ASSUME Headers!HeaderAssumption, HeadersInv, Headers!ReadRawHeaders
  PROVE  HeadersInv'
<1>1. /\ UNCHANGED <<blockHashes, tried, loadI, loadTarget, store, peer>> /\ loadPc # "start"
      /\ answer' \in Headers!Answers \/ answer' = answer
      /\ loadI >= 1 /\ loadPc' \notin {"start", "length", "work"}

    BY DEF Headers!ReadRawHeaders, Headers!Goto, Headers!seen, Headers!world, HeadersInv,
           HeaderTypes
<1>2. ASSUME answer' \in Headers!Answers  PROVE answer' \in Seq(Header)
  <2>1. CASE loadSettled
    <3>. DEFINE n == Headers!Least(Len(peer), Headers!Least(loadTarget, loadI + HeaderBatch - 1))
    <3>1. n <= Len(peer) /\ n \in Int
      BY DEF Headers!Least, HeadersInv, HeaderTypes, Headers!HeaderAssumption
    <3>2. answer' = SubSeq(peer, loadI, n)  BY <1>2, <2>1 DEF Headers!Answers
    <3>3. peer \in Seq(Header) /\ loadI \in Nat /\ loadI >= 1  BY <1>1 DEF HeadersInv, HeaderTypes
    <3>. HIDE DEF n
    <3>. QED  BY <3>1, <3>2, <3>3
  <2>2. CASE ~loadSettled
    <3>1. PICK n \in 0 .. MaxAnswer : answer' \in [1 .. n -> Header]
      BY <1>2, <2>2 DEF Headers!Answers
    <3>2. n \in Nat  BY <3>1 DEF Headers!HeaderAssumption
    <3>. QED  BY <3>1, <3>2
  <2>. QED  BY <2>1, <2>2
<1>3. answer' \in Seq(Header)  BY <1>1, <1>2 DEF HeadersInv, HeaderTypes
<1>. QED  BY <1>1, <1>3 DEF HeadersInv, HeaderTypes, CopiesStore, Headers!Linked, Headers!IsChain

LEMMA OtherStepsKeep ==
  ASSUME Headers!HeaderAssumption, HeadersInv,
         \/ Headers!Construct \/ Headers!Start \/ Headers!GetCurrentBlockCount
         \/ Headers!SetLength \/ Headers!SetWork
         \/ Headers!NextBatch \/ Headers!LoadEnds \/ Headers!Settle \/ UNCHANGED Headers!vars
  PROVE  HeadersInv'
<1>. USE DEF HeadersInv, HeaderTypes, CopiesStore, Headers!Linked, Headers!IsChain,
             Headers!HeaderAssumption, Headers!Goto, Headers!seen, Headers!locals, Headers!world
<1>1. ASSUME Headers!Construct  PROVE HeadersInv'  BY <1>1 DEF Headers!Construct
<1>2. ASSUME Headers!Start  PROVE HeadersInv'  BY <1>2 DEF Headers!Start
<1>3. ASSUME Headers!GetCurrentBlockCount  PROVE HeadersInv'
  <2>1. Headers!Counts \subseteq Nat /\ Len(blockHashes) + 1 \in Nat /\ Len(blockHashes) + 1 >= 1
    BY DEF Headers!Counts
  <2>. HIDE DEF Headers!IsChain
  <2>2. CASE loadPc' = "fetch"
    BY <1>3, <2>1, <2>2 DEF Headers!GetCurrentBlockCount
  <2>3. CASE loadPc' # "fetch"
    BY <1>3, <2>3 DEF Headers!GetCurrentBlockCount
  <2>. QED  BY <2>2, <2>3
<1>4. ASSUME Headers!SetLength  PROVE HeadersInv'  BY <1>4 DEF Headers!SetLength
<1>5. ASSUME Headers!SetWork  PROVE HeadersInv'  BY <1>5 DEF Headers!SetWork
<1>6. ASSUME Headers!NextBatch  PROVE HeadersInv'  BY <1>6 DEF Headers!NextBatch
<1>7. ASSUME Headers!LoadEnds  PROVE HeadersInv'  BY <1>7 DEF Headers!LoadEnds
<1>8. ASSUME Headers!Settle  PROVE HeadersInv'  BY <1>8 DEF Headers!Settle
<1>9. ASSUME UNCHANGED Headers!vars  PROVE HeadersInv'  BY <1>9 DEF Headers!vars
<1>. QED  BY <1>1, <1>2, <1>3, <1>4, <1>5, <1>6, <1>7, <1>8, <1>9

LEMMA HeadersStepKeeps ==
  ASSUME Headers!HeaderAssumption, HeadersInv, [Headers!Next]_Headers!vars
  PROVE  HeadersInv'
  BY CopyKeeps, PushKeeps, ResetKeeps, ReadKeeps, OtherStepsKeep DEF Headers!Next, Headers!Load

\* HeaderChain::load: whatever a peer answers, and whatever a reader interrupts,
\* what is held of the peer is one chain from the first block on.
THEOREM HeadersAreLinked == Spec => []Linked
<1>1. Init => HeadersInv  BY NetworkAssumption, HeadersStart DEF Init
<1>2. HeadersInv /\ [Next]_vars => HeadersInv'
  BY NetworkAssumption, PartsStep, HeadersStepKeeps
<1>3. HeadersInv => Linked  BY DEF HeadersInv, Linked
<1>. QED  BY <1>1, <1>2, <1>3, PTL DEF Spec

-----------------------------------------------------------------------------
(***************************************************************************)
(* What a reader sees of the length and the work.                          *)
(***************************************************************************)

\* s is the table from which WorkOf takes its last entry.
Table(s, hs) == s = [n \in 0 .. Len(hs) |-> IF n = 0 THEN 0 ELSE s[n - 1] + HeaderWork[hs[n]]]

\* Such a table exists and all of them end with WorkOf(hs).  That this holds of
\* every list would take induction; of the hashes held it is kept step by step.
Summed(hs) ==
  /\ \E s : Table(s, hs)
  /\ \A s : Table(s, hs) => s[Len(hs)] = Headers!WorkOf(hs)
  /\ Headers!WorkOf(hs) \in Nat

Copying == ~tried /\ store # <<>>

\* Which of length, work and hashes is ahead at which write.
CountersOK ==
  /\ loadPc \in {"load", "fetch", "headers", "failed"} \/ (loadPc = "start" /\ ~Copying) =>
       chainLength = Len(blockHashes) /\ totalWork = Headers!WorkOf(blockHashes)
  /\ loadPc \in {"length", "work"} =>
       /\ blockHashes # <<>>
       /\ totalWork = Headers!WorkOf(blockHashes) - HeaderWork[Headers!LastHash]
       /\ chainLength = IF loadPc = "work" THEN Len(blockHashes) ELSE Len(blockHashes) - 1
  /\ loadPc = "reset length" => chainLength = Len(blockHashes) /\ totalWork = 0
  /\ loadPc = "reset hashes" \/ (loadPc = "start" /\ Copying) => chainLength = 0 /\ totalWork = 0
  /\ loadPc \in Headers!Labels

CountersInv == HeadersInv /\ Summed(blockHashes) /\ CountersOK

LEMMA NothingSummed == Summed(<<>>) /\ Headers!WorkOf(<<>>) = 0
<1>1. \A s : Table(s, <<>>) => s[0] = 0
  BY DEF Table
<1>2. Table([n \in 0 .. 0 |-> 0], <<>>)
  BY DEF Table
<1>3. Headers!WorkOf(<<>>) = (CHOOSE s : Table(s, <<>>))[0]
  BY DEF Headers!WorkOf, Table
<1>4. Table(CHOOSE s : Table(s, <<>>), <<>>)
  BY <1>2
<1>5. Headers!WorkOf(<<>>) = 0
  BY <1>1, <1>3, <1>4
<1>. QED  BY <1>1, <1>2, <1>5 DEF Summed

\* A table for a list that has grown by one is one for the list and one entry more.
LEMMA SummedGrows ==
  ASSUME Headers!HeaderAssumption, NEW hs \in Seq(Header), NEW h \in Header, Summed(hs)
  PROVE  /\ Summed(Append(hs, h))
         /\ Headers!WorkOf(Append(hs, h)) = Headers!WorkOf(hs) + HeaderWork[h]
<1>. DEFINE g == Append(hs, h)
            m == Len(hs)
<1>1. /\ m \in Nat /\ Len(g) = m + 1 /\ g[m + 1] = h
      /\ \A n \in 1 .. m : g[n] = hs[n]
  OBVIOUS
<1>2. HeaderWork[h] \in Nat
  BY DEF Headers!HeaderAssumption
<1>. HIDE DEF g, m
<1>3. ASSUME NEW s, Table(s, g)  PROVE s[m + 1] = Headers!WorkOf(hs) + HeaderWork[h]
  <2>1. \A n \in 0 .. m + 1 : s[n] = IF n = 0 THEN 0 ELSE s[n - 1] + HeaderWork[g[n]]
    BY <1>1, <1>3 DEF Table
  <2>. DEFINE r == [n \in 0 .. m |-> s[n]]
  <2>2. \A n \in 0 .. m : r[n] = IF n = 0 THEN 0 ELSE r[n - 1] + HeaderWork[hs[n]]
    <3>. SUFFICES ASSUME NEW n \in 0 .. m
                  PROVE  r[n] = IF n = 0 THEN 0 ELSE r[n - 1] + HeaderWork[hs[n]]
      OBVIOUS
    <3>1. CASE n = 0  BY <1>1, <2>1, <3>1
    <3>2. CASE n # 0
      <4>1. n \in 0 .. m + 1 /\ n - 1 \in 0 .. m /\ g[n] = hs[n]
        BY <1>1, <3>2
      <4>2. s[n] = s[n - 1] + HeaderWork[g[n]]
        BY <2>1, <3>2, <4>1
      <4>. QED  BY <3>2, <4>1, <4>2
    <3>. QED  BY <3>1, <3>2
  <2>3. Table(r, hs)
    BY <2>2 DEF Table, m
  <2>4. r[m] = Headers!WorkOf(hs)
    BY <2>3 DEF Summed, m
  <2>5. s[m + 1] = s[m] + HeaderWork[h] /\ s[m] = r[m]
    BY <1>1, <2>1
  <2>. QED  BY <2>4, <2>5
<1>4. \E s : Table(s, g)
  <2>1. PICK r : Table(r, hs)
    BY DEF Summed
  <2>2. \A n \in 0 .. m : r[n] = IF n = 0 THEN 0 ELSE r[n - 1] + HeaderWork[hs[n]]
    BY <1>1, <2>1 DEF Table, m
  <2>. DEFINE s == [n \in 0 .. m + 1 |-> IF n = m + 1 THEN r[m] + HeaderWork[h] ELSE r[n]]
  <2>3. \A n \in 0 .. m + 1 : s[n] = IF n = 0 THEN 0 ELSE s[n - 1] + HeaderWork[g[n]]
    <3>. SUFFICES ASSUME NEW n \in 0 .. m + 1
                  PROVE  s[n] = IF n = 0 THEN 0 ELSE s[n - 1] + HeaderWork[g[n]]
      OBVIOUS
    <3>1. CASE n = m + 1
      <4>1. n # 0 /\ n - 1 = m /\ m \in 0 .. m + 1 /\ m # m + 1
        BY <1>1, <3>1
      <4>. QED  BY <1>1, <3>1, <4>1
    <3>2. CASE n = 0  BY <1>1, <2>2, <3>2
    <3>3. CASE n \in 1 .. m
      <4>1. n # 0 /\ n \in 0 .. m /\ n # m + 1 /\ n - 1 # m + 1 /\ n - 1 \in 0 .. m + 1
        BY <1>1, <3>3
      <4>2. r[n] = r[n - 1] + HeaderWork[hs[n]] /\ g[n] = hs[n]
        BY <1>1, <2>2, <3>3, <4>1
      <4>. QED  BY <4>1, <4>2
    <3>. QED  BY <1>1, <3>1, <3>2, <3>3
  <2>4. Table(s, g)
    BY <1>1, <2>3 DEF Table
  <2>. QED  BY <2>4
<1>5. Headers!WorkOf(g) = (CHOOSE s : Table(s, g))[m + 1]
  BY <1>1 DEF Headers!WorkOf, Table
<1>6. Table(CHOOSE s : Table(s, g), g)
  BY <1>4
<1>7. Headers!WorkOf(g) = Headers!WorkOf(hs) + HeaderWork[h]
  BY <1>3, <1>5, <1>6
<1>8. Headers!WorkOf(g) \in Nat
  BY <1>2, <1>7 DEF Summed
<1>9. Summed(g)
  BY <1>1, <1>3, <1>4, <1>7, <1>8 DEF Summed
<1>. QED  BY <1>7, <1>9 DEF g

\* The hashes held are the same list, whichever state looks at it.
LEMMA SumsOfNextState ==
  /\ Summed(blockHashes)' <=> Summed(blockHashes')
  /\ Headers!WorkOf(blockHashes)' = Headers!WorkOf(blockHashes')
  BY DEF Summed, Table, Headers!WorkOf

LEMMA CountersKept ==
  ASSUME Headers!HeaderAssumption, CountersInv, HeadersInv', [Headers!Next]_Headers!vars
  PROVE  CountersInv'
<1>. USE DEF CountersInv
<1>0. /\ blockHashes \in Seq(Header) /\ Len(blockHashes) \in Nat
      /\ Headers!WorkOf(blockHashes) \in Nat
      /\ \A h \in Header : HeaderWork[h] \in Nat
  <2>1. blockHashes \in Seq(Header) /\ Len(blockHashes) \in Nat
    BY DEF HeadersInv, HeaderTypes
  <2>2. Headers!WorkOf(blockHashes) \in Nat
    BY DEF Summed
  <2>3. \A h \in Header : HeaderWork[h] \in Nat
    BY DEF Headers!HeaderAssumption
  <2>. QED  BY <2>1, <2>2, <2>3
<1>1. CASE Headers!CopyStore
  <2>1. CASE Len(blockHashes) < Len(store)
    <3>. DEFINE h == store[Len(blockHashes) + 1]
    <3>1. /\ blockHashes' = Append(blockHashes, h) /\ loadPc = "start" /\ Copying
          /\ UNCHANGED <<loadPc, tried, store, chainLength, totalWork>>
      BY <1>1, <2>1 DEF Headers!CopyStore, Copying, Headers!world
    <3>2. h \in Header
      BY <1>0, <2>1 DEF HeadersInv, HeaderTypes
    <3>3. Summed(blockHashes)'
      <4>1. Summed(Append(blockHashes, h))
        BY <1>0, <3>2, SummedGrows
      <4>. QED  BY <3>1, <4>1, SumsOfNextState
    <3>. QED  BY <3>1, <3>3 DEF CountersOK, Copying, Headers!Labels
  <2>2. CASE ~(Len(blockHashes) < Len(store))
    <3>1. /\ blockHashes' = blockHashes /\ store' = store /\ tried' /\ loadPc' = "load"
          /\ totalWork' = Headers!WorkOf(store) /\ chainLength' = Len(store)
      BY <1>1, <2>2 DEF Headers!CopyStore, Headers!Goto, Headers!world
    <3>2. blockHashes = store
      <4>1. /\ Len(blockHashes) = Len(store) /\ store \in Seq(Header)
            /\ \A n \in 1 .. Len(blockHashes) : blockHashes[n] = store[n]
        BY <1>0, <1>1, <2>2 DEF Headers!CopyStore, HeadersInv, HeaderTypes, CopiesStore
      <4>. QED  BY <1>0, <4>1
    <3>3. Summed(blockHashes)' /\ Headers!WorkOf(blockHashes)' = Headers!WorkOf(blockHashes)
      BY <3>1, SumsOfNextState
    <3>. QED  BY <3>1, <3>2, <3>3 DEF CountersOK, Copying, Headers!Labels
  <2>. QED  BY <2>1, <2>2
<1>2. CASE Headers!PushHash
  <2>. DEFINE h == Head(answer)
  <2>1. h \in Header /\ loadPc = "headers" /\ UNCHANGED <<chainLength, totalWork, tried, store>>
    BY <1>2 DEF Headers!PushHash, Headers!world, HeadersInv, HeaderTypes
  <2>2. chainLength = Len(blockHashes) /\ totalWork = Headers!WorkOf(blockHashes)
    BY <2>1 DEF CountersOK
  <2>3. CASE Headers!Refused(h)
    <3>1. loadPc' = "failed" /\ blockHashes' = blockHashes
      BY <1>2, <2>3 DEF Headers!PushHash, Headers!Goto
    <3>2. Summed(blockHashes)' /\ Headers!WorkOf(blockHashes)' = Headers!WorkOf(blockHashes)
      BY <3>1, SumsOfNextState
    <3>. QED  BY <2>1, <2>2, <3>1, <3>2 DEF CountersOK, Headers!Labels
  <2>4. CASE ~Headers!Refused(h)
    <3>1. loadPc' = "length" /\ blockHashes' = Append(blockHashes, h)
      BY <1>2, <2>4 DEF Headers!PushHash, Headers!Goto
    <3>2. /\ Summed(Append(blockHashes, h))
          /\ Headers!WorkOf(Append(blockHashes, h)) =
               Headers!WorkOf(blockHashes) + HeaderWork[h]
      BY <1>0, <2>1, SummedGrows
    <3>3. /\ Summed(blockHashes)'
          /\ Headers!WorkOf(blockHashes)' = Headers!WorkOf(blockHashes) + HeaderWork[h]
      BY <3>1, <3>2, SumsOfNextState
    <3>4. blockHashes' # <<>> /\ Headers!LastHash' = h /\ Len(blockHashes') = Len(blockHashes) + 1
      BY <1>0, <2>1, <3>1 DEF Headers!LastHash
    <3>5. HeaderWork[h] \in Nat
      BY <1>0, <2>1
    <3>6. totalWork' = Headers!WorkOf(blockHashes)' - HeaderWork[Headers!LastHash]'
      BY <1>0, <2>1, <2>2, <3>3, <3>4, <3>5
    <3>. QED  BY <1>0, <2>1, <2>2, <3>1, <3>3, <3>4, <3>6 DEF CountersOK, Headers!Labels
  <2>. QED  BY <2>3, <2>4
<1>3. CASE Headers!Reset
  <2>1. loadPc \in {"failed", "reset length"} => UNCHANGED <<blockHashes, tried, store>>
    BY <1>3 DEF Headers!Reset, Headers!world
  <2>2. CASE loadPc = "reset hashes"
    <3>1. blockHashes' = <<>> /\ loadPc' = "start" /\ UNCHANGED <<chainLength, totalWork>>
      BY <1>3, <2>2 DEF Headers!Reset, Headers!Goto
    <3>2. chainLength = 0 /\ totalWork = 0
      BY <2>2 DEF CountersOK
    <3>3. Summed(blockHashes)' /\ Headers!WorkOf(blockHashes)' = 0
      BY <3>1, NothingSummed, SumsOfNextState
    <3>. QED  BY <3>1, <3>2, <3>3 DEF CountersOK, Headers!Labels
  <2>3. CASE loadPc # "reset hashes"
    <3>1. UNCHANGED blockHashes
      BY <1>3, <2>1, <2>3 DEF Headers!Reset
    <3>2. Summed(blockHashes)'
      BY <3>1, SumsOfNextState
    <3>3. CountersOK'
      BY <1>3, <2>3, <3>1 DEF Headers!Reset, Headers!Goto, CountersOK, Headers!Labels
    <3>. QED  BY <3>2, <3>3
  <2>. QED  BY <2>2, <2>3
<1>4. CASE Headers!SetLength \/ Headers!SetWork
  <2>1. blockHashes' = blockHashes
    BY <1>4 DEF Headers!SetLength, Headers!SetWork
  <2>2. /\ Summed(blockHashes)' /\ Headers!WorkOf(blockHashes)' = Headers!WorkOf(blockHashes)
        /\ Headers!LastHash' = Headers!LastHash
    BY <2>1, SumsOfNextState DEF Headers!LastHash
  <2>3. CASE Headers!SetLength
    BY <2>1, <2>2, <2>3 DEF Headers!SetLength, Headers!Goto, CountersOK, Headers!Labels
  <2>4. CASE Headers!SetWork
    <3>1. /\ loadPc = "work" /\ loadPc' = "headers" /\ chainLength' = chainLength
          /\ totalWork' = totalWork + HeaderWork[Headers!LastHash]
          /\ totalWork = Headers!WorkOf(blockHashes) - HeaderWork[Headers!LastHash]
          /\ chainLength = Len(blockHashes) /\ blockHashes # <<>>
      BY <2>4 DEF Headers!SetWork, Headers!Goto, CountersOK
    <3>2. Headers!LastHash \in Header
      BY <1>0, <3>1 DEF Headers!LastHash
    <3>3. totalWork' = Headers!WorkOf(blockHashes)
      BY <1>0, <3>1, <3>2
    <3>. QED  BY <2>1, <2>2, <3>1, <3>3 DEF CountersOK, Headers!Labels
  <2>. QED  BY <1>4, <2>3, <2>4
<1>5. CASE \/ Headers!Construct \/ Headers!Start \/ Headers!GetCurrentBlockCount
           \/ Headers!ReadRawHeaders
           \/ Headers!NextBatch \/ Headers!LoadEnds \/ Headers!Settle \/ UNCHANGED Headers!vars
  <2>1. UNCHANGED <<blockHashes, chainLength, totalWork, tried, store>>
  
      BY <1>5 DEF Headers!Construct, Headers!Start, Headers!GetCurrentBlockCount,
                  Headers!ReadRawHeaders, Headers!NextBatch, Headers!LoadEnds,
                Headers!Settle, Headers!vars, Headers!seen, Headers!world
  <2>2. Summed(blockHashes)' /\ Headers!WorkOf(blockHashes)' = Headers!WorkOf(blockHashes)
    BY <2>1, SumsOfNextState
  <2>3. \/ loadPc' = loadPc
        \/ /\ loadPc \in {"load", "fetch", "headers", "failed"} \/ (loadPc = "start" /\ ~Copying)
           /\ loadPc' \in {"load", "fetch", "headers", "failed", "start"}
  
      BY <1>5 DEF Headers!Construct, Headers!Start, Headers!GetCurrentBlockCount,
                  Headers!ReadRawHeaders, Headers!NextBatch, Headers!LoadEnds,
                Headers!Settle, Headers!vars, Headers!Goto, Copying
  <2>4. loadPc # "start" => ~Copying
    BY DEF HeadersInv, CopiesStore, Copying
  <2>5. Copying' <=> Copying
    BY <2>1 DEF Copying
  <2>6. Headers!LastHash' = Headers!LastHash
    BY <2>1 DEF Headers!LastHash
  <2>. QED  BY <2>1, <2>2, <2>3, <2>4, <2>5, <2>6 DEF CountersOK, Headers!Labels
<1>. QED  BY <1>1, <1>2, <1>3, <1>4, <1>5 DEF Headers!Next, Headers!Load

\* A reader without the lock never sees more of a peer's chain than is held of
\* it: length and work follow the hashes when they grow and precede them when
\* they are reset, and agree with them between batches.
THEOREM HeadersNotOverstated == Spec => []NeverOverstated
<1>1. Init => CountersInv
  <2>. SUFFICES ASSUME Init  PROVE CountersInv
    OBVIOUS
  <2>1. Summed(blockHashes) /\ Headers!WorkOf(blockHashes) = 0 /\ Len(blockHashes) = 0
    BY NothingSummed DEF Init, Headers!Init
  <2>. QED  BY <2>1, NetworkAssumption, HeadersStart
            DEF Init, Headers!Init, CountersInv, CountersOK, Headers!Labels
<1>2. CountersInv /\ [Next]_vars => CountersInv'
  BY NetworkAssumption, PartsStep, HeadersStepKeeps, CountersKept DEF CountersInv
<1>3. CountersInv => NeverOverstated
  <2>. SUFFICES ASSUME CountersInv  PROVE NeverOverstated
    OBVIOUS
  <2>1. /\ blockHashes \in Seq(Header) /\ Len(blockHashes) \in Nat
        /\ Headers!WorkOf(blockHashes) \in Nat
        /\ \A h \in Header : HeaderWork[h] \in Nat
    <3>1. blockHashes \in Seq(Header) /\ Len(blockHashes) \in Nat
      BY DEF CountersInv, HeadersInv, HeaderTypes
    <3>2. Headers!WorkOf(blockHashes) \in Nat
      BY DEF CountersInv, Summed
    <3>3. \A h \in Header : HeaderWork[h] \in Nat
      BY NetworkAssumption DEF Headers!HeaderAssumption
    <3>. QED  BY <3>1, <3>2, <3>3
  <2>2. blockHashes # <<>> => HeaderWork[Headers!LastHash] \in Nat
    BY <2>1 DEF Headers!LastHash
  <2>3. loadPc \in Headers!Labels
    BY DEF CountersInv, CountersOK
  <2>. DEFINE work == Headers!WorkOf(blockHashes)
              length == Len(blockHashes)
  <2>4. chainLength <= length /\ totalWork <= work
    <3>0. work \in Nat /\ length \in Nat
      BY <2>1
    <3>1. CASE loadPc \in {"load", "fetch", "headers", "failed"} \/ (loadPc = "start" /\ ~Copying)
      <4>1. chainLength = length /\ totalWork = work
        BY <3>1 DEF CountersInv, CountersOK
      <4>. HIDE DEF work, length
      <4>. QED  BY <3>0, <4>1
    <3>2. CASE loadPc \in {"length", "work"}
      <4>1. /\ totalWork = work - HeaderWork[Headers!LastHash]
            /\ chainLength \in {length, length - 1}
        BY <3>2 DEF CountersInv, CountersOK
      <4>2. HeaderWork[Headers!LastHash] \in Nat
        BY <2>2, <3>2 DEF CountersInv, CountersOK
      <4>. HIDE DEF work, length
      <4>. QED  BY <3>0, <4>1, <4>2
    <3>3. CASE loadPc \in {"reset length", "reset hashes"} \/ (loadPc = "start" /\ Copying)
      <4>1. totalWork = 0 /\ chainLength \in {0, length}
        BY <3>3 DEF CountersInv, CountersOK
      <4>. HIDE DEF work, length
      <4>. QED  BY <3>0, <4>1
    <3>. QED  BY <2>3, <3>1, <3>2, <3>3 DEF Headers!Labels
  <2>. QED  BY <2>4 DEF CountersInv, CountersOK, NeverOverstated, Headers!NeverOverstated
<1>. QED  BY <1>1, <1>2, <1>3, PTL DEF Spec
-----------------------------------------------------------------------------
(***************************************************************************)
(* The peers a node follows are hosts it knows, each once, none of them    *)
(* unwanted, and no more than it asked for: with sources and everyone      *)
(* welcome, or without and with a whitelist.                               *)
(***************************************************************************)

\* Who is welcome among those that announce themselves.
Wanted(h, wanted) == h \notin blacklist /\ (wanted = {} \/ h \in wanted)

\* Peers come in one way only: the server starts the headers' download before
\* there are any.
Vetted(known, wanted) ==
  /\ currPeers \in Seq(known)
  /\ ~started => currPeers = <<>>
  /\ Len(currPeers) <= MaxPeers
  /\ \A a, b \in 1 .. Len(currPeers) : currPeers[a] = currPeers[b] => a = b
  /\ \A n \in 1 .. Len(currPeers) : currPeers[n] \in hosts /\ Wanted(currPeers[n], wanted)

LEMMA AddPeerKeeps ==
  ASSUME NEW known, NEW wanted, NEW h \in known, MaxPeers \in Nat, Vetted(known, wanted),
         started, started' = started, h \notin hosts, Wanted(h, wanted), hosts' = hosts \cup {h},
         currPeers' = IF Len(currPeers) < MaxPeers THEN Append(currPeers, h) ELSE currPeers
  PROVE  Vetted(known, wanted)'
<1>1. CASE currPeers' = currPeers
  BY <1>1 DEF Vetted, Wanted
<1>2. CASE Len(currPeers) < MaxPeers /\ currPeers' = Append(currPeers, h)
  <2>1. /\ Len(currPeers) \in Nat
        /\ currPeers' \in Seq(known) /\ Len(currPeers') = Len(currPeers) + 1
        /\ \A n \in 1 .. Len(currPeers) : currPeers'[n] = currPeers[n]
        /\ currPeers'[Len(currPeers) + 1] = h
    BY <1>2 DEF Vetted
  <2>2. \A n \in 1 .. Len(currPeers) : currPeers[n] \in hosts /\ currPeers[n] # h
    BY DEF Vetted
  <2>3. Len(currPeers') <= MaxPeers  BY <1>2, <2>1
  <2>4. \A a, b \in 1 .. Len(currPeers') : currPeers'[a] = currPeers'[b] => a = b
    <3>. SUFFICES ASSUME NEW a \in 1 .. Len(currPeers'), NEW b \in 1 .. Len(currPeers'),
                         currPeers'[a] = currPeers'[b]
                  PROVE  a = b
      OBVIOUS
    <3>1. CASE a \in 1 .. Len(currPeers) /\ b \in 1 .. Len(currPeers)
      BY <2>1, <3>1 DEF Vetted
    <3>2. CASE a = Len(currPeers) + 1 /\ b \in 1 .. Len(currPeers)  BY <2>1, <2>2, <3>2
    <3>3. CASE b = Len(currPeers) + 1 /\ a \in 1 .. Len(currPeers)  BY <2>1, <2>2, <3>3
    <3>. QED  BY <2>1, <3>1, <3>2, <3>3
  <2>5. ASSUME NEW n \in 1 .. Len(currPeers')
        PROVE  currPeers'[n] \in hosts' /\ Wanted(currPeers'[n], wanted)
    <3>1. CASE n \in 1 .. Len(currPeers)  BY <2>1, <3>1 DEF Vetted
    <3>2. CASE n = Len(currPeers) + 1  BY <2>1, <3>2
    <3>. QED  BY <2>1, <3>1, <3>2
  <2>. QED  BY <2>1, <2>3, <2>4, <2>5 DEF Vetted, Wanted
<1>. QED  BY <1>1, <1>2

\* The rest leaves hosts and peers alone.
LEMMA PeersStay ==
  ASSUME NEW known, NEW wanted, Vetted(known, wanted), UNCHANGED <<hosts, currPeers>>,
         started' = started \/ currPeers = <<>>
  PROVE  Vetted(known, wanted)'
  BY DEF Vetted, Wanted

HostsInv == IF part = "hosts" THEN Vetted(Host, {}) ELSE Vetted(ListedHost, whitelist)

LEMMA HostsStart == ASSUME NetworkAssumption, Init PROVE HostsInv
<1>1. currPeers = <<>> /\ MaxPeers \in Nat
  BY DEF Init, Hosts!Init, Listed!Init, NetworkAssumption, Hosts!HostsAssumption
<1>. QED  BY <1>1 DEF HostsInv, Vetted

LEMMA HostsKeep == ASSUME NetworkAssumption, HostsInv, [Next]_vars PROVE HostsInv'
<1>1. part' = part /\ MaxPeers \in Nat
  BY PartsStep DEF NetworkAssumption, Hosts!HostsAssumption
<1>2. CASE part = "hosts"
  <2>1. Vetted(Host, {}) /\ [Hosts!Next]_Hosts!vars
    BY <1>2, PartsStep DEF HostsInv
  <2>2. ASSUME NEW h \in Host, Hosts!AddPeer(h)  PROVE Vetted(Host, {})'
    BY <1>1, <2>1, <2>2, AddPeerKeeps DEF Hosts!AddPeer, Hosts!Welcome, Wanted
  <2>3. ASSUME \/ Hosts!SyncHeadersWithPeers \/ Hosts!Tick \/ UNCHANGED Hosts!vars
               \/ \E h \in Host, c \in Offset : Hosts!PingOfKnownHost(h, c)
        PROVE  Vetted(Host, {})'
    <3>1. UNCHANGED <<hosts, currPeers>> /\ (started' = started \/ currPeers = <<>>)
      BY <2>1, <2>3 DEF Hosts!SyncHeadersWithPeers, Hosts!Tick, Hosts!vars,
                        Hosts!PingOfKnownHost, Vetted
    <3>. QED  BY <2>1, <3>1, PeersStay
  <2>. QED  BY <1>1, <1>2, <2>1, <2>2, <2>3 DEF HostsInv, Hosts!Next
<1>3. CASE part # "hosts"
  <2>1. Vetted(ListedHost, whitelist) /\ [Listed!Next]_Listed!vars
    BY <1>3, PartsStep DEF HostsInv
  <2>2. ASSUME NEW h \in ListedHost, Listed!AddPeer(h)  PROVE Vetted(ListedHost, whitelist)'
    BY <1>1, <2>1, <2>2, AddPeerKeeps DEF Listed!AddPeer, Listed!Welcome, Wanted
  <2>3. ASSUME \/ Listed!SyncHeadersWithPeers \/ Listed!Tick \/ UNCHANGED Listed!vars
               \/ \E h \in ListedHost, c \in Offset : Listed!PingOfKnownHost(h, c)
        PROVE  Vetted(ListedHost, whitelist)'
    <3>1. UNCHANGED <<hosts, currPeers>> /\ (started' = started \/ currPeers = <<>>)
      BY <2>1, <2>3 DEF Listed!SyncHeadersWithPeers, Listed!Tick, Listed!vars,
                        Listed!PingOfKnownHost, Vetted
    <3>. QED  BY <2>1, <3>1, PeersStay
  <2>. QED  BY <1>1, <1>3, <2>1, <2>2, <2>3 DEF HostsInv, Listed!Next
<1>. QED  BY <1>2, <1>3

\* HostManager::addPeer: whoever announces which hosts, and in whatever order,
\* the peers are wanted, known, distinct and few enough.
THEOREM PeersAreVetted == Spec => []PeersVetted
<1>1. Init => HostsInv  BY NetworkAssumption, HostsStart
<1>2. HostsInv /\ [Next]_vars => HostsInv'  BY NetworkAssumption, HostsKeep
<1>3. HostsInv => PeersVetted
  <2>1. ASSUME NEW known, NEW wanted, Vetted(known, wanted)
        PROVE  /\ Len(currPeers) <= MaxPeers /\ DOMAIN currPeers = 1 .. Len(currPeers)
               /\ \A a, b \in DOMAIN currPeers : currPeers[a] = currPeers[b] => a = b
               /\ \A n \in DOMAIN currPeers :
                     /\ currPeers[n] \in hosts \ blacklist
                     /\ wanted # {} => currPeers[n] \in wanted
    BY <2>1 DEF Vetted, Wanted
  <2>2. CASE part = "hosts"
    BY <2>1, <2>2 DEF HostsInv, PeersVetted, Hosts!PeersVetted, Hosts!IsInjective
  <2>3. CASE part # "hosts"
    BY <2>1, <2>3 DEF HostsInv, PeersVetted, Listed!PeersVetted, Listed!IsInjective
  <2>. QED  BY <2>2, <2>3
<1>. QED  BY <1>1, <1>2, <1>3, PTL DEF Spec

-----------------------------------------------------------------------------
(***************************************************************************)
(* The network's time.                                                     *)
(***************************************************************************)

\* A set of natural numbers that is not empty has a least one.
LEMMA Least ==
  ASSUME NEW S \in SUBSET Nat, S # {}
  PROVE  \E m \in S : \A n \in S : m <= n
<1>. DEFINE Lt == {ss \in Nat \X Nat : ss[1] < ss[2]}
<1>1. IsWellFoundedOn(Lt, Nat)
  BY NatLessThanWellFounded DEF OpToRel
<1>2. PICK m \in S : \A n \in S : ~(<<n, m>> \in Lt)
  <2>. HIDE DEF Lt
  <2>. QED  BY <1>1, WFMin
<1>3. \A n \in S : m \in Nat /\ n \in Nat /\ ~(n < m)
  BY <1>2
<1>. QED  BY <1>3

\* The hosts whose clocks are below x, and those whose clocks are not above it.
Under(f, of, x) == {h \in of : f[h] < x}
UpTo(f, of, x)  == {h \in of : f[h] <= x}

LEMMA CountsOfClocks ==
  ASSUME NEW f, NEW of, IsFiniteSet(of), NEW x
  PROVE  /\ IsFiniteSet(Under(f, of, x)) /\ Cardinality(Under(f, of, x)) \in Nat
         /\ IsFiniteSet(UpTo(f, of, x)) /\ Cardinality(UpTo(f, of, x)) \in 0 .. Cardinality(of)
         /\ Cardinality(of) \in Nat
<1>1. Under(f, of, x) \subseteq of /\ UpTo(f, of, x) \subseteq of
  BY DEF Under, UpTo
<1>2. \A S : S \subseteq of => IsFiniteSet(S) /\ Cardinality(S) <= Cardinality(of)
  BY FS_Subset
<1>3. \A S : IsFiniteSet(S) => Cardinality(S) \in Nat
  BY FS_CardinalityType
<1>. QED  BY <1>1, <1>2, <1>3

\* More hosts are up to a later clock.
LEMMA LaterClock ==
  ASSUME NEW f, NEW of, IsFiniteSet(of), \A h \in of : f[h] \in Int,
         NEW g \in of, NEW x \in Int, x < f[g]
  PROVE  Cardinality(UpTo(f, of, x)) < Cardinality(UpTo(f, of, f[g]))
<1>. DEFINE S == UpTo(f, of, x)
            T == UpTo(f, of, f[g])
<1>1. S \subseteq T /\ g \in T /\ g \notin S
  BY DEF UpTo
<1>2. IsFiniteSet(T) /\ Cardinality(T) \in Nat /\ Cardinality(S) \in Nat
  BY CountsOfClocks
<1>. HIDE DEF S, T
<1>3. Cardinality(S) <= Cardinality(T) /\ (Cardinality(S) = Cardinality(T) => T = S)
  BY <1>1, <1>2, FS_Subset
<1>4. T # S
  BY <1>1
<1>5. Cardinality(S) < Cardinality(T)
  BY <1>2, <1>3, <1>4
<1>. QED  BY <1>5 DEF S, T

\* One of the hosts has the latest clock.
LEMMA LatestClock ==
  ASSUME NEW f, NEW of, IsFiniteSet(of), of # {}, \A h \in of : f[h] \in Int
  PROVE  \E h \in of : \A g \in of : f[g] <= f[h]
<1>. DEFINE count(h) == Cardinality(UpTo(f, of, f[h]))
            S == {r \in Nat : \E h \in of : r = Cardinality(of) - count(h)}
<1>1. \A h \in of : count(h) \in 0 .. Cardinality(of) /\ Cardinality(of) \in Nat
  BY CountsOfClocks
<1>2. \A h, g \in of : f[h] < f[g] => count(h) < count(g)
  BY LaterClock
<1>. HIDE DEF count
<1>3. \A h \in of : Cardinality(of) - count(h) \in Nat
  BY <1>1
<1>4. S # {} /\ S \subseteq Nat
  BY <1>3
<1>5. PICK m \in S : \A n \in S : m <= n
  <2>. HIDE DEF S
  <2>. QED  BY <1>4, Least
<1>6. PICK h \in of : m = Cardinality(of) - count(h)
  BY <1>5
<1>7. ASSUME NEW g \in of  PROVE f[g] <= f[h]
  <2>1. Cardinality(of) - count(g) \in S
    BY <1>3
  <2>2. m <= Cardinality(of) - count(g)
    BY <1>5, <2>1
  <2>3. ~(count(h) < count(g))
    BY <1>1, <1>6, <2>2
  <2>4. ~(f[h] < f[g])
    BY <1>2, <2>3
  <2>. QED  BY <2>4
<1>. QED  BY <1>7

\* x is the nth of the clocks in their order.
IsNth(f, of, n, x) ==
  Cardinality(Under(f, of, x)) < n /\ n <= Cardinality(UpTo(f, of, x))

\* There is an nth clock for every n up to their number.
LEMMA NthClock ==
  ASSUME NEW f, NEW of, IsFiniteSet(of), \A h \in of : f[h] \in Int,
         NEW n \in 1 .. Cardinality(of)
  PROVE  \E h \in of : IsNth(f, of, n, f[h])
<1>. DEFINE count(h) == Cardinality(UpTo(f, of, f[h]))
            S == {r \in Nat : n <= r /\ \E h \in of : r = count(h)}
<1>1. \A h \in of : count(h) \in Nat
  BY CountsOfClocks
<1>2. \A h, g \in of : f[g] < f[h] => count(g) < count(h)
  BY LaterClock
<1>3. Cardinality(of) \in Nat /\ of # {}
  <2>1. Cardinality(of) \in Nat  BY FS_CardinalityType
  <2>. QED  BY <2>1, FS_EmptySet
<1>4. \E h \in of : count(h) = Cardinality(of)
  <2>1. PICK h \in of : \A g \in of : f[g] <= f[h]
    BY <1>3, LatestClock
  <2>2. UpTo(f, of, f[h]) = of
    BY <2>1 DEF UpTo
  <2>. QED  BY <2>2
<1>. HIDE DEF count
<1>5. S # {} /\ S \subseteq Nat
  BY <1>3, <1>4
<1>6. PICK m \in S : \A r \in S : m <= r
  <2>. HIDE DEF S
  <2>. QED  BY <1>5, Least
<1>7. PICK h \in of : m = count(h) /\ n <= m
  BY <1>6
<1>8. Cardinality(Under(f, of, f[h])) < n
  <2>. DEFINE below == Under(f, of, f[h])
  <2>. SUFFICES ASSUME n <= Cardinality(below)  PROVE FALSE
    BY CountsOfClocks
  <2>1. /\ IsFiniteSet(below) /\ Cardinality(below) \in Nat
        /\ below \subseteq of /\ \A g \in below : f[g] < f[h]
    BY CountsOfClocks DEF Under
  <2>. HIDE DEF below
  <2>2. below # {}
    BY <2>1, FS_EmptySet
  <2>3. PICK g \in below : \A e \in below : f[e] <= f[g]
    BY <2>1, <2>2, LatestClock
  <2>4. below \subseteq UpTo(f, of, f[g])
    BY <2>1, <2>3 DEF UpTo
  <2>5. IsFiniteSet(UpTo(f, of, f[g]))
    BY CountsOfClocks
  <2>6. Cardinality(below) <= count(g)
    BY <2>4, <2>5, FS_Subset DEF count
  <2>7. count(g) \in S
    BY <1>1, <2>1, <2>3, <2>6
  <2>8. count(g) < count(h)
    BY <1>2, <2>1, <2>3
  <2>. QED  BY <1>1, <1>6, <1>7, <2>1, <2>3, <2>7, <2>8
<1>9. n <= Cardinality(UpTo(f, of, f[h]))
  BY <1>7 DEF count
<1>. QED  BY <1>8, <1>9 DEF IsNth

\* The clocks in the middle are in a range that most of the clocks are in.
LEMMA MiddleOfMost ==
  ASSUME NEW f, NEW of, IsFiniteSet(of), \A h \in of : f[h] \in Int,
         NEW lo \in Int, NEW hi \in Int, NEW most,
         most = {h \in of : lo <= f[h] /\ f[h] <= hi},
         NEW n \in Nat, n <= Cardinality(most), Cardinality(of) < n + Cardinality(most),
         NEW x \in Int, IsNth(f, of, n, x)
  PROVE  lo <= x /\ x <= hi
<1>1. most \subseteq of
  OBVIOUS
<1>2. IsFiniteSet(most) /\ Cardinality(most) \in Nat /\ Cardinality(of) \in Nat
  BY <1>1, FS_Subset, FS_CardinalityType
<1>3. ~(x < lo)
  <2>. SUFFICES ASSUME x < lo  PROVE FALSE
    OBVIOUS
  <2>. DEFINE S == UpTo(f, of, x)
  <2>1. S \cap most = {} /\ S \cup most \subseteq of
    BY DEF UpTo
  <2>2. IsFiniteSet(S) /\ Cardinality(S) \in Nat /\ n <= Cardinality(S)
    BY CountsOfClocks DEF IsNth
  <2>. HIDE DEF S
  <2>3. Cardinality(S \cup most) = Cardinality(S) + Cardinality(most)
    <3>1. Cardinality(S \cup most) = Cardinality(S) + Cardinality(most) - Cardinality(S \cap most)
      BY <1>2, <2>2, FS_Union
    <3>. QED  BY <1>2, <2>1, <2>2, <3>1, FS_EmptySet
  <2>4. Cardinality(S \cup most) <= Cardinality(of)
    BY <2>1, FS_Subset
  <2>. QED  BY <1>2, <2>2, <2>3, <2>4
<1>4. ~(hi < x)
  <2>. SUFFICES ASSUME hi < x  PROVE FALSE
    OBVIOUS
  <2>1. most \subseteq Under(f, of, x)
    BY DEF Under
  <2>2. IsFiniteSet(Under(f, of, x)) /\ Cardinality(Under(f, of, x)) \in Nat
    BY CountsOfClocks
  <2>3. Cardinality(most) <= Cardinality(Under(f, of, x))
    BY <2>1, <2>2, FS_Subset
  <2>. QED  BY <1>2, <2>2, <2>3 DEF IsNth
<1>. QED  BY <1>3, <1>4

\* Clocks are numbers, of finitely many hosts, which have pinged.
ClocksInv ==
  /\ now \in Nat
  /\ IsFiniteSet(DOMAIN peerClockDeltas)
  /\ DOMAIN peerClockDeltas \subseteq DOMAIN hostPingTimes
  /\ \A h \in DOMAIN peerClockDeltas : peerClockDeltas[h] \in Int

LEMMA ClocksStart == ASSUME Init PROVE ClocksInv
<1>1. now = 0 /\ \A h \in DOMAIN peerClockDeltas : peerClockDeltas[h] = 0
  BY DEF Init, Hosts!Init, Listed!Init
<1>2. DOMAIN peerClockDeltas \in {{}, {Localhost}} /\ DOMAIN peerClockDeltas \subseteq DOMAIN hostPingTimes
  BY DEF Init, Hosts!Init, Listed!Init
<1>3. IsFiniteSet({}) /\ IsFiniteSet({Localhost})
  BY FS_EmptySet, FS_Singleton
<1>4. IsFiniteSet(DOMAIN peerClockDeltas)
  BY <1>2, <1>3
<1>. QED  BY <1>1, <1>2, <1>4 DEF ClocksInv

LEMMA PingKeepsClocks ==
  ASSUME ClocksInv, now' = now, NEW h, NEW d \in Int,
         DOMAIN hostPingTimes' = DOMAIN hostPingTimes \cup {h},
         peerClockDeltas' = [g \in DOMAIN peerClockDeltas \cup {h} |->
                               IF g = h THEN d ELSE peerClockDeltas[g]]
  PROVE  ClocksInv'
<1>1. IsFiniteSet(DOMAIN peerClockDeltas')
  BY FS_AddElement DEF ClocksInv
<1>2. \A g \in DOMAIN peerClockDeltas' : peerClockDeltas'[g] \in Int
  BY DEF ClocksInv
<1>. QED  BY <1>1, <1>2 DEF ClocksInv

LEMMA ClocksKeep == ASSUME NetworkAssumption, ClocksInv, [Next]_vars PROVE ClocksInv'
<1>1. \A c \in Offset : now - (now + c) \in Int
  BY DEF NetworkAssumption, Hosts!HostsAssumption, ClocksInv
<1>2. ASSUME UNCHANGED <<hostPingTimes, peerClockDeltas>>, now' = now \/ now' = now + 1
      PROVE  ClocksInv'
  BY <1>2 DEF ClocksInv
<1>3. CASE part = "hosts"
  <2>1. [Hosts!Next]_Hosts!vars
    BY <1>3, PartsStep
  <2>2. ASSUME NEW h \in Host, NEW c \in Offset, Hosts!PingOfKnownHost(h, c)  PROVE ClocksInv'
    BY <1>1, <2>2, PingKeepsClocks DEF Hosts!PingOfKnownHost, Hosts!Put
  <2>3. ASSUME \/ Hosts!SyncHeadersWithPeers \/ Hosts!Tick \/ UNCHANGED Hosts!vars
               \/ \E h \in Host : Hosts!AddPeer(h)
        PROVE  ClocksInv'
    BY <1>2, <2>3 DEF Hosts!SyncHeadersWithPeers, Hosts!Tick, Hosts!vars, Hosts!AddPeer
  <2>. QED  BY <2>1, <2>2, <2>3 DEF Hosts!Next
<1>4. CASE part # "hosts"
  <2>1. [Listed!Next]_Listed!vars
    BY <1>4, PartsStep
  <2>2. ASSUME NEW h \in ListedHost, NEW c \in Offset, Listed!PingOfKnownHost(h, c)  PROVE ClocksInv'
    BY <1>1, <2>2, PingKeepsClocks DEF Listed!PingOfKnownHost, Listed!Put
  <2>3. ASSUME \/ Listed!SyncHeadersWithPeers \/ Listed!Tick \/ UNCHANGED Listed!vars
               \/ \E h \in ListedHost : Listed!AddPeer(h)
        PROVE  ClocksInv'
    BY <1>2, <2>3 DEF Listed!SyncHeadersWithPeers, Listed!Tick, Listed!vars, Listed!AddPeer
  <2>. QED  BY <2>1, <2>2, <2>3 DEF Listed!Next
<1>. QED  BY <1>3, <1>4

\* The sorted clocks are as many as the hosts, and in the nth place is the nth.
LEMMA ClocksSorted ==
  ASSUME NEW of, IsFiniteSet(of), \A h \in of : peerClockDeltas[h] \in Int
  PROVE  LET ds == Hosts!SortedDeltas(of)
         IN  /\ Len(ds) = Cardinality(of)
             /\ \A n \in 1 .. Cardinality(of) : ds[n] \in Int /\ IsNth(peerClockDeltas, of, n, ds[n])
<1>. DEFINE nth(n) == CHOOSE d \in {peerClockDeltas[h] : h \in of} : IsNth(peerClockDeltas, of, n, d)
            N == Cardinality(of)
            s == [n \in 1 .. N |-> nth(n)]
<1>1. N \in Nat
  BY FS_CardinalityType
<1>2. Hosts!SortedDeltas(of) = s
  BY DEF Hosts!SortedDeltas, IsNth, Under, UpTo, Hosts!Cardinality, Cardinality
<1>3. ASSUME NEW n \in 1 .. N
      PROVE  nth(n) \in {peerClockDeltas[h] : h \in of} /\ IsNth(peerClockDeltas, of, n, nth(n))
  <2>1. \E d \in {peerClockDeltas[h] : h \in of} : IsNth(peerClockDeltas, of, n, d)
    BY NthClock
  <2>. QED  BY <2>1
<1>. HIDE DEF nth, N
<1>4. s \in Seq({peerClockDeltas[h] : h \in of}) /\ DOMAIN s = 1 .. N
  BY <1>1, <1>3
<1>5. Len(s) = N
  BY <1>1, <1>4
<1>6. \A n \in 1 .. N : s[n] = nth(n)
  OBVIOUS
<1>. HIDE DEF s
<1>. QED  BY <1>2, <1>3, <1>5, <1>6 DEF N

\* The network's time is in the range of most of the clocks that count, mirrored
\* at the node's own clock, for every number of hosts, of those that are wrong,
\* and by however much.
THEOREM ClocksAreMirrored == Spec => []MajorityMirrored
<1>1. Init => ClocksInv  BY ClocksStart
<1>2. ClocksInv /\ [Next]_vars => ClocksInv'  BY NetworkAssumption, ClocksKeep
<1>3. ASSUME ClocksInv, NEW lo \in Int, NEW hi \in Int, NEW voting, NEW most,
             voting = {h \in DOMAIN peerClockDeltas : now - hostPingTimes[h] < Freshness},
             most = {h \in voting : lo <= peerClockDeltas[h] /\ peerClockDeltas[h] <= hi},
             2 * Cardinality(most) > Cardinality(voting)
      PROVE  now + lo <= Hosts!NetworkTimestamp /\ Hosts!NetworkTimestamp <= now + hi
  <2>. DEFINE ds == Hosts!SortedDeltas(voting)
              m  == Cardinality(voting) \div 2
  <2>0. lo \in Int /\ hi \in Int /\ now \in Nat
    BY <1>3 DEF ClocksInv
  <2>1. voting = Hosts!Fresh \cap DOMAIN peerClockDeltas
    BY <1>3 DEF Hosts!Fresh, ClocksInv
  <2>2. IsFiniteSet(voting) /\ \A h \in voting : peerClockDeltas[h] \in Int
    BY <1>3, FS_Subset DEF ClocksInv
  <2>3. IsFiniteSet(most) /\ Cardinality(voting) \in Nat /\ Cardinality(most) \in 0 .. Cardinality(voting)
    BY <1>3, <2>2, FS_Subset, FS_CardinalityType
  <2>4. voting # {}
    BY <1>3, <2>3, FS_EmptySet
  <2>5. Hosts!NetworkTimestamp = now + Hosts!ClockMedian(ds)
    BY <2>1, <2>4 DEF Hosts!NetworkTimestamp
  <2>6. /\ Len(ds) = Cardinality(voting)
        /\ \A n \in 1 .. Cardinality(voting) : ds[n] \in Int /\ IsNth(peerClockDeltas, voting, n, ds[n])
    BY <2>2, ClocksSorted
  <2>. HIDE DEF ds
  <2>7. ASSUME NEW n \in 1 .. Cardinality(voting), n <= Cardinality(most),
               Cardinality(voting) < n + Cardinality(most)
        PROVE  ds[n] \in Int /\ lo <= ds[n] /\ ds[n] <= hi
    <3>1. n \in Nat /\ ds[n] \in Int /\ IsNth(peerClockDeltas, voting, n, ds[n])
      BY <2>3, <2>6, <2>7
    <3>. QED  BY <1>3, <2>0, <2>2, <2>7, <3>1, MiddleOfMost
  <2>8. CASE Cardinality(voting) % 2 = 1
    <3>1. ds[m + 1] \in Int /\ lo <= ds[m + 1] /\ ds[m + 1] <= hi
      BY <1>3, <2>3, <2>7, <2>8
    <3>2. Hosts!ClockMedian(ds) = ds[m + 1]
      BY <2>6, <2>8 DEF Hosts!ClockMedian
    <3>. QED  BY <2>0, <2>5, <3>1, <3>2
  <2>9. CASE Cardinality(voting) % 2 = 0
    <3>1. /\ m \in 1 .. Cardinality(voting) /\ m <= Cardinality(most)
          /\ Cardinality(voting) < m + Cardinality(most)
          /\ m + 1 \in 1 .. Cardinality(voting) /\ m + 1 <= Cardinality(most)
          /\ Cardinality(voting) < m + 1 + Cardinality(most)
      BY <1>3, <2>3, <2>9
    <3>2. /\ ds[m] \in Int /\ lo <= ds[m] /\ ds[m] <= hi
          /\ ds[m + 1] \in Int /\ lo <= ds[m + 1] /\ ds[m + 1] <= hi
      BY <2>7, <3>1
    <3>3. Hosts!ClockMedian(ds) = Hosts!Half(ds[m + 1] + ds[m])
      BY <2>6, <2>9 DEF Hosts!ClockMedian
    <3>. HIDE DEF m
    <3>4. \A a, b \in Int : lo <= a /\ a <= hi /\ lo <= b /\ b <= hi =>
            Hosts!Half(a + b) \in Int /\ lo <= Hosts!Half(a + b) /\ Hosts!Half(a + b) <= hi
      BY <2>0 DEF Hosts!Half
    <3>. QED  BY <2>0, <2>5, <3>2, <3>3, <3>4
  <2>. QED  BY <2>3, <2>8, <2>9
<1>4. ClocksInv => MajorityMirrored
  <2>. SUFFICES ASSUME ClocksInv  PROVE Hosts!MajorityMirrored
    BY DEF MajorityMirrored
  <2>. DEFINE voting == {h \in DOMAIN peerClockDeltas : now - hostPingTimes[h] < Freshness}
              within(lo, hi) == {h \in voting : now + lo <= Hosts!Clock(h) /\ Hosts!Clock(h) <= now + hi}
              deltas(lo, hi) == {h \in voting : lo <= peerClockDeltas[h] /\ peerClockDeltas[h] <= hi}
  <2>1. ASSUME NEW lo \in Offset, NEW hi \in Offset,
               2 * Cardinality(within(lo, hi)) > Cardinality(voting)
        PROVE  now - hi <= Hosts!NetworkTimestamp /\ Hosts!NetworkTimestamp <= now - lo
    <3>1. now \in Nat /\ lo \in Int /\ hi \in Int
      BY NetworkAssumption DEF NetworkAssumption, Hosts!HostsAssumption, ClocksInv
    <3>2. PICK a \in Int, b \in Int : a = -hi /\ b = -lo /\ now + a = now - hi /\ now + b = now - lo
      BY <3>1
    <3>3. ASSUME NEW h \in voting
          PROVE  now + lo <= Hosts!Clock(h) /\ Hosts!Clock(h) <= now + hi
                 <=> a <= peerClockDeltas[h] /\ peerClockDeltas[h] <= b
      <4>1. peerClockDeltas[h] \in Int
        BY DEF ClocksInv
      <4>. QED  BY <3>1, <3>2, <4>1 DEF Hosts!Clock
    <3>4. within(lo, hi) = deltas(a, b)
      BY <3>3
    <3>5. 2 * Cardinality(deltas(a, b)) > Cardinality(voting)
      BY <2>1, <3>4
    <3>6. now + a <= Hosts!NetworkTimestamp /\ Hosts!NetworkTimestamp <= now + b
      BY <1>3, <3>5
    <3>. QED  BY <3>2, <3>6
  <2>2. \A S : Hosts!Cardinality(S) = Cardinality(S)
    BY DEF Hosts!Cardinality, Cardinality
  <2>. HIDE DEF within
  <2>. QED  BY <2>1, <2>2 DEF Hosts!MajorityMirrored, within
<1>. QED  BY <1>1, <1>2, <1>4, PTL DEF Spec

=============================================================================
