--------------------------- MODULE AlgorithmProofs ---------------------------
(***************************************************************************)
(* What holds of the node's pure functions for arguments of every size.    *)
(***************************************************************************)
EXTENDS Algorithms, SequenceTheorems, FiniteSetTheorems, TLAPS

LEMMA PartsStep ==
  ASSUME [Next]_vars
  PROVE  [Loop!Next]_Loop!vars /\ [Tree!Next]_Tree!vars /\ [Wired!Next]_Wired!vars
<1>. USE DEF vars, loopVars, treeVars, wireVars, Loop!vars, Loop!args, Tree!vars, Wired!vars
<1>1. CASE UNCHANGED vars  BY <1>1
<1>2. CASE Next  BY <1>2 DEF Next
<1>. QED  BY <1>1, <1>2

-----------------------------------------------------------------------------
(***************************************************************************)
(* The forms of a transaction.                                             *)
(***************************************************************************)

\* x, with another sender and another nonce.
With(x, f, n) ==
  [isFee |-> x.isFee, terms |-> x.terms, from |-> f, key |-> x.key, nonce |-> n,
   signature |-> x.signature]

\* A payment is signed over some sender and some terms and the nonce 0, which it
\* has; a fee has no sender.
SentOK ==
  /\ sent = With(sent, sent.from, sent.nonce)
  /\ sent.isFee \in BOOLEAN
  /\ sent.isFee => sent.from = None
  /\ ~sent.isFee =>
       /\ sent.key \in Key /\ sent.from \in Wallet /\ sent.nonce = 0
       /\ \E w, m : sent.signature = [by |-> sent.key, over |-> <<w, m, 0>>]

\* What a form holds differs from what was sent in the nonce and in the sender,
\* who is the one that was sent or the key's owner; a buffer has none.
HeldOK ==
  /\ form \in {"object", "info", "buffer", "json"}
  /\ t = With(sent, t.from, t.nonce)
  /\ IF sent.isFee \/ form = "buffer" THEN t.from = None
     ELSE t.from \in {sent.from, WalletOf[sent.key]}

WireInv == SentOK /\ HeldOK

LEMMA WireStarts == ASSUME Wired!WireAssumption, Wired!Init PROVE WireInv
<1>0. form = "object" /\ t = sent
  BY DEF Wired!Init
<1>1. ASSUME NEW m \in Terms, NEW n \in Nonce,
             sent = [isFee |-> TRUE, terms |-> m, from |-> None, key |-> None, nonce |-> n,
                     signature |-> None]
      PROVE  WireInv
  BY <1>0, <1>1 DEF WireInv, SentOK, HeldOK, With
<1>2. ASSUME NEW p \in Wired!Payments
      PROVE  \E m \in Terms, w \in Wallet, key \in Key :
               p = [isFee |-> FALSE, terms |-> m, from |-> w, key |-> key, nonce |-> 0,
                    signature |-> [by |-> key, over |-> <<w, m, 0>>]]
  <2>. DEFINE Made(m, w, key) ==
                Wired!Signed([isFee |-> FALSE, terms |-> m, from |-> w, key |-> key, nonce |-> 0,
                              signature |-> None])
  <2>0. Wired!Payments = {Made(m, w, key) : m \in Terms, w \in Wallet, key \in Key}
    BY DEF Wired!Payments
  <2>. HIDE DEF Made
  <2>1. PICK m \in Terms, w \in Wallet, key \in Key : p = Made(m, w, key)
    BY <2>0
  <2>2. p = [isFee |-> FALSE, terms |-> m, from |-> w, key |-> key, nonce |-> 0,
             signature |-> [by |-> key, over |-> <<w, m, 0>>]]
    BY <2>1 DEF Made, Wired!Signed, Wired!hashContents
  <2>. QED  BY <2>2
<1>3. ASSUME NEW m, NEW v \in Terms, NEW w, NEW u \in Wallet, NEW key \in Key,
             sent = [isFee |-> FALSE, terms |-> v, from |-> u, key |-> key, nonce |-> 0,
                     signature |-> [by |-> key, over |-> <<w, m, 0>>]]
      PROVE  WireInv
  <2>1. /\ sent.isFee = FALSE /\ sent.terms = v /\ sent.from = u /\ sent.key = key
        /\ sent.nonce = 0 /\ sent.signature = [by |-> sent.key, over |-> <<w, m, 0>>]
    BY <1>3
  <2>2. sent = With(sent, sent.from, sent.nonce)
    BY <1>3, <2>1 DEF With
  <2>3. SentOK
    BY <2>1, <2>2 DEF SentOK
  <2>. QED  BY <1>0, <2>1, <2>2, <2>3 DEF WireInv, HeldOK
<1>4. CASE sent \in Wired!Payments
  BY <1>2, <1>3, <1>4
<1>5. CASE sent \in Wired!Changed
  <2>1. ASSUME NEW p \in Wired!Payments, NEW v \in Terms, sent = [p EXCEPT !.terms = v]
        PROVE  WireInv
    <3>1. PICK m \in Terms, w \in Wallet, key \in Key :
            p = [isFee |-> FALSE, terms |-> m, from |-> w, key |-> key, nonce |-> 0,
                 signature |-> [by |-> key, over |-> <<w, m, 0>>]]
      BY <1>2
    <3>2. sent = [isFee |-> FALSE, terms |-> v, from |-> w, key |-> key, nonce |-> 0,
                  signature |-> [by |-> key, over |-> <<w, m, 0>>]]
      BY <2>1, <3>1
    <3>. QED  BY <1>3, <3>2
  <2>2. ASSUME NEW p \in Wired!Payments, NEW u \in Wallet, sent = [p EXCEPT !.from = u]
        PROVE  WireInv
    <3>1. PICK m \in Terms, w \in Wallet, key \in Key :
            p = [isFee |-> FALSE, terms |-> m, from |-> w, key |-> key, nonce |-> 0,
                 signature |-> [by |-> key, over |-> <<w, m, 0>>]]
      BY <1>2
    <3>2. sent = [isFee |-> FALSE, terms |-> m, from |-> u, key |-> key, nonce |-> 0,
                  signature |-> [by |-> key, over |-> <<w, m, 0>>]]
      BY <2>2, <3>1
    <3>. QED  BY <1>3, <3>2
  <2>. QED  BY <1>5, <2>1, <2>2 DEF Wired!Changed
<1>6. CASE sent \in Wired!FeeTransactions
  BY <1>1, <1>6 DEF Wired!FeeTransactions
<1>. QED  BY <1>4, <1>5, <1>6 DEF Wired!Init

\* Each conversion sets the nonce or the sender, and the flag of a fee to what it is.
LEMMA WireKeeps == ASSUME Wired!WireAssumption, WireInv, [Wired!Next]_Wired!vars PROVE WireInv'
<1>. DEFINE To(l, f, n) == form' = l /\ t' = With(sent, f, n) /\ sent' = sent
<1>1. ASSUME NEW l \in {"object", "info", "json"}, NEW n, form # "buffer", To(l, t.from, n)
      PROVE  WireInv'
  BY <1>1 DEF WireInv, SentOK, HeldOK, With
<1>2. Wired!Copy \/ Wired!serialize \/ Wired!FromInfo \/ Wired!toJson => WireInv'
  BY <1>1 DEF Wired!Copy, Wired!serialize, Wired!FromInfo, Wired!toJson, Wired!Becomes, WireInv,
              HeldOK, With
<1>3. ASSUME Wired!FromJson  PROVE WireInv'
  <2>1. PICK n \in Nonce :
          /\ form = "json" /\ form' = "object" /\ sent' = sent
          /\ t' = [t EXCEPT !.nonce = n, !.isFee = (t.from = None)]
    BY <1>3 DEF Wired!FromJson, Wired!Becomes
  <2>2. t = With(sent, t.from, t.nonce)
    BY DEF WireInv, HeldOK
  <2>3. sent.isFee = (t.from = None)
    <3>1. CASE sent.isFee
      BY <3>1 DEF WireInv, HeldOK
    <3>2. CASE ~sent.isFee
      <4>1. t.from \in {sent.from, WalletOf[sent.key]} /\ sent.from \in Wallet
        BY <2>1, <3>2 DEF WireInv, SentOK, HeldOK
      <4>2. WalletOf[sent.key] \in Wallet /\ None \notin Wallet
        BY <3>2 DEF WireInv, SentOK, Wired!WireAssumption
      <4>. QED  BY <3>2, <4>1, <4>2 DEF WireInv, SentOK
    <3>. QED  BY <3>1, <3>2
  <2>4. t' = [With(sent, t.from, t.nonce) EXCEPT !.nonce = n, !.isFee = sent.isFee]
    BY <2>1, <2>2, <2>3
  <2>5. t' = With(sent, t.from, n)
    BY <2>4 DEF With
  <2>. QED  BY <1>1, <2>1, <2>5
<1>4. Wired!transactionInfoToBuffer => WireInv'
  BY DEF Wired!transactionInfoToBuffer, Wired!Becomes, WireInv, SentOK, HeldOK, With
<1>5. Wired!transactionInfoFromBuffer => WireInv'
  BY DEF Wired!transactionInfoFromBuffer, Wired!Becomes, WireInv, SentOK, HeldOK, With
<1>6. UNCHANGED Wired!vars => WireInv'
  BY DEF Wired!vars, WireInv, SentOK, HeldOK, With
<1>. QED  BY <1>2, <1>3, <1>4, <1>5, <1>6 DEF Wired!Next

LEMMA WireInvHolds == Spec => []WireInv
<1>1. Init => WireInv
  BY WireStarts, AlgorithmsAssumption DEF Init
<1>2. WireInv /\ [Next]_vars => WireInv'
  BY WireKeeps, PartsStep, AlgorithmsAssumption
<1>. QED  BY <1>1, <1>2, PTL DEF Spec

\* A transaction in the name of its key's owner arrives as it was sent, on any
\* way through copies, stores, buffers and JSON, for all keys, wallets and nonces.
THEOREM TransactionsArrive == Spec => []ArrivesAsSent
<1>1. WireInv => ArrivesAsSent
  BY DEF WireInv, SentOK, HeldOK, With, ArrivesAsSent, Wired!ArrivesAsSent, Wired!Same
<1>. QED  BY <1>1, WireInvHolds, PTL

\* No way through the network makes an unacceptable transaction acceptable but by
\* the sender it works out, and none spoils an acceptable one whose nonce reads
\* as it was signed.
THEOREM AcceptanceTravels == Spec => []AcceptedAsSent
<1>. USE DEF Wired!Accepted, Wired!SignatureValid, Wired!hashContents, Wired!AsOwner
<1>1. ASSUME WireInv, form = "object", Wired!Accepted(t)
      PROVE  Wired!Accepted(Wired!AsOwner(sent))
  <2>1. CASE sent.isFee
    BY <2>1
  <2>2. CASE ~sent.isFee
    <3>1. PICK w, m : sent.signature = [by |-> sent.key, over |-> <<w, m, 0>>]
      BY <1>1, <2>2 DEF WireInv, SentOK
    <3>2. /\ t.isFee = sent.isFee /\ t.key = sent.key /\ t.terms = sent.terms
          /\ t.signature = sent.signature
      BY <1>1 DEF WireInv, HeldOK, With
    <3>3. t.from = WalletOf[sent.key] /\ <<w, m, 0>> = <<t.from, sent.terms, t.nonce>>
      BY <1>1, <2>2, <3>1, <3>2
    <3>4. sent.signature = [by |-> sent.key, over |-> <<WalletOf[sent.key], sent.terms, sent.nonce>>]
      BY <1>1, <2>2, <3>1, <3>3 DEF WireInv, SentOK
    <3>5. Wired!AsOwner(sent) = With(sent, WalletOf[sent.key], sent.nonce)
      BY <1>1, <2>2 DEF WireInv, SentOK, With
    <3>. QED  BY <2>2, <3>4, <3>5 DEF With
  <2>. QED  BY <2>1, <2>2
<1>2. ASSUME WireInv, form = "object", Wired!Accepted(sent), t.nonce = sent.nonce
      PROVE  Wired!Accepted(t)
  BY <1>2 DEF WireInv, SentOK, HeldOK, With
<1>3. WireInv => AcceptedAsSent
  BY <1>1, <1>2 DEF AcceptedAsSent, Wired!AcceptedAsSent
<1>. QED  BY <1>3, WireInvHolds, PTL

-----------------------------------------------------------------------------
(***************************************************************************)
(* Induction over the natural numbers, and the powers of two.              *)
(***************************************************************************)

\* A set that has zero and with every number the next has them all.
LEMMA Induction ==
  ASSUME NEW S, 0 \in S, \A n \in Nat : n \in S => n + 1 \in S
  PROVE  Nat \subseteq S
<1>. DEFINE T == {n \in Nat : n \notin S}
            Lt == {ss \in Nat \X Nat : ss[1] < ss[2]}
<1>. SUFFICES ASSUME T # {} PROVE FALSE
  OBVIOUS
<1>1. IsWellFoundedOn(Lt, Nat)
  BY NatLessThanWellFounded DEF OpToRel
<1>2. PICK m \in T : \A n \in T : ~(<<n, m>> \in Lt)
  <2>1. T \subseteq Nat  OBVIOUS
  <2>. HIDE DEF Lt, T
  <2>. QED  BY <1>1, <2>1, WFMin
<1>3. m # 0 /\ m \in Nat /\ m \notin S
  OBVIOUS
<1>4. m - 1 \in Nat /\ m - 1 + 1 = m
  BY <1>3
<1>5. m - 1 \in T /\ <<m - 1, m>> \in Lt
  BY <1>3, <1>4
<1>. QED  BY <1>2, <1>5

\* p is the table of the powers of two up to n.
Powers(p, n) == p = [i \in 0 .. n |-> IF i = 0 THEN 1 ELSE 2 * p[i - 1]]

\* There is such a table,
LEMMA PowersExist == ASSUME NEW n \in Nat  PROVE \E p : Powers(p, n)
<1>. DEFINE S == {m \in Nat : \E p : Powers(p, m)}
<1>1. 0 \in S
  <2>1. Powers([i \in 0 .. 0 |-> 1], 0)
    BY DEF Powers
  <2>. QED  BY <2>1
<1>2. ASSUME NEW m \in Nat, m \in S  PROVE m + 1 \in S
  <2>1. PICK p : Powers(p, m)
    BY <1>2
  <2>. DEFINE q == [i \in 0 .. m + 1 |-> IF i = m + 1 THEN 2 * p[m] ELSE p[i]]
  <2>2. \A i \in 0 .. m : p[i] = IF i = 0 THEN 1 ELSE 2 * p[i - 1]
    BY <2>1 DEF Powers
  <2>3. ASSUME NEW i \in 0 .. m + 1  PROVE q[i] = IF i = 0 THEN 1 ELSE 2 * q[i - 1]
    <3>1. CASE i = m + 1  BY <3>1
    <3>2. CASE i = 0  BY <2>2, <3>2
    <3>3. CASE i # m + 1 /\ i # 0
      <4>1. i \in 0 .. m /\ i - 1 \in 0 .. m /\ i - 1 # m + 1  BY <3>3
      <4>. QED  BY <2>2, <3>3, <4>1
    <3>. QED  BY <3>1, <3>2, <3>3
  <2>4. Powers(q, m + 1)
    BY <2>3 DEF Powers
  <2>. QED  BY <2>4
<1>. HIDE DEF S
<1>3. n \in S  BY <1>1, <1>2, Induction
<1>. QED  BY <1>3 DEF S

\* two of them agree as far as both go,
LEMMA PowersAgree ==
  ASSUME NEW m \in Nat, NEW n \in Nat, NEW p, NEW q, m <= n, Powers(p, m), Powers(q, n)
  PROVE  p[m] = q[m]
<1>. DEFINE S == {i \in Nat : i <= m => p[i] = q[i]}
<1>1. /\ \A i \in 0 .. m : p[i] = IF i = 0 THEN 1 ELSE 2 * p[i - 1]
      /\ \A i \in 0 .. n : q[i] = IF i = 0 THEN 1 ELSE 2 * q[i - 1]
  BY DEF Powers
<1>2. 0 \in S
  BY <1>1
<1>3. ASSUME NEW i \in Nat, i \in S  PROVE i + 1 \in S
  <2>. SUFFICES ASSUME i + 1 <= m  PROVE p[i + 1] = q[i + 1]
    OBVIOUS
  <2>1. p[i] = q[i] /\ i + 1 \in 0 .. m /\ i + 1 \in 0 .. n /\ i + 1 - 1 = i
    BY <1>3
  <2>. QED  BY <1>1, <2>1
<1>. HIDE DEF S
<1>4. m \in S  BY <1>2, <1>3, Induction
<1>. QED  BY <1>4 DEF S

\* and so they make one function: it is 1 at zero and doubles.
LEMMA PowerStep ==
  /\ Loop!PowerOf2[0] = 1
  /\ \A n \in Nat : Loop!PowerOf2[n + 1] = 2 * Loop!PowerOf2[n]
<1>. DEFINE Table(n) == CHOOSE p : Powers(p, n)
            f == [n \in Nat |-> Table(n)[n]]
<1>1. \A n \in Nat : Powers(Table(n), n)
  BY PowersExist
<1>. HIDE DEF Table
<1>2. Table(0)[0] = 1
  BY <1>1 DEF Powers
<1>3. ASSUME NEW n \in Nat  PROVE Table(n + 1)[n + 1] = 2 * Table(n)[n]
  <2>1. PICK m \in Nat : m = n + 1  OBVIOUS
  <2>2. Powers(Table(n), n) /\ Powers(Table(m), m) /\ n <= m  BY <1>1, <2>1
  <2>3. Table(n)[n] = Table(m)[n]
    <3>1. \A p, q : Powers(p, n) /\ Powers(q, m) => p[n] = q[n]  BY <2>2, PowersAgree
    <3>. QED  BY <2>2, <3>1
  <2>4. Table(m)[m] = 2 * Table(m)[n]
    BY <2>1, <2>2 DEF Powers
  <2>. QED  BY <2>1, <2>3, <2>4
<1>4. ASSUME NEW n \in Nat  PROVE f[n] = IF n = 0 THEN 1 ELSE 2 * f[n - 1]
  <2>1. CASE n = 0  BY <1>2, <2>1
  <2>2. CASE n # 0
    <3>1. PICK m \in Nat : n = m + 1 /\ n - 1 = m
      <4>1. n - 1 \in Nat /\ n = (n - 1) + 1  BY <2>2
      <4>. QED  BY <4>1
    <3>. QED  BY <1>3, <2>2, <3>1
  <2>. QED  BY <2>1, <2>2
<1>5. f = [n \in Nat |-> IF n = 0 THEN 1 ELSE 2 * f[n - 1]]
  BY <1>4
<1>. HIDE DEF f
<1>6. Loop!PowerOf2 = [n \in Nat |-> IF n = 0 THEN 1 ELSE 2 * Loop!PowerOf2[n - 1]]
  BY <1>5 DEF Loop!PowerOf2
<1>7. ASSUME NEW n \in Nat  PROVE Loop!PowerOf2[n + 1] = 2 * Loop!PowerOf2[n]
  <2>1. n + 1 \in Nat /\ n + 1 # 0 /\ n + 1 - 1 = n  OBVIOUS
  <2>. QED  BY <1>6, <2>1
<1>. QED  BY <1>6, <1>7

LEMMA PowerType == \A n \in Nat : Loop!PowerOf2[n] \in Nat \ {0}
<1>. DEFINE S == {n \in Nat : Loop!PowerOf2[n] \in Nat \ {0}}
<1>1. 0 \in S  BY PowerStep
<1>2. ASSUME NEW n \in Nat, n \in S  PROVE n + 1 \in S
  <2>1. \A p \in Nat \ {0} : 2 * p \in Nat \ {0}  OBVIOUS
  <2>. QED  BY <1>2, <2>1, PowerStep
<1>. HIDE DEF S
<1>3. Nat \subseteq S  BY <1>1, <1>2, Induction
<1>. QED  BY <1>3 DEF S

\* The powers grow.
LEMMA PowerGrows ==
  ASSUME NEW m \in Nat, NEW n \in Nat, m <= n
  PROVE  Loop!PowerOf2[m] <= Loop!PowerOf2[n]
<1>. DEFINE S == {i \in Nat : m <= i => Loop!PowerOf2[m] <= Loop!PowerOf2[i]}
<1>1. 0 \in S  BY PowerType
<1>2. ASSUME NEW i \in Nat, i \in S  PROVE i + 1 \in S
  <2>. SUFFICES ASSUME m <= i + 1  PROVE Loop!PowerOf2[m] <= Loop!PowerOf2[i + 1]
    OBVIOUS
  <2>1. CASE m = i + 1
    BY <2>1, PowerType
  <2>2. CASE m <= i
    <3>1. \A p, q \in Nat : p <= q => p <= 2 * q  OBVIOUS
    <3>. QED  BY <1>2, <2>2, <3>1, PowerStep, PowerType
  <2>. QED  BY <2>1, <2>2
<1>. HIDE DEF S
<1>3. n \in S  BY <1>1, <1>2, Induction
<1>. QED  BY <1>3 DEF S

-----------------------------------------------------------------------------
(***************************************************************************)
(* computeDifficulty's loop.                                               *)
(***************************************************************************)

\* The turns taken so far.
Turns == IF Loop!Slow THEN current - newDifficulty ELSE newDifficulty - current

\* The powers of two are those of the turn, and no turn before was one too many.
LoopInv ==
  /\ current \in Nat /\ elapsed \in Int /\ expected \in Nat /\ newDifficulty \in Int
  /\ Turns \in Nat
  /\ lastK = Loop!PowerOf2[Turns] /\ k = Loop!PowerOf2[Turns + 1]
  /\ \A m \in 0 .. (Turns - 1) : ~Loop!Breaks(elapsed, expected, m)
  /\ Turns > 0 => IF Loop!Slow THEN MinDifficulty <= newDifficulty ELSE newDifficulty <= MaxRetarget
  /\ done => (Loop!HasRoom => Loop!Farther)

\* A turn looks at the time after as many turns, and at the one after another.
LEMMA TurnLooks ==
  ASSUME elapsed \in Int, expected \in Nat, NEW n \in Nat
  PROVE  Loop!TimeAt(Loop!PowerOf2[n]) = Loop!TimeAfter(elapsed, expected, n)
<1>1. \A p \in Nat : 0 * p = 0  OBVIOUS
<1>. QED  BY <1>1, PowerType DEF Loop!TimeAt, Loop!TimeAfter, Loop!Slow

LEMMA FartherBreaks ==
  ASSUME LoopInv
  PROVE  Loop!Farther <=> Loop!Breaks(elapsed, expected, Turns)
<1>. Turns \in Nat /\ Turns + 1 \in Nat  BY DEF LoopInv
<1>1. /\ Loop!TimeAt(k) = Loop!TimeAfter(elapsed, expected, Turns + 1)
      /\ Loop!TimeAt(lastK) = Loop!TimeAfter(elapsed, expected, Turns)
  BY TurnLooks DEF LoopInv
<1>. QED  BY <1>1 DEF Loop!Farther, Loop!Breaks

LEMMA LoopStarts == ASSUME Loop!LoopAssumption, Loop!Init PROVE LoopInv
<1>1. current \in Nat /\ elapsed \in Int /\ expected \in Nat /\ newDifficulty = current
  BY DEF Loop!Init, Loop!LoopAssumption
<1>2. Turns = 0
  BY <1>1 DEF Turns
<1>3. Loop!PowerOf2[0] = 1 /\ Loop!PowerOf2[0 + 1] = 2
  <2>1. 0 \in Nat /\ 2 * 1 = 2  OBVIOUS
  <2>. QED  BY <2>1, PowerStep
<1>. QED  BY <1>1, <1>2, <1>3 DEF LoopInv, Loop!Init

LEMMA LoopKeeps ==
  ASSUME Loop!LoopAssumption, LoopInv, [Loop!Next]_Loop!vars
  PROVE  LoopInv'
<1>1. CASE Loop!Turn
  <2>1. /\ current' = current /\ elapsed' = elapsed /\ expected' = expected
        /\ done' = FALSE /\ Loop!HasRoom /\ ~Loop!Farther
        /\ newDifficulty' = IF Loop!Slow THEN newDifficulty - 1 ELSE newDifficulty + 1
        /\ lastK' = k /\ k' = k * 2
    BY <1>1 DEF Loop!Turn, Loop!args, LoopInv
  <2>2. (Loop!Slow)' = Loop!Slow
    BY <2>1 DEF Loop!Slow
  <2>3. newDifficulty' \in Int /\ Turns' = Turns + 1 /\ Turns \in Nat
    BY <2>1, <2>2 DEF Turns, LoopInv
  <2>4. lastK' = Loop!PowerOf2[Turns'] /\ k' = Loop!PowerOf2[Turns' + 1]
    <3>1. PICK n \in Nat : n = Turns + 1  BY <2>3
    <3>2. Loop!PowerOf2[n] \in Nat /\ Loop!PowerOf2[n + 1] = 2 * Loop!PowerOf2[n]
      BY PowerStep, PowerType
    <3>3. lastK' = Loop!PowerOf2[n] /\ k' = Loop!PowerOf2[n] * 2
      BY <2>1, <3>1 DEF LoopInv
    <3>4. Turns' = n
      BY <2>3, <3>1
    <3>. QED  BY <3>2, <3>3, <3>4
  <2>5. ASSUME NEW m \in 0 .. (Turns' - 1)  PROVE ~Loop!Breaks(elapsed, expected, m)
    <3>1. m \in 0 .. (Turns - 1) \/ m = Turns  BY <2>3
    <3>. QED  BY <2>1, <3>1, FartherBreaks DEF LoopInv
  <2>6. IF Loop!Slow THEN MinDifficulty <= newDifficulty' ELSE newDifficulty' <= MaxRetarget
    BY <2>1 DEF LoopInv, Loop!HasRoom, Loop!LoopAssumption
  <2>. QED  BY <2>1, <2>2, <2>3, <2>4, <2>5, <2>6 DEF LoopInv
<1>2. CASE Loop!Leave \/ UNCHANGED Loop!vars
  <2>1. /\ UNCHANGED <<current, elapsed, expected, newDifficulty, k, lastK>>
        /\ done' => done \/ (Loop!HasRoom => Loop!Farther)
    BY <1>2 DEF Loop!Leave, Loop!vars, Loop!args
  <2>2. /\ Turns' = Turns /\ (Loop!Slow)' = Loop!Slow
        /\ (Loop!HasRoom)' = Loop!HasRoom /\ (Loop!Farther)' = Loop!Farther
    BY <2>1 DEF Turns, Loop!Slow, Loop!HasRoom, Loop!Farther, Loop!TimeAt
  <2>. QED  BY <2>1, <2>2 DEF LoopInv
<1>. QED  BY <1>1, <1>2 DEF Loop!Next

LEMMA LoopInvHolds == Spec => []LoopInv
<1>1. Init => LoopInv
  BY LoopStarts, AlgorithmsAssumption DEF Init
<1>2. LoopInv /\ [Next]_vars => LoopInv'
  BY LoopKeeps, PartsStep, AlgorithmsAssumption
<1>. QED  BY <1>1, <1>2, PTL DEF Spec

\* The turns are not more than there is room for, and the loop is left where
\* there is none or the next turn would be one too many.
LEMMA TurnsFit ==
  ASSUME LoopInv, Loop!LoopAssumption
  PROVE  LET room == IF Loop!Slow THEN current - MinDifficulty ELSE MaxRetarget - current
         IN  /\ IF room <= 0 THEN Turns = 0 ELSE Turns \in 0 .. room
             /\ done => Turns >= room \/ Loop!Breaks(elapsed, expected, Turns)
<1>. MinDifficulty \in Nat /\ MaxRetarget \in Nat /\ current \in Nat /\ newDifficulty \in Int
  BY DEF LoopInv, Loop!LoopAssumption
<1>1. /\ Turns \in Nat
      /\ Turns > 0 => IF Loop!Slow THEN MinDifficulty <= newDifficulty
                                   ELSE newDifficulty <= MaxRetarget
  BY DEF LoopInv
<1>2. done => (Loop!HasRoom => Loop!Breaks(elapsed, expected, Turns))
  BY FartherBreaks DEF LoopInv
<1>. QED  BY <1>1, <1>2 DEF Turns, Loop!HasRoom

\* The number of steps is where the loop ends: there is one such number.
LEMMA StepsAreTurns ==
  ASSUME NEW e, NEW x, NEW room \in Nat, NEW n \in 0 .. room,
         n = room \/ Loop!Breaks(e, x, n),
         \A m \in 0 .. (n - 1) : ~Loop!Breaks(e, x, m)
  PROVE  Loop!Steps(e, x, room) = n
<1>. DEFINE Stops(m) == Loop!Breaks(e, x, m)
            Ends(m) == (m = room \/ Stops(m)) /\ \A i \in 0 .. (m - 1) : ~Stops(i)
<1>1. Loop!Steps(e, x, room) = CHOOSE m \in 0 .. room : Ends(m)
  BY DEF Loop!Steps
<1>. HIDE DEF Stops
<1>2. Ends(n)
  BY DEF Stops
<1>3. ASSUME NEW m \in 0 .. room, Ends(m)  PROVE m = n
  <2>1. ~(m < n)
    <3>1. m < n => m \in 0 .. (n - 1) /\ m # room  OBVIOUS
    <3>. QED  BY <1>2, <1>3, <3>1
  <2>2. ~(n < m)
    <3>1. n < m => n \in 0 .. (m - 1) /\ n # room  OBVIOUS
    <3>. QED  BY <1>2, <1>3, <3>1
  <2>. QED  BY <2>1, <2>2
<1>. QED  BY <1>1, <1>2, <1>3

\* What the chain's model takes for computeDifficulty's answer is what its loop
\* computes, for all difficulties, times and targets.
THEOREM LoopAnswers == Spec => []LoopComputes
<1>1. ASSUME LoopInv, done
      PROVE  newDifficulty = Loop!ComputeDifficulty(current, elapsed, expected)
  <2>. DEFINE room == IF Loop!Slow THEN current - MinDifficulty ELSE MaxRetarget - current
  <2>. MinDifficulty \in Nat /\ MaxRetarget \in Nat /\ current \in Nat /\ newDifficulty \in Int
    BY <1>1, AlgorithmsAssumption DEF LoopInv, Loop!LoopAssumption
  <2>1. /\ IF room <= 0 THEN Turns = 0 ELSE Turns \in 0 .. room
        /\ Turns >= room \/ Loop!Breaks(elapsed, expected, Turns)
    BY <1>1, TurnsFit, AlgorithmsAssumption
  <2>2. ASSUME room > 0  PROVE Loop!Steps(elapsed, expected, room) = Turns
    <3>1. room \in Nat /\ Turns \in 0 .. room
      BY <2>1, <2>2
    <3>2. Turns = room \/ Loop!Breaks(elapsed, expected, Turns)
      BY <2>1, <3>1
    <3>3. \A m \in 0 .. (Turns - 1) : ~Loop!Breaks(elapsed, expected, m)
      BY <1>1 DEF LoopInv
    <3>. HIDE DEF room
    <3>. QED  BY <3>1, <3>2, <3>3, StepsAreTurns
  <2>3. CASE Loop!Slow
    BY <2>1, <2>2, <2>3 DEF Turns, Loop!Slow, Loop!ComputeDifficulty
  <2>4. CASE ~Loop!Slow
    BY <2>1, <2>2, <2>4 DEF Turns, Loop!Slow, Loop!ComputeDifficulty
  <2>. QED  BY <2>3, <2>4
<1>2. LoopInv => LoopComputes
  BY <1>1 DEF LoopComputes, Loop!LoopComputes
<1>. QED  BY <1>2, LoopInvHolds, PTL

-----------------------------------------------------------------------------
(***************************************************************************)
(* The answer is the best: the times move one way, so that once they get   *)
(* farther from the target they do not come back.                          *)
(***************************************************************************)

LEMMA Quotients ==
  ASSUME NEW e \in Nat, NEW p \in Nat \ {0}, NEW q \in Nat \ {0}, p <= q
  PROVE  e \div p \in Nat /\ e \div q \in Nat /\ e \div q <= e \div p
<1>1. PICK a \in Nat : a = e \div p /\ a * p <= e /\ e < (a + 1) * p
  OBVIOUS
<1>2. PICK b \in Nat : b = e \div q /\ b * q <= e /\ e < (b + 1) * q
  OBVIOUS
<1>3. b * p <= b * q
  OBVIOUS
<1>4. b >= a + 1 => (a + 1) * p <= b * p
  OBVIOUS
<1>5. ~(b >= a + 1)
  <2>1. a * p \in Nat /\ b * p \in Nat /\ b * q \in Nat /\ (a + 1) * p \in Nat  OBVIOUS
  <2>. QED  BY <1>1, <1>2, <1>3, <1>4, <2>1
<1>. QED  BY <1>1, <1>2, <1>5

LEMMA Products ==
  ASSUME NEW e \in Int, NEW p \in Nat, NEW q \in Nat, p <= q
  PROVE  /\ e * p \in Int /\ e * q \in Int
         /\ IF e >= 0 THEN e * p <= e * q ELSE e * q <= e * p /\ e * p <= 0
<1>1. PICK d \in Nat : q = p + d
  <2>1. q - p \in Nat /\ q = p + (q - p)  OBVIOUS
  <2>. QED  BY <2>1
<1>2. e * q = e * p + e * d
  BY <1>1
<1>3. /\ e * d \in Int /\ e * p \in Int
      /\ e >= 0 => e * d >= 0
      /\ e < 0 => e * d <= 0 /\ e * p <= 0
  OBVIOUS
<1>. QED  BY <1>2, <1>3

\* The times at the difficulties, one after the other.
LEMMA TimesMove ==
  ASSUME NEW e \in Int, NEW x \in Nat, NEW m \in Nat, NEW n \in Nat, m <= n
  PROVE  LET at(i) == Loop!TimeAfter(e, x, i)
         IN  /\ at(m) \in Int /\ at(n) \in Int
             /\ IF e <= x /\ e >= 0 THEN at(m) <= at(n) ELSE at(n) <= at(m)
             /\ e < 0 => at(m) <= 0
<1>. DEFINE p == Loop!PowerOf2[m]
            q == Loop!PowerOf2[n]
<1>1. p \in Nat \ {0} /\ q \in Nat \ {0} /\ p <= q
  BY PowerType, PowerGrows
<1>. HIDE DEF p, q
<1>2. CASE e > x
  <2>1. e \in Nat  BY <1>2
  <2>2. e \div p \in Nat /\ e \div q \in Nat /\ e \div q <= e \div p
    BY <1>1, <2>1, Quotients
  <2>3. Loop!TimeAfter(e, x, m) = e \div p /\ Loop!TimeAfter(e, x, n) = e \div q
    BY <1>2 DEF Loop!TimeAfter, p, q
  <2>. QED  BY <1>2, <2>2, <2>3
<1>3. CASE ~(e > x) /\ e = 0
  BY <1>3 DEF Loop!TimeAfter
<1>4. CASE ~(e > x) /\ e # 0
  <2>1. /\ e * p \in Int /\ e * q \in Int
        /\ IF e >= 0 THEN e * p <= e * q ELSE e * q <= e * p /\ e * p <= 0
    BY <1>1, Products
  <2>2. Loop!TimeAfter(e, x, m) = e * p /\ Loop!TimeAfter(e, x, n) = e * q
    BY <1>4 DEF Loop!TimeAfter, p, q
  <2>. QED  BY <1>4, <2>1, <2>2
<1>. QED  BY <1>2, <1>3, <1>4

\* Past a turn the loop would break at no difficulty is closer.
LEMMA BreakLasts ==
  ASSUME NEW e \in Int, NEW x \in Nat, NEW m \in Nat, NEW n \in Nat, n < m,
         Loop!Breaks(e, x, n)
  PROVE  Loop!Distance(Loop!TimeAfter(e, x, n), x) <= Loop!Distance(Loop!TimeAfter(e, x, m), x)
<1>. DEFINE at(i) == Loop!TimeAfter(e, x, i)
<1>1. /\ at(n) \in Int /\ at(n + 1) \in Int
      /\ IF e <= x /\ e >= 0 THEN at(n) <= at(n + 1) ELSE at(n + 1) <= at(n)
      /\ e < 0 => at(n) <= 0
  <2>1. n + 1 \in Nat /\ n <= n + 1  OBVIOUS
  <2>. QED  BY <2>1, TimesMove
<1>2. /\ at(m) \in Int
      /\ IF e <= x /\ e >= 0 THEN at(n + 1) <= at(m) ELSE at(m) <= at(n + 1)
  <2>1. n + 1 \in Nat /\ n + 1 <= m  OBVIOUS
  <2>. QED  BY <2>1, TimesMove
<1>3. Loop!Distance(at(n + 1), x) > Loop!Distance(at(n), x)
  BY DEF Loop!Breaks
<1>. HIDE DEF at
<1>4. Loop!Distance(at(n), x) <= Loop!Distance(at(m), x)
  BY <1>1, <1>2, <1>3 DEF Loop!Distance
<1>. QED  BY <1>4 DEF at

\* Up to a turn before which the loop does not break none is closer.
LEMMA TurnsApproach ==
  ASSUME NEW e \in Int, NEW x \in Nat, NEW m \in Nat, NEW n \in Nat, m <= n,
         \A i \in 0 .. (n - 1) : ~Loop!Breaks(e, x, i)
  PROVE  Loop!Distance(Loop!TimeAfter(e, x, n), x) <= Loop!Distance(Loop!TimeAfter(e, x, m), x)
<1>. DEFINE far(i) == Loop!Distance(Loop!TimeAfter(e, x, i), x)
            S == {i \in Nat : m <= i /\ i <= n => far(i) <= far(m)}
<1>1. \A i \in Nat : far(i) \in Int
  <2>. SUFFICES ASSUME NEW i \in Nat  PROVE far(i) \in Int
    OBVIOUS
  <2>1. Loop!TimeAfter(e, x, i) \in Int
    <3>1. i <= i  OBVIOUS
    <3>. QED  BY <3>1, TimesMove
  <2>. QED  BY <2>1 DEF Loop!Distance
<1>2. \A i \in 0 .. (n - 1) : ~(far(i + 1) > far(i))
  BY DEF Loop!Breaks
<1>. HIDE DEF far
<1>3. 0 \in S
  BY <1>1
<1>4. ASSUME NEW i \in Nat, i \in S  PROVE i + 1 \in S
  <2>. SUFFICES ASSUME m <= i + 1, i + 1 <= n  PROVE far(i + 1) <= far(m)
    OBVIOUS
  <2>1. far(i) \in Int /\ far(i + 1) \in Int /\ far(m) \in Int
    BY <1>1
  <2>2. CASE m = i + 1
    BY <2>1, <2>2
  <2>3. CASE m <= i
    <3>1. i \in 0 .. (n - 1)  OBVIOUS
    <3>. QED  BY <1>2, <1>4, <2>1, <2>3, <3>1
  <2>. QED  BY <2>2, <2>3
<1>. HIDE DEF S
<1>5. n \in S
  BY <1>3, <1>4, Induction
<1>. QED  BY <1>5 DEF S, far

\* computeDifficulty's answer is at least as close to the wanted time as every
\* other difficulty it could have given, for all difficulties, times and targets.
THEOREM AnswerIsClosest == Spec => []ClosestDifficulty
<1>1. ASSUME LoopInv, done, current \in MinDifficulty .. MaxRetarget
      PROVE  /\ newDifficulty \in Loop!Candidates
             /\ \A d \in Loop!Candidates :
                  Loop!Distance(Loop!IdealTime(newDifficulty), expected)
                    <= Loop!Distance(Loop!IdealTime(d), expected)
  <2>. DEFINE room == IF Loop!Slow THEN current - MinDifficulty ELSE MaxRetarget - current
              far(i) == Loop!Distance(Loop!TimeAfter(elapsed, expected, i), expected)
  <2>0. MinDifficulty \in Nat /\ MaxRetarget \in Nat /\ current \in Nat /\ newDifficulty \in Int
        /\ elapsed \in Int /\ expected \in Nat
    BY <1>1, AlgorithmsAssumption DEF LoopInv, Loop!LoopAssumption
  <2>1. /\ IF room <= 0 THEN Turns = 0 ELSE Turns \in 0 .. room
        /\ Turns >= room \/ Loop!Breaks(elapsed, expected, Turns)
    BY <1>1, TurnsFit, AlgorithmsAssumption
  <2>2. room \in Nat /\ Turns \in 0 .. room
    BY <1>1, <2>0, <2>1
  <2>3. Turns = room \/ Loop!Breaks(elapsed, expected, Turns)
    BY <2>1, <2>2
  <2>4. newDifficulty \in Loop!Candidates /\ Loop!Distance(newDifficulty, current) = Turns
    BY <1>1, <2>0, <2>2 DEF Turns, Loop!Candidates, Loop!Distance
  <2>5. ASSUME NEW d \in Loop!Candidates
        PROVE  Loop!Distance(d, current) \in 0 .. room
    BY <1>1, <2>0, <2>5 DEF Loop!Candidates, Loop!Distance
  <2>6. ASSUME NEW d \in Loop!Candidates
        PROVE  Loop!Distance(Loop!IdealTime(d), expected) = far(Loop!Distance(d, current))
    <3>1. Loop!Distance(d, current) \in Nat
      BY <2>2, <2>5
    <3>. QED  BY <2>0, <3>1, TurnLooks DEF Loop!IdealTime
  <2>. HIDE DEF room
  <2>7. ASSUME NEW n \in 0 .. room  PROVE far(Turns) <= far(n)
    <3>1. CASE n <= Turns
      <4>1. \A i \in 0 .. (Turns - 1) : ~Loop!Breaks(elapsed, expected, i)
        BY <1>1 DEF LoopInv
      <4>. QED  BY <2>0, <2>2, <3>1, <4>1, TurnsApproach
    <3>2. CASE Turns < n
      <4>1. Loop!Breaks(elapsed, expected, Turns)
        BY <2>2, <2>3, <3>2
      <4>. QED  BY <2>0, <2>2, <3>2, <4>1, BreakLasts
    <3>. QED  BY <2>2, <3>1, <3>2
  <2>. HIDE DEF far
  <2>. QED  BY <2>4, <2>5, <2>6, <2>7
<1>2. LoopInv => ClosestDifficulty
  BY <1>1 DEF ClosestDifficulty, Loop!ClosestDifficulty
<1>. QED  BY <1>2, LoopInvHolds, PTL

-----------------------------------------------------------------------------
(***************************************************************************)
(* Merkle trees, while they are made.                                      *)
(***************************************************************************)

\* The hashes that are put into the queue at first are those of the items, and
\* of the last again if they are odd.
fringe == Tree!Fringe(items)

\* A leaf is below nothing, and any other node above two earlier ones.
NodeOK(n) ==
  /\ nodes[n] = [hash |-> nodes[n].hash, left |-> nodes[n].left, right |-> nodes[n].right,
                 parent |-> nodes[n].parent]
  /\ n <= Len(fringe) =>
       nodes[n].left = 0 /\ nodes[n].right = 0 /\ nodes[n].hash = Tree!Leaf(fringe[n])
  /\ n > Len(fringe) =>
       /\ nodes[n].left \in 1 .. (n - 1) /\ nodes[n].right \in 1 .. (n - 1)
       /\ nodes[n].left # nodes[n].right
       /\ nodes[n].hash = Tree!Concat(nodes[nodes[n].left].hash, nodes[nodes[n].right].hash)
  /\ nodes[n].parent # 0 =>
       /\ nodes[n].parent \in (n + 1) .. Len(nodes)
       /\ n \in {nodes[nodes[n].parent].left, nodes[nodes[n].parent].right}

\* The queue holds the nodes that have no parent, each once.
QueueOK ==
  /\ queue \in Seq(1 .. Len(nodes)) /\ queue # <<>>
  /\ \A a, b \in 1 .. Len(queue) : queue[a] = queue[b] => a = b
  /\ \A n \in 1 .. Len(nodes) : nodes[n].parent = 0 <=> \E j \in 1 .. Len(queue) : queue[j] = n
  /\ built => Len(queue) = 1

TreeInv ==
  /\ \E S : items \in Seq(S) \ {<<>>}
  /\ \E S : nodes \in Seq(S)
  /\ Len(fringe) <= Len(nodes)
  /\ \A n \in 1 .. Len(nodes) : NodeOK(n)
  /\ QueueOK

\* A function on the first N numbers is a sequence.
LEMMA SequenceOf ==
  ASSUME NEW N \in Nat, NEW s, s = [n \in 1 .. N |-> s[n]]
  PROVE  (\E S : s \in Seq(S)) /\ Len(s) = N
<1>. DEFINE S == {s[n] : n \in 1 .. N}
<1>1. \A n \in 1 .. N : s[n] \in S
  OBVIOUS
<1>. HIDE DEF S
<1>2. s \in Seq(S) /\ Len(s) = N
  BY <1>1
<1>. QED  BY <1>2

LEMMA FringeOfItems ==
  ASSUME NEW v, NEW S, v \in Seq(S) \ {<<>>}
  PROVE  /\ Tree!Fringe(v) \in Seq(S)
         /\ Len(Tree!Fringe(v)) \in Nat /\ Len(Tree!Fringe(v)) >= 2
         /\ Len(v) \in Nat /\ Len(v) >= 1 /\ Len(v) <= Len(Tree!Fringe(v))
         /\ \A n \in 1 .. Len(v) : Tree!Fringe(v)[n] = v[n]
<1>1. Len(v) \in Nat /\ Len(v) >= 1 /\ v[Len(v)] \in S
  OBVIOUS
<1>2. CASE Len(v) % 2 = 1
  <2>1. Tree!Fringe(v) = Append(v, v[Len(v)])
    BY <1>2 DEF Tree!Fringe, Tree!Last
  <2>2. PICK x \in S : x = v[Len(v)]
    BY <1>1
  <2>3. /\ Append(v, x) \in Seq(S) /\ Len(Append(v, x)) = Len(v) + 1
        /\ \A n \in 1 .. Len(v) : Append(v, x)[n] = v[n]
    OBVIOUS
  <2>. QED  BY <1>1, <2>1, <2>2, <2>3
<1>3. CASE Len(v) % 2 # 1
  <2>1. Tree!Fringe(v) = v
    BY <1>3 DEF Tree!Fringe
  <2>2. Len(v) >= 2 /\ v \in Seq(S)
    BY <1>1, <1>3
  <2>. QED  BY <1>1, <2>1, <2>2
<1>. QED  BY <1>2, <1>3

\* What is hashed is as long as the vector.
LEMMA HashedIsSequence ==
  ASSUME NEW c \in Calls, NEW s \in Tree!Hashed(c)
  PROVE  /\ c.vector \in Seq(Nat) \ {<<>>} /\ c.nonces \in (SUBSET Nat) \ {{}}
         /\ Len(c.vector) \in Nat /\ Len(c.vector) >= 1
         /\ s = [p \in 1 .. Len(c.vector) |-> s[p]]
         /\ \E S : s \in Seq(S) \ {<<>>}
<1>1. c \in [vector : Seq(Nat) \ {<<>>}, nonces : (SUBSET Nat) \ {{}}]
  BY AlgorithmsAssumption DEF Tree!TreeAssumption
<1>2. c.vector \in Seq(Nat) \ {<<>>} /\ c.nonces \in (SUBSET Nat) \ {{}}
  BY <1>1
<1>3. Len(c.vector) \in Nat /\ Len(c.vector) >= 1 /\ DOMAIN c.vector = 1 .. Len(c.vector)
  BY <1>2
<1>4. s = [p \in 1 .. Len(c.vector) |-> s[p]]
  BY <1>3 DEF Tree!Hashed
<1>5. (\E S : s \in Seq(S)) /\ Len(s) = Len(c.vector)
  BY <1>3, <1>4, SequenceOf
<1>6. s # <<>>
  BY <1>3, <1>5
<1>. QED  BY <1>2, <1>3, <1>4, <1>5, <1>6

LEMMA TreeStarts == ASSUME Tree!Init PROVE TreeInv
<1>1. PICK s : \E c \in Calls :
        /\ s \in Tree!Hashed(c)
        /\ items = s
        /\ nodes = [n \in DOMAIN Tree!Fringe(s) |-> Tree!Node(Tree!Leaf(Tree!Fringe(s)[n]), 0, 0)]
        /\ queue = [n \in DOMAIN Tree!Fringe(s) |-> n]
        /\ built = FALSE
  BY DEF Tree!Init
<1>2. \E S : items \in Seq(S) \ {<<>>}
  BY <1>1, HashedIsSequence
<1>3. (\E S : fringe \in Seq(S)) /\ Len(fringe) \in Nat /\ Len(fringe) >= 2
  BY <1>2, FringeOfItems DEF fringe
<1>. DEFINE N == Len(fringe)
<1>4. DOMAIN fringe = 1 .. N
  BY <1>3
<1>5. /\ nodes = [n \in 1 .. N |-> [hash |-> Tree!Leaf(fringe[n]), left |-> 0, right |-> 0, parent |-> 0]]
      /\ queue = [n \in 1 .. N |-> n]
  BY <1>1, <1>4 DEF fringe, Tree!Node
<1>6. (\E S : nodes \in Seq(S)) /\ Len(nodes) = N
  <2>1. nodes = [n \in 1 .. N |-> nodes[n]]
    BY <1>5
  <2>. QED  BY <1>3, <2>1, SequenceOf
<1>7. queue \in Seq(1 .. N) /\ Len(queue) = N /\ queue # <<>>
  BY <1>3, <1>5
<1>8. ASSUME NEW n \in 1 .. N
      PROVE  /\ nodes[n] = [hash |-> nodes[n].hash, left |-> nodes[n].left, right |-> nodes[n].right,
                            parent |-> nodes[n].parent]
             /\ nodes[n].left = 0 /\ nodes[n].right = 0 /\ nodes[n].parent = 0
             /\ nodes[n].hash = Tree!Leaf(fringe[n])
             /\ queue[n] = n
  <2>1. nodes[n] = [hash |-> Tree!Leaf(fringe[n]), left |-> 0, right |-> 0, parent |-> 0]
    BY <1>5
  <2>. QED  BY <1>5, <2>1
<1>. HIDE DEF N
<1>9. ASSUME NEW n \in 1 .. N  PROVE NodeOK(n)
  <2>2. n <= Len(fringe) /\ ~(n > Len(fringe))
    BY <1>3 DEF N
  <2>. QED  BY <1>8, <2>2 DEF NodeOK
<1>10. QueueOK
  BY <1>1, <1>6, <1>7, <1>8 DEF QueueOK
<1>. QED  BY <1>2, <1>3, <1>6, <1>9, <1>10 DEF TreeInv, N

\* What is left of a sequence when the first two are taken.
LEMMA RestOf ==
  ASSUME NEW S, NEW q \in Seq(S), Len(q) >= 2
  PROVE  /\ SubSeq(q, 3, Len(q)) \in Seq(S)
         /\ Len(SubSeq(q, 3, Len(q))) = Len(q) - 2
         /\ \A j \in 1 .. Len(q) - 2 : SubSeq(q, 3, Len(q))[j] = q[j + 2]
<1>1. 3 \in Int /\ Len(q) \in Nat /\ \A j \in 3 .. Len(q) : q[j] \in S
  OBVIOUS
<1>2. PICK n \in Int : n = Len(q)
  BY <1>1
<1>3. /\ SubSeq(q, 3, n) \in Seq(S)
      /\ Len(SubSeq(q, 3, n)) = IF 3 <= n THEN n - 3 + 1 ELSE 0
      /\ \A j \in 1 .. n - 3 + 1 : SubSeq(q, 3, n)[j] = q[3 + j - 1]
  <2>1. \A j \in 3 .. n : q[j] \in S
    BY <1>1, <1>2
  <2>. QED  BY <1>1, <1>2, <2>1, SubSeqProperties
<1>4. \A j \in 1 .. n - 2 : SubSeq(q, 3, n)[j] = q[j + 2]
  <2>1. \A j \in 1 .. n - 2 : j \in 1 .. n - 3 + 1 /\ 3 + j - 1 = j + 2
    OBVIOUS
  <2>. QED  BY <1>3, <2>1
<1>5. Len(SubSeq(q, 3, n)) = n - 2
  BY <1>2, <1>3
<1>. QED  BY <1>2, <1>3, <1>4, <1>5

LEMMA Appended ==
  ASSUME NEW S, NEW q \in Seq(S), NEW x
  PROVE  /\ Append(q, x) \in Seq(S \cup {x}) /\ Len(q) \in Nat
         /\ Len(Append(q, x)) = Len(q) + 1
         /\ Append(q, x)[Len(q) + 1] = x
         /\ \A j \in 1 .. Len(q) : Append(q, x)[j] = q[j]
<1>1. q \in Seq(S \cup {x}) /\ x \in S \cup {x}
  OBVIOUS
<1>. QED  BY <1>1, AppendProperties

\* The two that are joined, and their parent.
one  == queue[1]
two  == queue[2]
made == [hash |-> Tree!Concat(nodes[one].hash, nodes[two].hash), left |-> one, right |-> two,
         parent |-> 0]

\* Join makes a node over the first two of the queue, which get it as parent.
LEMMA JoinMakes ==
  ASSUME TreeInv, Tree!Join
  PROVE  /\ one \in 1 .. Len(nodes) /\ two \in 1 .. Len(nodes) /\ one # two
         /\ nodes[one].parent = 0 /\ nodes[two].parent = 0
         /\ items' = items /\ built' = built /\ ~built
         /\ Len(nodes) \in Nat /\ Len(queue) \in Nat /\ Len(queue) >= 2
         /\ (\E S : nodes' \in Seq(S)) /\ Len(nodes') = Len(nodes) + 1
         /\ nodes'[Len(nodes) + 1] = made
         /\ \A n \in 1 .. Len(nodes) :
              nodes'[n] = IF n \in {one, two} THEN [nodes[n] EXCEPT !.parent = Len(nodes) + 1]
                          ELSE nodes[n]
         /\ queue' \in Seq(1 .. Len(nodes) + 1) /\ Len(queue') = Len(queue) - 1
         /\ \A j \in 1 .. Len(queue) - 2 : queue'[j] = queue[j + 2]
         /\ queue'[Len(queue) - 1] = Len(nodes) + 1
<1>. DEFINE N == Len(nodes)
            root == N + 1
            given == [nodes EXCEPT ![one].parent = root, ![two].parent = root]
            rest == SubSeq(queue, 3, Len(queue))
<1>1. /\ ~built /\ built' = built /\ items' = items /\ Len(queue) > 1
      /\ nodes' = Append(given, made) /\ queue' = Append(rest, root)
  BY DEF Tree!Join, Tree!Node, one, two, made
<1>2. PICK S : nodes \in Seq(S)
  BY DEF TreeInv
<1>3. /\ queue \in Seq(1 .. N) /\ N \in Nat /\ Len(queue) \in Nat /\ 1 \in 1 .. Len(queue)
      /\ 2 \in 1 .. Len(queue) /\ one \in 1 .. N /\ two \in 1 .. N /\ DOMAIN nodes = 1 .. N
  BY <1>1, <1>2 DEF TreeInv, QueueOK, one, two
<1>4. one # two /\ nodes[one].parent = 0 /\ nodes[two].parent = 0
  <2>1. QueueOK
    BY DEF TreeInv
  <2>2. one = queue[1] /\ two = queue[2] /\ 1 # 2
    BY DEF one, two
  <2>. HIDE DEF one, two
  <2>3. one # two
    BY <1>3, <2>1, <2>2 DEF QueueOK
  <2>4. nodes[one].parent = 0 /\ nodes[two].parent = 0
    BY <1>3, <2>1, <2>2 DEF QueueOK
  <2>. QED  BY <2>3, <2>4
<1>. HIDE DEF N, root
<1>5. DOMAIN given = 1 .. N /\ given = [n \in 1 .. N |-> given[n]]
  BY <1>3
<1>6. ASSUME NEW n \in 1 .. N
      PROVE  given[n] = IF n \in {one, two} THEN [nodes[n] EXCEPT !.parent = root] ELSE nodes[n]
  <2>1. CASE n = one  BY <1>3, <1>4, <2>1
  <2>2. CASE n = two  BY <1>3, <1>4, <2>2
  <2>3. CASE n \notin {one, two}  BY <1>3, <2>3
  <2>. QED  BY <2>1, <2>2, <2>3
<1>7. /\ rest \in Seq(1 .. N) /\ Len(rest) = Len(queue) - 2
      /\ \A j \in 1 .. Len(queue) - 2 : rest[j] = queue[j + 2]
  <2>1. queue \in Seq(1 .. N) /\ Len(queue) >= 2
    BY <1>1, <1>3
  <2>. QED  BY <2>1, RestOf
<1>. HIDE DEF given, rest
<1>8. PICK T : given \in Seq(T) /\ Len(given) = N
  BY <1>3, <1>5, SequenceOf
<1>9. /\ nodes' \in Seq(T \cup {made}) /\ Len(nodes') = N + 1 /\ nodes'[N + 1] = made
      /\ \A n \in 1 .. N : nodes'[n] = given[n]
  <2>1. /\ Append(given, made) \in Seq(T \cup {made})
        /\ Len(Append(given, made)) = N + 1 /\ Append(given, made)[N + 1] = made
        /\ \A n \in 1 .. N : Append(given, made)[n] = given[n]
    BY <1>8, Appended
  <2>. QED  BY <1>1, <2>1
<1>10. /\ queue' \in Seq(1 .. N + 1) /\ Len(queue') = Len(queue) - 1
       /\ \A j \in 1 .. Len(queue) - 2 : queue'[j] = queue[j + 2]
       /\ queue'[Len(queue) - 1] = N + 1
  <2>1. rest \in Seq(1 .. N + 1) /\ root \in 1 .. N + 1 /\ root = N + 1
    BY <1>3, <1>7 DEF root
  <2>2. /\ Append(rest, root) \in Seq(1 .. N + 1) /\ Len(Append(rest, root)) = Len(rest) + 1
        /\ \A j \in 1 .. Len(rest) : Append(rest, root)[j] = rest[j]
        /\ Append(rest, root)[Len(rest) + 1] = root
    BY <2>1
  <2>3. Len(queue) - 2 + 1 = Len(queue) - 1
    BY <1>3
  <2>. QED  BY <1>1, <1>7, <2>1, <2>2, <2>3
<1>11. \A n \in 1 .. N : nodes'[n] = IF n \in {one, two} THEN [nodes[n] EXCEPT !.parent = N + 1]
                                     ELSE nodes[n]
  BY <1>6, <1>9 DEF root
<1>12. Len(queue) >= 2
  BY <1>1, <1>3
<1>. QED  BY <1>1, <1>3, <1>4, <1>9, <1>10, <1>11, <1>12 DEF N

LEMMA JoinKeeps == ASSUME TreeInv, Tree!Join PROVE TreeInv'
<1>. DEFINE N == Len(nodes)
<1>1. /\ one \in 1 .. N /\ two \in 1 .. N /\ one # two
      /\ nodes[one].parent = 0 /\ nodes[two].parent = 0
      /\ items' = items /\ built' = built /\ ~built
      /\ N \in Nat /\ Len(queue) \in Nat /\ Len(queue) >= 2
      /\ (\E S : nodes' \in Seq(S)) /\ Len(nodes') = N + 1
  BY JoinMakes
<1>2. /\ nodes'[N + 1].hash = Tree!Concat(nodes[one].hash, nodes[two].hash)
      /\ nodes'[N + 1].left = one /\ nodes'[N + 1].right = two /\ nodes'[N + 1].parent = 0
      /\ nodes'[N + 1] = [hash |-> nodes'[N + 1].hash, left |-> nodes'[N + 1].left,
                          right |-> nodes'[N + 1].right, parent |-> nodes'[N + 1].parent]
  <2>1. nodes'[N + 1] = [hash |-> Tree!Concat(nodes[one].hash, nodes[two].hash), left |-> one,
                         right |-> two, parent |-> 0]
    BY JoinMakes DEF made
  <2>. QED  BY <2>1
<1>3. ASSUME NEW n \in 1 .. N
      PROVE  /\ NodeOK(n)
             /\ nodes'[n].hash = nodes[n].hash
             /\ nodes'[n].left = nodes[n].left /\ nodes'[n].right = nodes[n].right
             /\ nodes'[n].parent = IF n \in {one, two} THEN N + 1 ELSE nodes[n].parent
             /\ nodes'[n] = [hash |-> nodes'[n].hash, left |-> nodes'[n].left,
                             right |-> nodes'[n].right, parent |-> nodes'[n].parent]
  <2>1. nodes'[n] = IF n \in {one, two} THEN [nodes[n] EXCEPT !.parent = N + 1] ELSE nodes[n]
    BY JoinMakes
  <2>2. NodeOK(n)
    BY DEF TreeInv
  <2>3. nodes[n] = [hash |-> nodes[n].hash, left |-> nodes[n].left, right |-> nodes[n].right,
                    parent |-> nodes[n].parent]
    BY <2>2 DEF NodeOK
  <2>4. CASE n \in {one, two}
    <3>1. nodes'[n] = [hash |-> nodes[n].hash, left |-> nodes[n].left, right |-> nodes[n].right,
                       parent |-> N + 1]
      BY <2>1, <2>3, <2>4
    <3>. QED  BY <2>2, <2>4, <3>1
  <2>5. CASE n \notin {one, two}
    <3>1. nodes'[n] = nodes[n]
      BY <2>1, <2>5
    <3>. QED  BY <2>2, <2>3, <2>5, <3>1
  <2>. QED  BY <2>4, <2>5
<1>4. fringe' = fringe /\ Len(fringe) \in Nat /\ Len(fringe) <= N
  <2>1. PICK S : items \in Seq(S) \ {<<>>}
    BY DEF TreeInv
  <2>2. Len(fringe) \in Nat
    BY <2>1, FringeOfItems DEF fringe
  <2>. QED  BY <1>1, <2>2 DEF fringe, TreeInv
<1>. HIDE DEF N
<1>5. ASSUME NEW n \in 1 .. N  PROVE NodeOK(n)'
  <2>1. n > Len(fringe) =>
          /\ nodes'[n].left \in 1 .. (n - 1) /\ nodes'[n].right \in 1 .. (n - 1)
          /\ nodes'[n].left # nodes'[n].right
          /\ nodes'[n].hash = Tree!Concat(nodes'[nodes'[n].left].hash, nodes'[nodes'[n].right].hash)
    <3>. SUFFICES ASSUME n > Len(fringe)
                  PROVE  /\ nodes'[n].left \in 1 .. (n - 1) /\ nodes'[n].right \in 1 .. (n - 1)
                         /\ nodes'[n].left # nodes'[n].right
                         /\ nodes'[n].hash = Tree!Concat(nodes'[nodes'[n].left].hash,
                                                         nodes'[nodes'[n].right].hash)
      OBVIOUS
    <3>1. /\ nodes[n].left \in 1 .. (n - 1) /\ nodes[n].right \in 1 .. (n - 1)
          /\ nodes[n].left # nodes[n].right
          /\ nodes[n].hash = Tree!Concat(nodes[nodes[n].left].hash, nodes[nodes[n].right].hash)
      BY <1>3 DEF NodeOK
    <3>2. PICK a \in 1 .. N, b \in 1 .. N : a = nodes[n].left /\ b = nodes[n].right
      BY <1>1, <3>1
    <3>3. nodes'[a].hash = nodes[a].hash /\ nodes'[b].hash = nodes[b].hash
      BY <1>3
    <3>4. nodes'[n].hash = nodes[n].hash /\ nodes'[n].left = a /\ nodes'[n].right = b
      BY <1>3, <3>2
    <3>. QED  BY <3>1, <3>2, <3>3, <3>4
  <2>2. n <= Len(fringe) =>
          nodes'[n].left = 0 /\ nodes'[n].right = 0 /\ nodes'[n].hash = Tree!Leaf(fringe[n])
    BY <1>3 DEF NodeOK
  <2>3. nodes'[n].parent # 0 =>
          /\ nodes'[n].parent \in (n + 1) .. (N + 1)
          /\ n \in {nodes'[nodes'[n].parent].left, nodes'[nodes'[n].parent].right}
    <3>1. CASE n \in {one, two}
      <4>1. nodes'[n].parent = N + 1  BY <1>3, <3>1
      <4>. QED  BY <1>1, <1>2, <3>1, <4>1
    <3>2. CASE n \notin {one, two}
      <4>1. nodes'[n].parent = nodes[n].parent  BY <1>3, <3>2
      <4>. SUFFICES ASSUME nodes[n].parent # 0
                    PROVE  /\ nodes[n].parent \in (n + 1) .. (N + 1)
                           /\ n \in {nodes'[nodes[n].parent].left, nodes'[nodes[n].parent].right}
        BY <4>1
      <4>2. /\ nodes[n].parent \in (n + 1) .. N
            /\ n \in {nodes[nodes[n].parent].left, nodes[nodes[n].parent].right}
        BY <1>3 DEF NodeOK, N
      <4>3. nodes[n].parent \in 1 .. N /\ nodes[n].parent \in (n + 1) .. (N + 1)
        BY <1>1, <4>2
      <4>. QED  BY <1>3, <4>2, <4>3
    <3>. QED  BY <3>1, <3>2
  <2>. QED  BY <1>1, <1>3, <1>4, <2>1, <2>2, <2>3 DEF NodeOK
<1>6. ASSUME NEW m \in Nat, m = N + 1  PROVE NodeOK(m)'
  <2>1. m > Len(fringe) /\ ~(m <= Len(fringe)) /\ one \in 1 .. (m - 1) /\ two \in 1 .. (m - 1)
    BY <1>1, <1>4, <1>6
  <2>2. nodes'[one].hash = nodes[one].hash /\ nodes'[two].hash = nodes[two].hash
    BY <1>1, <1>3
  <2>. QED  BY <1>1, <1>2, <1>4, <1>6, <2>1, <2>2 DEF NodeOK
<1>7. QueueOK'
  <2>1. /\ queue' \in Seq(1 .. N + 1) /\ Len(queue') = Len(queue) - 1
        /\ \A j \in 1 .. Len(queue) - 2 : queue'[j] = queue[j + 2]
        /\ queue'[Len(queue) - 1] = N + 1
    BY JoinMakes DEF N
  <2>. DEFINE L == Len(queue)
  <2>2. L \in Nat /\ L >= 2
    BY <1>1
  <2>3. /\ \A j \in 1 .. L : queue[j] \in 1 .. N
        /\ \A a, b \in 1 .. L : queue[a] = queue[b] => a = b
        /\ \A n \in 1 .. N : nodes[n].parent = 0 <=> \E j \in 1 .. L : queue[j] = n
    BY DEF TreeInv, QueueOK, N
  <2>4. queue[1] = one /\ queue[2] = two
    BY DEF one, two
  <2>. HIDE DEF L
  <2>5. \A j \in 1 .. L - 2 : j + 2 \in 1 .. L /\ j + 2 # 1 /\ j + 2 # 2
    BY <2>2
  <2>6. \A j \in 1 .. L - 2 : queue'[j] = queue[j + 2] /\ queue'[j] \in 1 .. N
    BY <2>1, <2>3, <2>5 DEF L
  <2>7. queue'[L - 1] = N + 1 /\ Len(queue') = L - 1 /\ L - 1 \in 1 .. L - 1
        /\ \A j \in 1 .. L - 1 : j \in 1 .. L - 2 \/ j = L - 1
    BY <2>1, <2>2 DEF L
  <2>8. \A a, b \in 1 .. L - 1 : queue'[a] = queue'[b] => a = b
    <3>. SUFFICES ASSUME NEW a \in 1 .. L - 1, NEW b \in 1 .. L - 1, queue'[a] = queue'[b]
                  PROVE  a = b
      OBVIOUS
    <3>1. CASE a \in 1 .. L - 2 /\ b \in 1 .. L - 2
      <4>1. queue[a + 2] = queue[b + 2] /\ a + 2 \in 1 .. L /\ b + 2 \in 1 .. L
        BY <2>5, <2>6, <3>1
      <4>2. a + 2 = b + 2
        BY <2>3, <4>1
      <4>. QED  BY <4>2
    <3>2. CASE a = L - 1 /\ b \in 1 .. L - 2
      BY <1>1, <2>6, <2>7, <3>2
    <3>3. CASE b = L - 1 /\ a \in 1 .. L - 2
      BY <1>1, <2>6, <2>7, <3>3
    <3>. QED  BY <2>7, <3>1, <3>2, <3>3
  <2>9. ASSUME NEW n \in 1 .. N
        PROVE  nodes'[n].parent = 0 <=> \E j \in 1 .. L - 1 : queue'[j] = n
    <3>1. nodes'[n].parent = 0 <=> nodes[n].parent = 0 /\ n \notin {one, two}
      <4>1. N + 1 # 0
        BY <1>1
      <4>2. nodes'[n].parent = IF n \in {one, two} THEN N + 1 ELSE nodes[n].parent
        BY <1>3
      <4>. QED  BY <4>1, <4>2
    <3>2. ASSUME NEW j \in 1 .. L - 1, queue'[j] = n
          PROVE  nodes[n].parent = 0 /\ n \notin {one, two}
      <4>1. j \in 1 .. L - 2
        BY <1>1, <2>7, <3>2
      <4>2. n = queue[j + 2] /\ j + 2 \in 1 .. L /\ j + 2 # 1 /\ j + 2 # 2
        BY <2>5, <2>6, <3>2, <4>1
      <4>3. 1 \in 1 .. L /\ 2 \in 1 .. L
        BY <2>2
      <4>. QED  BY <2>3, <2>4, <4>2, <4>3
    <3>3. ASSUME nodes[n].parent = 0, n \notin {one, two}
          PROVE  \E j \in 1 .. L - 1 : queue'[j] = n
      <4>1. PICK j \in 1 .. L : queue[j] = n
        BY <2>3, <3>3
      <4>2. j # 1 /\ j # 2
        BY <2>4, <3>3, <4>1
      <4>3. j - 2 \in 1 .. L - 2 /\ j - 2 \in 1 .. L - 1 /\ j - 2 + 2 = j
        BY <2>2, <4>2
      <4>4. queue'[j - 2] = n
        BY <2>6, <4>1, <4>3
      <4>. QED  BY <4>3, <4>4
    <3>. QED  BY <3>1, <3>2, <3>3
  <2>10. queue' # <<>>
    BY <2>2, <2>7
  <2>11. \A n \in 1 .. N + 1 : nodes'[n].parent = 0 <=> \E j \in 1 .. L - 1 : queue'[j] = n
    <3>1. \A n \in 1 .. N + 1 : n \in 1 .. N \/ n = N + 1
      BY <1>1
    <3>2. nodes'[N + 1].parent = 0 /\ \E j \in 1 .. L - 1 : queue'[j] = N + 1
      BY <1>2, <2>7
    <3>. QED  BY <2>9, <3>1, <3>2
  <2>. QED  BY <1>1, <2>1, <2>7, <2>8, <2>10, <2>11 DEF QueueOK, N
<1>8. \E S : items' \in Seq(S) \ {<<>>}
  BY <1>1 DEF TreeInv
<1>9. Len(fringe') <= Len(nodes')
  BY <1>1, <1>4
<1>10. \A n \in 1 .. Len(nodes') : NodeOK(n)'
  <2>1. \A n \in 1 .. Len(nodes') : n \in 1 .. N \/ (n \in Nat /\ n = N + 1)
    BY <1>1
  <2>. QED  BY <1>5, <1>6, <2>1
<1>. QED  BY <1>1, <1>7, <1>8, <1>9, <1>10 DEF TreeInv

LEMMA TreeInvHolds == Spec => []TreeInv
<1>1. Init => TreeInv
  BY TreeStarts DEF Init
<1>2. ASSUME TreeInv, [Next]_vars  PROVE TreeInv'
  <2>1. [Tree!Next]_Tree!vars
    BY <1>2, PartsStep
  <2>2. ASSUME items' = items, nodes' = nodes, queue' = queue, built' => Len(queue) = 1
        PROVE  TreeInv'
    BY <1>2, <2>2 DEF TreeInv, QueueOK, NodeOK, fringe
  <2>3. CASE Tree!SetItemsReturns
    BY <2>2, <2>3 DEF Tree!SetItemsReturns
  <2>4. CASE UNCHANGED Tree!vars
    BY <1>2, <2>2, <2>4 DEF Tree!vars, TreeInv, QueueOK
  <2>. QED  BY <1>2, <2>1, <2>3, <2>4, JoinKeeps DEF Tree!Next
<1>. QED  BY <1>1, <1>2, PTL DEF Spec

\* What is hashed is copies, of a call's vector.
CopiesInv ==
  /\ \A n \in DOMAIN items :
       items[n] = Tree!Copy(items[n].of, items[n].nonce) /\ items[n].nonce \in nonces
  /\ \E c \in Calls : items \in Tree!Hashed(c) /\ nonces = c.nonces

LEMMA HashedIsCopies ==
  ASSUME NEW c \in Calls, NEW s \in Tree!Hashed(c), NEW n \in DOMAIN s
  PROVE  s[n] = Tree!Copy(s[n].of, s[n].nonce) /\ s[n].nonce \in c.nonces
<1>1. PICK o \in Tree!Orders(c), r \in [DOMAIN c.vector -> c.nonces] :
        s = [p \in DOMAIN c.vector |-> Tree!Copy(o[p], r[p])]
  BY DEF Tree!Hashed
<1>2. n \in DOMAIN c.vector /\ s[n] = Tree!Copy(o[n], r[n]) /\ r[n] \in c.nonces
  BY <1>1
<1>. QED  BY <1>2 DEF Tree!Copy

LEMMA CopiesInvHolds == Spec => []CopiesInv
<1>1. Init => CopiesInv
  <2>. SUFFICES ASSUME Tree!Init  PROVE CopiesInv
    BY DEF Init
  <2>1. PICK c \in Calls : items \in Tree!Hashed(c) /\ nonces = c.nonces
    BY DEF Tree!Init
  <2>. QED  BY <2>1, HashedIsCopies DEF CopiesInv
<1>2. ASSUME CopiesInv, [Next]_vars  PROVE CopiesInv'
  <2>1. [Tree!Next]_Tree!vars
    BY <1>2, PartsStep
  <2>2. items' = items /\ nonces' = nonces
    BY <2>1 DEF Tree!vars, Tree!Next, Tree!Join, Tree!SetItemsReturns
  <2>. QED  BY <1>2, <2>2 DEF CopiesInv
<1>. QED  BY <1>1, <1>2, PTL DEF Spec

-----------------------------------------------------------------------------
(***************************************************************************)
(* Merkle trees, when they are made: the root is the last node, and the    *)
(* only one that has no parent.                                            *)
(***************************************************************************)
top == Len(nodes)

LEMMA RootIsLast ==
  ASSUME TreeInv, built
  PROVE  /\ top \in Nat /\ DOMAIN nodes = 1 .. top /\ top \in 1 .. top
         /\ Len(fringe) \in Nat /\ 2 <= Len(fringe) /\ Len(fringe) < top
         /\ queue[1] = top /\ nodes[top].parent = 0
         /\ \A n \in 1 .. top : n # top => nodes[n].parent \in (n + 1) .. top
<1>1. PICK S : nodes \in Seq(S)
  BY DEF TreeInv
<1>2. top \in Nat /\ DOMAIN nodes = 1 .. top
  BY <1>1 DEF top
<1>3. Len(fringe) \in Nat /\ 2 <= Len(fringe) /\ Len(fringe) <= top
  <2>1. PICK T : items \in Seq(T) \ {<<>>}
    BY DEF TreeInv
  <2>2. Len(fringe) \in Nat /\ Len(fringe) >= 2
    BY <2>1, FringeOfItems DEF fringe
  <2>. QED  BY <2>2 DEF TreeInv, top
<1>4. \A n \in 1 .. top : nodes[n].parent = 0 <=> n = queue[1]
  <2>1. /\ Len(queue) = 1
        /\ \A n \in 1 .. top : nodes[n].parent = 0 <=> \E j \in 1 .. Len(queue) : queue[j] = n
    BY DEF TreeInv, QueueOK, top
  <2>2. \A j \in 1 .. 1 : j = 1
    OBVIOUS
  <2>. QED  BY <2>1, <2>2
<1>5. \A n \in 1 .. top : nodes[n].parent # 0 => nodes[n].parent \in (n + 1) .. top
  BY DEF TreeInv, NodeOK, top
<1>6. top \in 1 .. top /\ 1 \in 1 .. top /\ (top + 1) .. top = {}
  BY <1>2, <1>3
<1>7. nodes[top].parent = 0 /\ queue[1] = top
  BY <1>4, <1>5, <1>6
<1>8. top # Len(fringe)
  <2>. SUFFICES ASSUME top = Len(fringe)  PROVE FALSE
    OBVIOUS
  <2>1. nodes[1].parent # 0
    BY <1>3, <1>4, <1>6, <1>7
  <2>2. nodes[1].parent \in 1 .. top /\ 1 \in {nodes[nodes[1].parent].left, nodes[nodes[1].parent].right}
    BY <1>2, <1>5, <1>6, <2>1 DEF TreeInv, NodeOK, top
  <2>3. \A n \in 1 .. top : nodes[n].left = 0 /\ nodes[n].right = 0
    BY <1>2 DEF TreeInv, NodeOK, top
  <2>. QED  BY <2>2, <2>3
<1>. QED  BY <1>2, <1>3, <1>4, <1>5, <1>6, <1>7, <1>8

\* The root is above two earlier nodes, and so is every node that is no leaf.
LEMMA NodesHash ==
  ASSUME TreeInv, built, NEW n \in 1 .. top
  PROVE  /\ n <= Len(fringe) =>
              nodes[n].left = 0 /\ nodes[n].right = 0 /\ nodes[n].hash = Tree!Leaf(fringe[n])
         /\ n > Len(fringe) =>
              /\ nodes[n].left \in 1 .. (n - 1) /\ nodes[n].right \in 1 .. (n - 1)
              /\ nodes[n].left # nodes[n].right
         /\ Tree!HashesUp(nodes[n])
<1>. top \in Nat /\ Len(fringe) \in Nat /\ NodeOK(n)
  BY RootIsLast DEF TreeInv, top
<1>1. CASE n <= Len(fringe)
  BY <1>1 DEF NodeOK, Tree!HashesUp
<1>2. CASE n > Len(fringe)
  BY <1>2 DEF NodeOK, Tree!HashesUp
<1>. QED  BY <1>1, <1>2

proofOfRoot == Tree!Node(nodes[top].hash, nodes[top].left, nodes[top].right)

\* Whichever child of the root getProof comes from, it answers with both.
LEMMA CopyOfRoot ==
  ASSUME TreeInv, built
  PROVE  /\ Tree!CopyOver(top, nodes[top].left) = proofOfRoot
         /\ Tree!CopyOver(top, nodes[top].right) = proofOfRoot
<1>1. /\ nodes[top].left # 0 /\ nodes[top].right # 0
      /\ nodes[top].left # nodes[top].right
  BY RootIsLast, NodesHash
<1>. QED  BY <1>1 DEF Tree!CopyOver, proofOfRoot

\* getProof as a function: it climbs, and copies where there is no parent.
Climbs(g) ==
  g = [c \in (DOMAIN nodes) \X ({0} \cup DOMAIN nodes) |->
         IF nodes[c[1]].parent # 0 THEN g[<<nodes[c[1]].parent, c[1]>>]
         ELSE Tree!CopyOver(c[1], c[2])]

LEMMA ParentIsNode ==
  ASSUME TreeInv, built, NEW n \in 1 .. top, n # top
  PROVE  /\ nodes[n].parent # 0 /\ nodes[n].parent \in 1 .. top
         /\ n \in {nodes[nodes[n].parent].left, nodes[nodes[n].parent].right}
<1>1. top \in Nat /\ nodes[n].parent \in (n + 1) .. top
  BY RootIsLast
<1>2. nodes[n].parent # 0 /\ nodes[n].parent \in 1 .. top
  BY <1>1
<1>. QED  BY <1>2 DEF TreeInv, NodeOK, top

LEMMA ClimbsExist == ASSUME TreeInv, built PROVE \E g : Climbs(g)
<1>. DEFINE C == (1 .. top) \X ({0} \cup (1 .. top))
            g == [c \in C |-> IF c[1] = top THEN Tree!CopyOver(top, c[2]) ELSE proofOfRoot]
            h == [c \in C |-> IF nodes[c[1]].parent # 0 THEN g[<<nodes[c[1]].parent, c[1]>>]
                              ELSE Tree!CopyOver(c[1], c[2])]
<1>1. DOMAIN nodes = 1 .. top /\ nodes[top].parent = 0
  BY RootIsLast
<1>2. ASSUME NEW c \in C  PROVE g[c] = h[c]
  <2>1. PICK n \in 1 .. top, p \in {0} \cup (1 .. top) : c = <<n, p>> /\ c[1] = n /\ c[2] = p
    OBVIOUS
  <2>2. CASE n = top
    BY <1>1, <2>1, <2>2
  <2>3. CASE n # top
    <3>1. /\ nodes[n].parent # 0 /\ nodes[n].parent \in 1 .. top
          /\ n \in {nodes[nodes[n].parent].left, nodes[nodes[n].parent].right}
      BY <2>3, ParentIsNode
    <3>2. PICK m \in 1 .. top : m = nodes[n].parent
      BY <3>1
    <3>3. h[c] = g[<<m, n>>]
      BY <2>1, <3>1, <3>2
    <3>4. <<m, n>> \in C /\ <<m, n>>[1] = m /\ <<m, n>>[2] = n
      OBVIOUS
    <3>5. g[<<m, n>>] = IF m = top THEN Tree!CopyOver(top, n) ELSE proofOfRoot
      BY <3>4
    <3>6. m = top => Tree!CopyOver(top, n) = proofOfRoot
      BY <3>1, <3>2, CopyOfRoot
    <3>7. g[c] = proofOfRoot
      BY <2>1, <2>3
    <3>. QED  BY <3>3, <3>5, <3>6, <3>7
  <2>. QED  BY <2>2, <2>3
<1>3. g = h
  BY <1>2
<1>4. Climbs(g)
  BY <1>1, <1>3 DEF Climbs
<1>. QED  BY <1>4

\* getProof of any other node is the root over its two children.
LEMMA ProofIsOfRoot ==
  ASSUME TreeInv, built, NEW leaf \in 1 .. top, leaf # top
  PROVE  Tree!GetProof(leaf) = proofOfRoot
<1>. DEFINE g == CHOOSE g : g = [c \in (DOMAIN nodes) \X ({0} \cup DOMAIN nodes) |->
                   IF nodes[c[1]].parent # 0 THEN g[<<nodes[c[1]].parent, c[1]>>]
                   ELSE Tree!CopyOver(c[1], c[2])]
            D == 1 .. top
            S == {d \in Nat : \A n \in D, p \in {0} \cup D :
                                n # top /\ top - n <= d => g[<<n, p>>] = proofOfRoot}
<1>1. Climbs(g)
  BY ClimbsExist DEF Climbs
<1>2. Tree!GetProof(leaf) = g[<<leaf, 0>>]
  BY DEF Tree!GetProof
<1>. HIDE DEF g
<1>3. top \in Nat /\ DOMAIN nodes = D /\ nodes[top].parent = 0
  BY RootIsLast
<1>4. ASSUME NEW n \in D, NEW p \in {0} \cup D
      PROVE  g[<<n, p>>] = IF nodes[n].parent # 0 THEN g[<<nodes[n].parent, n>>]
                           ELSE Tree!CopyOver(n, p)
  <2>1. <<n, p>> \in D \X ({0} \cup D) /\ <<n, p>>[1] = n /\ <<n, p>>[2] = p
    OBVIOUS
  <2>. HIDE DEF D
  <2>. QED  BY <1>1, <1>3, <2>1 DEF Climbs
<1>5. ASSUME NEW n \in D, NEW p \in {0} \cup D, n # top,
             nodes[n].parent # top => g[<<nodes[n].parent, n>>] = proofOfRoot
      PROVE  g[<<n, p>>] = proofOfRoot
  <2>1. /\ nodes[n].parent # 0 /\ nodes[n].parent \in D
        /\ n \in {nodes[nodes[n].parent].left, nodes[nodes[n].parent].right}
    BY <1>5, ParentIsNode
  <2>2. g[<<n, p>>] = g[<<nodes[n].parent, n>>]
    BY <1>4, <2>1
  <2>3. CASE nodes[n].parent = top
    <3>1. g[<<top, n>>] = Tree!CopyOver(top, n)
      BY <1>3, <1>4, <2>1, <2>3
    <3>. QED  BY <2>1, <2>2, <2>3, <3>1, CopyOfRoot
  <2>. QED  BY <1>5, <2>2, <2>3
<1>6. 0 \in S
  <2>1. \A n \in D : top - n <= 0 => n = top
    BY <1>3
  <2>. QED  BY <2>1
<1>7. ASSUME NEW d \in Nat, d \in S  PROVE d + 1 \in S
  <2>. SUFFICES ASSUME NEW n \in D, NEW p \in {0} \cup D, n # top, top - n <= d + 1
                PROVE  g[<<n, p>>] = proofOfRoot
    OBVIOUS
  <2>1. nodes[n].parent \in (n + 1) .. top
    BY RootIsLast
  <2>2. nodes[n].parent \in D /\ top - nodes[n].parent <= d
    BY <1>3, <2>1
  <2>3. nodes[n].parent # top => g[<<nodes[n].parent, n>>] = proofOfRoot
    BY <1>7, <2>2
  <2>. QED  BY <1>5, <2>3
<1>. HIDE DEF S
<1>8. top - leaf \in Nat
  BY <1>3
<1>9. top - leaf \in S
  BY <1>6, <1>7, <1>8, Induction
<1>10. g[<<leaf, 0>>] = proofOfRoot
  <2>1. top - leaf <= top - leaf
    BY <1>3
  <2>. QED  BY <1>9, <2>1 DEF S
<1>. QED  BY <1>2, <1>10

\* The nodes below a node, and it: the function, and the set it gives.
Descends(u) ==
  u = [n \in DOMAIN nodes |-> {n} \cup UNION {u[m] : m \in Tree!Below(n)}]

LEMMA ChildrenAreNodes ==
  ASSUME TreeInv, built, NEW n \in 1 .. top
  PROVE  Tree!Below(n) \subseteq 1 .. (n - 1)
<1>1. top \in Nat /\ Len(fringe) \in Nat
  BY RootIsLast
<1>2. CASE n <= Len(fringe)
  BY <1>2, NodesHash DEF Tree!Below
<1>3. CASE n > Len(fringe)
  BY <1>3, NodesHash DEF Tree!Below
<1>. QED  BY <1>1, <1>2, <1>3

LEMMA DescendsExist == ASSUME TreeInv, built PROVE \E u : Descends(u)
<1>. DEFINE D == 1 .. top
            Closed(S) == \A y \in S : Tree!Below(y) \subseteq S
            reach(n) == {x \in D : \A S \in SUBSET D : n \in S /\ Closed(S) => x \in S}
            u == [n \in D |-> reach(n)]
<1>1. DOMAIN nodes = D /\ \A n \in D : Tree!Below(n) \subseteq D
  <2>1. top \in Nat /\ DOMAIN nodes = D
    BY RootIsLast
  <2>2. \A n \in D : 1 .. (n - 1) \subseteq D
    BY <2>1
  <2>. QED  BY <2>1, <2>2, ChildrenAreNodes
<1>. HIDE DEF D
<1>2. ASSUME NEW n \in D  PROVE reach(n) = {n} \cup UNION {reach(m) : m \in Tree!Below(n)}
  <2>. DEFINE T == {n} \cup UNION {reach(m) : m \in Tree!Below(n)}
  <2>1. T \subseteq reach(n)
    <3>1. n \in reach(n)
      BY <1>2
    <3>2. ASSUME NEW m \in Tree!Below(n), NEW x \in reach(m)  PROVE x \in reach(n)
      OBVIOUS
    <3>. QED  BY <3>1, <3>2
  <2>2. T \subseteq D
    BY <1>2
  <2>3. Closed(T)
    <3>1. ASSUME NEW z \in Tree!Below(n)  PROVE z \in T
      <4>1. z \in D
        BY <1>1, <1>2
      <4>2. z \in reach(z)
        BY <4>1
      <4>. QED  BY <4>2
    <3>2. ASSUME NEW m \in Tree!Below(n), NEW y \in reach(m), NEW z \in Tree!Below(y)
          PROVE  z \in T
      <4>1. z \in D
        BY <1>1
      <4>2. z \in reach(m)
        BY <4>1
      <4>. QED  BY <4>2
    <3>. QED  BY <3>1, <3>2
  <2>4. reach(n) \subseteq T
    <3>1. n \in T
      OBVIOUS
    <3>. HIDE DEF T
    <3>. QED  BY <2>2, <2>3, <3>1
  <2>. QED  BY <2>1, <2>4
<1>. HIDE DEF reach
<1>3. \A n \in D : {u[m] : m \in Tree!Below(n)} = {reach(m) : m \in Tree!Below(n)}
  BY <1>1
<1>4. u = [n \in D |-> {n} \cup UNION {u[m] : m \in Tree!Below(n)}]
  BY <1>2, <1>3
<1>. HIDE DEF u
<1>5. Descends(u)
  BY <1>1, <1>4 DEF Descends
<1>. QED  BY <1>5

\* What is below a node, and the node itself, are nodes; what is below them is too;
\* and every node but the root is below one of the root's children.
LEMMA UnderNodes ==
  ASSUME TreeInv, built
  PROVE  /\ \A n \in 1 .. top : Tree!Under(n) \subseteq 1 .. top
         /\ \A n \in 1 .. top : n # top => \E c \in Tree!Below(top) : n \in Tree!Under(c)
<1>. DEFINE u == CHOOSE u : u = [n \in DOMAIN nodes |-> {n} \cup UNION {u[m] : m \in Tree!Below(n)}]
            D == 1 .. top
            Good(n) == u[n] \subseteq D /\ \A y \in u[n] : Tree!Below(y) \subseteq u[n]
            S == {d \in Nat : \A n \in D : n <= d => Good(n)}
            R == {d \in Nat : \A n \in D : n # top /\ top - n <= d =>
                                \E c \in Tree!Below(top) : n \in u[c]}
<1>1. Descends(u)
  BY DescendsExist DEF Descends
<1>2. \A n : Tree!Under(n) = u[n]
  BY DEF Tree!Under
<1>. HIDE DEF u
<1>3. top \in Nat /\ DOMAIN nodes = D /\ top \in D
  BY RootIsLast
<1>4. ASSUME NEW n \in D  PROVE u[n] = {n} \cup UNION {u[m] : m \in Tree!Below(n)}
  BY <1>1, <1>3 DEF Descends
<1>5. ASSUME NEW n \in D  PROVE \A m \in Tree!Below(n) : m \in D /\ m < n
  <2>1. \A m \in 1 .. (n - 1) : m \in D /\ m < n
    BY <1>3
  <2>. QED  BY <2>1, ChildrenAreNodes
<1>6. ASSUME NEW n \in D, \A m \in Tree!Below(n) : Good(m)  PROVE Good(n)
  <2>1. u[n] \subseteq D
    BY <1>4, <1>6
  <2>2. ASSUME NEW y \in u[n]  PROVE Tree!Below(y) \subseteq u[n]
    <3>1. CASE y = n
      <4>1. \A m \in Tree!Below(n) : m \in D /\ m \in u[m]
        BY <1>4, <1>5
      <4>2. Tree!Below(n) \subseteq u[n]
        BY <1>4, <4>1
      <4>. QED  BY <3>1, <4>2
    <3>2. CASE y # n
      <4>1. PICK m \in Tree!Below(n) : y \in u[m]
        BY <1>4, <2>2, <3>2
      <4>2. Tree!Below(y) \subseteq u[m]
        BY <1>6, <4>1
      <4>3. u[m] \subseteq u[n]
        BY <1>4
      <4>. QED  BY <4>2, <4>3
    <3>. QED  BY <3>1, <3>2
  <2>. QED  BY <2>1, <2>2
<1>. HIDE DEF Good
<1>7. 0 \in S
  OBVIOUS
<1>8. ASSUME NEW d \in Nat, d \in S  PROVE d + 1 \in S
  <2>. SUFFICES ASSUME NEW n \in D, n <= d + 1  PROVE Good(n)
    OBVIOUS
  <2>1. \A m \in D : m < n => m <= d
    OBVIOUS
  <2>2. \A m \in Tree!Below(n) : Good(m)
    BY <1>5, <1>8, <2>1
  <2>. QED  BY <1>6, <2>2
<1>. HIDE DEF S
<1>9. \A n \in D : Good(n)
  <2>1. top \in S
    BY <1>3, <1>7, <1>8, Induction
  <2>2. \A n \in D : n <= top
    BY <1>3
  <2>. QED  BY <2>1, <2>2 DEF S
<1>10. 0 \in R
  <2>1. \A n \in D : top - n <= 0 => n = top
    BY <1>3
  <2>. QED  BY <2>1
<1>11. ASSUME NEW d \in Nat, d \in R  PROVE d + 1 \in R
  <2>. SUFFICES ASSUME NEW n \in D, n # top, top - n <= d + 1
                PROVE  \E c \in Tree!Below(top) : n \in u[c]
    OBVIOUS
  <2>1. PICK m \in D : m = nodes[n].parent /\ top - m <= d
    <3>1. nodes[n].parent \in (n + 1) .. top
      BY RootIsLast
    <3>2. nodes[n].parent \in D /\ top - nodes[n].parent <= d
      BY <1>3, <3>1
    <3>. QED  BY <3>2
  <2>2. n \in Tree!Below(m)
    <3>1. n \in {nodes[m].left, nodes[m].right} /\ n # 0
      BY <2>1, ParentIsNode
    <3>. QED  BY <3>1 DEF Tree!Below
  <2>3. CASE m = top
    BY <1>4, <2>2, <2>3
  <2>4. CASE m # top
    <3>1. PICK c \in Tree!Below(top) : m \in u[c]
      BY <1>11, <2>1, <2>4
    <3>2. Tree!Below(m) \subseteq u[c]
      BY <1>3, <1>5, <1>9, <3>1 DEF Good
    <3>. QED  BY <2>2, <3>1, <3>2
  <2>. QED  BY <2>3, <2>4
<1>. HIDE DEF R
<1>12. \A n \in D : n # top => \E c \in Tree!Below(top) : n \in u[c]
  <2>1. top \in R
    BY <1>3, <1>10, <1>11, Induction
  <2>2. \A n \in D : top - n <= top
    BY <1>3
  <2>. QED  BY <2>1, <2>2 DEF R
<1>. QED  BY <1>2, <1>9, <1>12 DEF Good

\* Of a number's places in a vector one is the last.
LEMMA LastPlace ==
  ASSUME NEW S, NEW v \in Seq(S), NEW n \in DOMAIN v
  PROVE  \E m \in DOMAIN v : v[m] = v[n] /\ \A j \in m + 1 .. Len(v) : v[j] # v[n]
<1>. DEFINE P == {d \in Nat : \A m \in DOMAIN v : v[m] = v[n] /\ Len(v) - m <= d =>
                   \E e \in DOMAIN v : v[e] = v[n] /\ \A j \in e + 1 .. Len(v) : v[j] # v[n]}
<1>1. DOMAIN v = 1 .. Len(v) /\ Len(v) \in Nat
  OBVIOUS
<1>2. 0 \in P
  <2>. SUFFICES ASSUME NEW m \in DOMAIN v, v[m] = v[n], Len(v) - m <= 0
                PROVE  \A j \in m + 1 .. Len(v) : v[j] # v[n]
    OBVIOUS
  <2>1. m + 1 .. Len(v) = {}
    BY <1>1
  <2>. QED  BY <2>1
<1>3. ASSUME NEW d \in Nat, d \in P  PROVE d + 1 \in P
  <2>. SUFFICES ASSUME NEW m \in DOMAIN v, v[m] = v[n], Len(v) - m <= d + 1,
                       ~ \A j \in m + 1 .. Len(v) : v[j] # v[n]
                PROVE  \E e \in DOMAIN v : v[e] = v[n] /\ \A j \in e + 1 .. Len(v) : v[j] # v[n]
    OBVIOUS
  <2>1. PICK j \in m + 1 .. Len(v) : v[j] = v[n]
    OBVIOUS
  <2>2. j \in DOMAIN v /\ Len(v) - j <= d
    BY <1>1
  <2>. QED  BY <1>3, <2>1, <2>2
<1>. HIDE DEF P
<1>4. Len(v) \in P
  BY <1>1, <1>2, <1>3, Induction
<1>5. Len(v) - n <= Len(v)
  BY <1>1
<1>. QED  BY <1>4, <1>5 DEF P

\* Whoever has a block's root can check the proofs that are given, for vectors
\* of every length, with items that repeat or not, and whatever nonces the
\* copies have; where copies agree, a proof is given of each item.
THEOREM ProofsCheck == Spec => []ProofsHold
<1>1. ASSUME TreeInv, built, NEW copy, \E n \in DOMAIN items : items[n] = copy
      PROVE  /\ Tree!Checks(Tree!MerkleProof(copy), copy)
             /\ Tree!MerkleProof(copy) # Tree!NoProof
  <2>. DEFINE p == Tree!MerkleProof(copy)
              below == Tree!Under(p.left) \cup Tree!Under(p.right)
              place == CHOOSE m \in DOMAIN items :
                         items[m] = copy /\ \A j \in m + 1 .. Len(items) : items[j] # copy
  <2>1. PICK S : items \in Seq(S) \ {<<>>}
    BY <1>1 DEF TreeInv
  <2>2. place \in DOMAIN items /\ items[place] = copy
    <3>1. PICK n \in DOMAIN items : items[n] = copy
      BY <1>1
    <3>2. \E m \in DOMAIN items : items[m] = items[n] /\ \A j \in m + 1 .. Len(items) : items[j] # items[n]
      <4>1. items \in Seq(S)
        BY <2>1
      <4>. QED  BY <4>1, LastPlace
    <3>. QED  BY <3>1, <3>2
  <2>3. Tree!MerkleProof(copy) = Tree!GetProof(place)
    BY <1>1 DEF Tree!MerkleProof
  <2>. HIDE DEF place
  <2>4. /\ top \in Nat /\ top \in 1 .. top /\ Len(fringe) \in Nat /\ Len(fringe) < top
        /\ queue[1] = top
    BY <1>1, RootIsLast
  <2>5. /\ place \in 1 .. top /\ place # top /\ place <= Len(fringe)
        /\ fringe[place] = copy
    <3>1. place \in 1 .. Len(items) /\ Len(items) \in Nat /\ Len(items) <= Len(fringe)
      BY <2>1, <2>2, FringeOfItems DEF fringe
    <3>2. fringe[place] = items[place]
      BY <2>1, <3>1, FringeOfItems DEF fringe
    <3>. QED  BY <2>2, <2>4, <3>1, <3>2
  <2>6. p = proofOfRoot
    BY <1>1, <2>3, <2>5, ProofIsOfRoot
  <2>7. /\ p.hash = nodes[top].hash /\ p.left = nodes[top].left /\ p.right = nodes[top].right
    BY <2>6 DEF proofOfRoot, Tree!Node
  <2>. HIDE DEF p
  <2>8. /\ nodes[top].left \in 1 .. (top - 1) /\ nodes[top].right \in 1 .. (top - 1)
        /\ Tree!HashesUp(nodes[top])
    BY <1>1, <2>4, NodesHash
  <2>9. p.left # 0 /\ p.hash = Tree!RootHash /\ Tree!HashesUp(p)
    BY <2>4, <2>7, <2>8 DEF Tree!RootHash, Tree!HashesUp
  <2>10. below \subseteq 1 .. top
    <3>1. p.left \in 1 .. top /\ p.right \in 1 .. top
      BY <2>4, <2>7, <2>8
    <3>. QED  BY <1>1, <3>1, UnderNodes
  <2>11. \A m \in below : Tree!HashesUp(nodes[m])
    BY <1>1, <2>10, NodesHash
  <2>12. place \in below
    <3>1. PICK c \in Tree!Below(top) : place \in Tree!Under(c)
      BY <1>1, <2>5, UnderNodes
    <3>2. c \in {p.left, p.right}
      BY <2>7, <3>1 DEF Tree!Below
    <3>. QED  BY <3>1, <3>2
  <2>13. Tree!Below(place) = {} /\ nodes[place].hash = Tree!Leaf(copy)
    BY <1>1, <2>5, NodesHash DEF Tree!Below
  <2>14. p # Tree!NoProof
    BY <2>9 DEF Tree!NoProof, Tree!Node
  <2>. HIDE DEF below
  <2>. QED  BY <2>9, <2>11, <2>12, <2>13, <2>14 DEF p, below, Tree!Checks
<1>2. ASSUME TreeInv, built, NEW x, NEW n,
             Tree!MerkleProof(Tree!Copy(x, n)) # Tree!NoProof
      PROVE  /\ x \in Tree!ToSet(Tree!Contents(items))
             /\ Tree!Checks(Tree!MerkleProof(Tree!Copy(x, n)), Tree!Copy(x, n))
  <2>1. PICK m \in DOMAIN items : items[m] = Tree!Copy(x, n)
    BY <1>2 DEF Tree!MerkleProof
  <2>2. x = Tree!Contents(items)[m] /\ m \in DOMAIN Tree!Contents(items)
    BY <2>1 DEF Tree!Contents, Tree!Copy
  <2>. QED  BY <1>1, <1>2, <2>1, <2>2 DEF Tree!ToSet
<1>3. ASSUME TreeInv, CopiesInv, built, NEW x, NEW n \in nonces, Tree!CopiesAgree,
             x \in Tree!ToSet(Tree!Contents(items))
      PROVE  Tree!MerkleProof(Tree!Copy(x, n)) # Tree!NoProof
  <2>1. PICK m \in DOMAIN items : items[m].of = x
    BY <1>3 DEF Tree!ToSet, Tree!Contents
  <2>2. items[m] = Tree!Copy(items[m].of, items[m].nonce) /\ items[m].nonce \in nonces
    BY <1>3 DEF CopiesInv
  <2>3. items[m] = Tree!Copy(x, n)
    BY <1>3, <2>1, <2>2 DEF Tree!CopiesAgree, Tree!Agree
  <2>. QED  BY <1>1, <1>3, <2>3
<1>4. TreeInv /\ CopiesInv => ProofsHold
  <2>. SUFFICES ASSUME TreeInv, CopiesInv, built, NEW x \in Tree!Known, NEW n \in nonces
                PROVE  LET proof == Tree!MerkleProof(Tree!Copy(x, n)) IN
                       /\ proof # Tree!NoProof =>
                            /\ x \in Tree!ToSet(Tree!Contents(items))
                            /\ Tree!Checks(proof, Tree!Copy(x, n))
                       /\ Tree!CopiesAgree /\ x \in Tree!ToSet(Tree!Contents(items)) =>
                            proof # Tree!NoProof
    BY DEF ProofsHold, Tree!ProofsHold
  <2>. QED  BY <1>2, <1>3
<1>. QED  BY <1>4, TreeInvHolds, CopiesInvHolds, PTL

-----------------------------------------------------------------------------
(***************************************************************************)
(* Merkle roots: lists of hashes, of which the first two are joined at the *)
(* end until one is left.                                                  *)
(***************************************************************************)
\* r is a list of n hashes.
List(r, n) == r = [p \in 1 .. n |-> r[p]]

\* A turn: the first two are taken, their hash is put at the end.
Joint(r) == Append(SubSeq(r, 3, Len(r)), Tree!Concat(r[1], r[2]))

LEMMA JointIs ==
  ASSUME NEW n \in Nat, n >= 2, NEW r, List(r, n)
  PROVE  /\ List(Joint(r), n - 1)
         /\ \A p \in 1 .. n - 2 : Joint(r)[p] = r[p + 2]
         /\ Joint(r)[n - 1] = Tree!Concat(r[1], r[2])
<1>1. PICK S : r \in Seq(S) /\ Len(r) = n
  BY SequenceOf DEF List
<1>. DEFINE q == SubSeq(r, 3, Len(r))
            x == Tree!Concat(r[1], r[2])
<1>2. q \in Seq(S) /\ Len(q) = n - 2 /\ \A p \in 1 .. n - 2 : q[p] = r[p + 2]
  BY <1>1, RestOf
<1>. HIDE DEF q, x
<1>3. /\ Append(q, x) \in Seq(S \cup {x}) /\ Len(Append(q, x)) = Len(q) + 1
      /\ Append(q, x)[Len(q) + 1] = x
      /\ \A p \in 1 .. Len(q) : Append(q, x)[p] = q[p]
  BY <1>2, Appended
<1>4. Len(q) + 1 = n - 1 /\ Joint(r) = Append(q, x)
  BY <1>2 DEF Joint, q, x
<1>5. Joint(r) \in Seq(S \cup {x}) /\ Len(Joint(r)) = n - 1
  BY <1>3, <1>4
<1>6. List(Joint(r), n - 1)
  <2>1. PICK z \in Seq(S \cup {x}) : z = Joint(r) /\ Len(z) = n - 1
    BY <1>5
  <2>2. z = [p \in 1 .. Len(z) |-> z[p]]
    OBVIOUS
  <2>. QED  BY <2>1, <2>2 DEF List
<1>. QED  BY <1>2, <1>3, <1>4, <1>6 DEF x

\* Nothing is lost by joining two.
LEMMA JointTells ==
  ASSUME NEW n \in Nat, n >= 2, NEW r, NEW s, List(r, n), List(s, n), Joint(r) = Joint(s)
  PROVE  r = s
<1>1. Tree!Concat(r[1], r[2]) = Tree!Concat(s[1], s[2])
  BY JointIs
<1>2. r[1] = s[1] /\ r[2] = s[2]
  BY <1>1 DEF Tree!Concat
<1>3. ASSUME NEW p \in 1 .. n  PROVE r[p] = s[p]
  <2>1. CASE p = 1 \/ p = 2  BY <1>2, <2>1
  <2>2. CASE p # 1 /\ p # 2
    <3>1. p - 2 \in 1 .. n - 2 /\ p - 2 + 2 = p
      BY <2>2
    <3>2. Joint(r)[p - 2] = r[p - 2 + 2] /\ Joint(s)[p - 2] = s[p - 2 + 2]
      BY <3>1, JointIs
    <3>. QED  BY <3>1, <3>2
  <2>. QED  BY <2>1, <2>2
<1>. QED  BY <1>3 DEF List

\* The lists before each turn.
Lists(h, last) == CHOOSE rest : rest = [j \in 0 .. last |-> IF j = 0 THEN h ELSE Joint(rest[j - 1])]

\* There is such a table,
LEMMA ListsExist ==
  ASSUME NEW h, NEW n \in Nat
  PROVE  \E rest : rest = [j \in 0 .. n |-> IF j = 0 THEN h ELSE Joint(rest[j - 1])]
<1>. DEFINE Are(rest, m) == rest = [j \in 0 .. m |-> IF j = 0 THEN h ELSE Joint(rest[j - 1])]
            S == {m \in Nat : \E rest : Are(rest, m)}
<1>1. 0 \in S
  <2>1. Are([j \in 0 .. 0 |-> h], 0)
    OBVIOUS
  <2>. QED  BY <2>1
<1>2. ASSUME NEW m \in Nat, m \in S  PROVE m + 1 \in S
  <2>1. PICK p : Are(p, m)
    BY <1>2
  <2>. DEFINE q == [j \in 0 .. m + 1 |-> IF j = m + 1 THEN Joint(p[m]) ELSE p[j]]
  <2>2. \A j \in 0 .. m : p[j] = IF j = 0 THEN h ELSE Joint(p[j - 1])
    BY <2>1
  <2>3. ASSUME NEW j \in 0 .. m + 1  PROVE q[j] = IF j = 0 THEN h ELSE Joint(q[j - 1])
    <3>1. CASE j = m + 1
      <4>1. j # 0 /\ j - 1 = m /\ m \in 0 .. m + 1 /\ m # m + 1  BY <3>1
      <4>. QED  BY <3>1, <4>1
    <3>2. CASE j = 0  BY <2>2, <3>2
    <3>3. CASE j # m + 1 /\ j # 0
      <4>1. j \in 0 .. m /\ j - 1 \in 0 .. m + 1 /\ j - 1 # m + 1  BY <3>3
      <4>. QED  BY <2>2, <3>3, <4>1
    <3>. QED  BY <3>1, <3>2, <3>3
  <2>4. Are(q, m + 1)
    <3>1. q = [j \in 0 .. m + 1 |-> q[j]]
      OBVIOUS
    <3>. HIDE DEF q
    <3>. QED  BY <2>3, <3>1
  <2>. HIDE DEF Are, q
  <2>. QED  BY <2>4
<1>. HIDE DEF S
<1>3. n \in S  BY <1>1, <1>2, Induction
<1>. QED  BY <1>3 DEF S

\* it begins with the list, goes on turn by turn, and ends in the root.
LEMMA ListsAre ==
  ASSUME NEW n \in Nat, n >= 1, NEW h, List(h, n)
  PROVE  /\ Tree!Joined(h) = Lists(h, n - 1)[n - 1][1]
         /\ Lists(h, n - 1)[0] = h
         /\ \A j \in 1 .. n - 1 : Lists(h, n - 1)[j] = Joint(Lists(h, n - 1)[j - 1])
         /\ \A j \in 0 .. n - 1 : List(Lists(h, n - 1)[j], n - j)
<1>. DEFINE g == Lists(h, n - 1)
            S == {j \in Nat : j <= n - 1 => List(g[j], n - j)}
<1>1. Len(h) = n /\ n - 1 \in Nat
  BY SequenceOf DEF List
<1>2. Tree!Joined(h) = g[n - 1][1]
  BY <1>1 DEF Tree!Joined, Lists, Joint
<1>3. g = [j \in 0 .. n - 1 |-> IF j = 0 THEN h ELSE Joint(g[j - 1])]
  BY <1>1, ListsExist DEF Lists
<1>. HIDE DEF g
<1>4. g[0] = h /\ \A j \in 1 .. n - 1 : g[j] = Joint(g[j - 1])
  <2>1. 0 \in 0 .. n - 1 /\ \A j \in 1 .. n - 1 : j \in 0 .. n - 1 /\ j # 0
    BY <1>1
  <2>. QED  BY <1>3, <2>1
<1>5. 0 \in S
  <2>1. n - 0 = n  OBVIOUS
  <2>. QED  BY <1>4, <2>1
<1>6. ASSUME NEW j \in Nat, j \in S  PROVE j + 1 \in S
  <2>. SUFFICES ASSUME j + 1 <= n - 1  PROVE List(g[j + 1], n - (j + 1))
    OBVIOUS
  <2>1. List(g[j], n - j)
    BY <1>6
  <2>2. PICK m \in Nat : m = n - j /\ m >= 2 /\ m - 1 = n - (j + 1)
    <3>1. n - j \in Nat /\ n - j >= 2 /\ n - j - 1 = n - (j + 1)  OBVIOUS
    <3>. QED  BY <3>1
  <2>3. g[j + 1] = Joint(g[j])
    <3>1. j + 1 \in 1 .. n - 1 /\ j + 1 - 1 = j  OBVIOUS
    <3>. QED  BY <1>4, <3>1
  <2>4. List(Joint(g[j]), m - 1)
    BY <2>1, <2>2, JointIs
  <2>. QED  BY <2>2, <2>3, <2>4
<1>. HIDE DEF S
<1>7. Nat \subseteq S
  BY <1>5, <1>6, Induction
<1>8. \A j \in 0 .. n - 1 : List(g[j], n - j)
  <2>1. \A j \in 0 .. n - 1 : j \in Nat /\ j <= n - 1  OBVIOUS
  <2>. QED  BY <1>7, <2>1 DEF S
<1>. QED  BY <1>2, <1>4, <1>8 DEF g

\* Lists with the same root are the same, as far as the shorter one goes.
LEMMA JoinedTells ==
  ASSUME NEW a \in Nat, NEW b \in Nat, 1 <= a, a <= b, NEW r, NEW s, List(r, a), List(s, b),
         Tree!Joined(r) = Tree!Joined(s)
  PROVE  Lists(s, b - 1)[b - a] = r
<1>. DEFINE g == Lists(r, a - 1)
            f == Lists(s, b - 1)
            S == {i \in Nat : i <= a - 1 => g[a - 1 - i] = f[b - 1 - i]}
<1>1. /\ g[a - 1][1] = f[b - 1][1] /\ g[0] = r
      /\ \A j \in 1 .. a - 1 : g[j] = Joint(g[j - 1])
      /\ \A j \in 0 .. a - 1 : List(g[j], a - j)
      /\ \A j \in 1 .. b - 1 : f[j] = Joint(f[j - 1])
      /\ \A j \in 0 .. b - 1 : List(f[j], b - j)
  <2>1. b >= 1  OBVIOUS
  <2>. QED  BY <2>1, ListsAre
<1>. HIDE DEF g, f
<1>2. 0 \in S
  <2>1. /\ a - 1 \in 0 .. a - 1 /\ b - 1 \in 0 .. b - 1 /\ a - (a - 1) = 1 /\ b - (b - 1) = 1
        /\ a - 1 - 0 = a - 1 /\ b - 1 - 0 = b - 1
    OBVIOUS
  <2>2. List(g[a - 1], 1) /\ List(f[b - 1], 1)
    <3>1. List(g[a - 1], a - (a - 1)) /\ List(f[b - 1], b - (b - 1))
      BY <1>1, <2>1
    <3>. QED  BY <2>1, <3>1
  <2>3. \A p \in 1 .. 1 : g[a - 1][p] = f[b - 1][p]
    BY <1>1
  <2>4. g[a - 1] = f[b - 1]
    BY <2>2, <2>3 DEF List
  <2>. QED  BY <2>1, <2>4
<1>3. ASSUME NEW i \in Nat, i \in S  PROVE i + 1 \in S
  <2>. SUFFICES ASSUME i + 1 <= a - 1  PROVE g[a - 1 - (i + 1)] = f[b - 1 - (i + 1)]
    OBVIOUS
  <2>1. PICK j \in Nat, m \in Nat : /\ j = a - 1 - i /\ m = b - 1 - i
                                    /\ j - 1 = a - 1 - (i + 1) /\ m - 1 = b - 1 - (i + 1)
    <3>1. /\ a - 1 - i \in Nat /\ b - 1 - i \in Nat
          /\ a - 1 - i - 1 = a - 1 - (i + 1) /\ b - 1 - i - 1 = b - 1 - (i + 1)
      OBVIOUS
    <3>. QED  BY <3>1
  <2>2. g[j] = f[m]
    BY <1>3, <2>1
  <2>3. j \in 1 .. a - 1 /\ m \in 1 .. b - 1 /\ j - 1 \in 0 .. a - 1 /\ m - 1 \in 0 .. b - 1
        /\ a - (j - 1) = i + 2 /\ b - (m - 1) = i + 2 /\ i + 2 \in Nat /\ i + 2 >= 2
    BY <2>1
  <2>4. Joint(g[j - 1]) = Joint(f[m - 1])
    BY <1>1, <2>2, <2>3
  <2>5. List(g[j - 1], i + 2) /\ List(f[m - 1], i + 2)
    <3>1. List(g[j - 1], a - (j - 1)) /\ List(f[m - 1], b - (m - 1))
      BY <1>1, <2>3
    <3>. QED  BY <2>3, <3>1
  <2>6. g[j - 1] = f[m - 1]
    BY <2>3, <2>4, <2>5, JointTells
  <2>. QED  BY <2>1, <2>6
<1>. HIDE DEF S
<1>4. a - 1 \in S
  <2>1. a - 1 \in Nat  OBVIOUS
  <2>. QED  BY <1>2, <1>3, <2>1, Induction
<1>5. a - 1 - (a - 1) = 0 /\ b - 1 - (a - 1) = b - a /\ a - 1 <= a - 1
  OBVIOUS
<1>6. g[0] = f[b - a]
  BY <1>4, <1>5 DEF S
<1>. QED  BY <1>1, <1>6 DEF f

\* A list that is as it was sent ends in a leaf, and any later one in a hash of two.
Leaves(r, n) == \A p \in 1 .. n : \E u : r[p] = Tree!Leaf(u)

LEMMA LeavesAreAsMany ==
  ASSUME NEW a \in Nat, NEW b \in Nat, 1 <= a, a <= b, NEW r, NEW s, List(r, a), List(s, b),
         Leaves(r, a), Tree!Joined(r) = Tree!Joined(s)
  PROVE  a = b /\ r = s
<1>1. Lists(s, b - 1)[b - a] = r /\ Lists(s, b - 1)[0] = s
  BY JoinedTells, ListsAre
<1>2. ASSUME a # b  PROVE FALSE
  <2>1. /\ b - a \in 1 .. b - 1 /\ b - a - 1 \in 0 .. b - 1 /\ b >= 1
        /\ b - (b - a - 1) = a + 1 /\ a + 1 \in Nat /\ a + 1 >= 2 /\ a + 1 - 1 = a /\ a \in 1 .. a
    BY <1>2
  <2>. DEFINE q == Lists(s, b - 1)[b - a - 1]
  <2>2. r = Joint(q) /\ List(q, b - (b - a - 1))
    BY <1>1, <2>1, ListsAre
  <2>. HIDE DEF q
  <2>3. List(q, a + 1)
    BY <2>1, <2>2
  <2>4. Joint(q)[a + 1 - 1] = Tree!Concat(q[1], q[2])
    BY <2>1, <2>3, JointIs
  <2>5. PICK u : r[a] = Tree!Leaf(u)
    BY <2>1 DEF Leaves
  <2>6. Tree!Leaf(u) = Tree!Concat(q[1], q[2])
    BY <2>1, <2>2, <2>4, <2>5
  <2>7. Len(<<u>>) = 1 /\ Len(<<q[1], q[2]>>) = 2
    OBVIOUS
  <2>. QED  BY <2>6, <2>7 DEF Tree!Leaf, Tree!Concat
<1>3. b - a = 0
  BY <1>2
<1>. QED  BY <1>1, <1>2, <1>3

\* Two lists of leaves with one root are one list.
LEMMA LeavesTell ==
  ASSUME NEW a \in Nat, NEW b \in Nat, 1 <= a, 1 <= b, NEW r, NEW s, List(r, a), List(s, b),
         Leaves(r, a), Leaves(s, b), Tree!Joined(r) = Tree!Joined(s)
  PROVE  a = b /\ r = s
<1>1. CASE a <= b  BY <1>1, LeavesAreAsMany
<1>2. CASE b <= a  BY <1>2, LeavesAreAsMany
<1>. QED  BY <1>1, <1>2

-----------------------------------------------------------------------------
(***************************************************************************)
(* Sorting.                                                                *)
(***************************************************************************)

\* m is not behind n.
Before(v, m, n) == v[m] > v[n] \/ (v[m] = v[n] /\ m <= n)

\* A place is how many are not behind, so it grows from one to the next.
LEMMA PlacesGrow ==
  ASSUME NEW v \in Seq(Nat), NEW m \in 1 .. Len(v), NEW n \in 1 .. Len(v)
  PROVE  /\ Tree!Place(v, n) \in 1 .. Len(v)
         /\ m # n /\ Before(v, m, n) => Tree!Place(v, m) < Tree!Place(v, n)
<1>. DEFINE N == Len(v)
            upTo(k_) == {j \in 1 .. N : Before(v, j, k_)}
<1>1. N \in Nat /\ DOMAIN v = 1 .. N /\ \A j \in 1 .. N : v[j] \in Nat
  OBVIOUS
<1>2. \A j \in 1 .. N : Tree!Place(v, j) = Cardinality(upTo(j))
  <2>1. \A S : Tree!Cardinality(S) = Cardinality(S)
    BY DEF Tree!Cardinality, Cardinality
  <2>2. \A j \in 1 .. N : Tree!Place(v, j) = Tree!Cardinality(upTo(j))
    BY <1>1 DEF Tree!Place, Before
  <2>. HIDE DEF upTo
  <2>. QED  BY <2>1, <2>2
<1>3. IsFiniteSet(1 .. N) /\ Cardinality(1 .. N) = N
  <2>1. PICK j \in Nat : j = N
    BY <1>1
  <2>2. 1 \in Int /\ j \in Int /\ (1 > j => j = 0) /\ j - 1 + 1 = j
    OBVIOUS
  <2>3. IsFiniteSet(1 .. j) /\ Cardinality(1 .. j) = IF 1 > j THEN 0 ELSE j - 1 + 1
    BY <2>2, FS_Interval
  <2>. QED  BY <2>1, <2>2, <2>3
<1>4. \A j \in 1 .. N : /\ IsFiniteSet(upTo(j)) /\ Cardinality(upTo(j)) <= N
                        /\ Cardinality(upTo(j)) \in Nat
  <2>1. \A T \in SUBSET (1 .. N) : IsFiniteSet(T) /\ Cardinality(T) <= N
    BY <1>3, FS_Subset
  <2>2. \A T : IsFiniteSet(T) => Cardinality(T) \in Nat
    BY FS_CardinalityType
  <2>3. \A j \in 1 .. N : upTo(j) \in SUBSET (1 .. N)
    OBVIOUS
  <2>. HIDE DEF upTo
  <2>. QED  BY <2>1, <2>2, <2>3
<1>5. n \in upTo(n)
  BY <1>1 DEF Before
<1>6. Cardinality(upTo(n)) # 0
  <2>1. upTo(n) # {} /\ IsFiniteSet(upTo(n))
    BY <1>4, <1>5
  <2>. HIDE DEF upTo
  <2>. QED  BY <2>1, FS_EmptySet
<1>7. ASSUME m # n, Before(v, m, n)  PROVE Cardinality(upTo(m)) < Cardinality(upTo(n))
  <2>1. upTo(m) \subseteq upTo(n)
    BY <1>1, <1>7 DEF Before
  <2>2. n \notin upTo(m)
    BY <1>1, <1>7 DEF Before
  <2>. HIDE DEF upTo
  <2>3. /\ upTo(m) \in SUBSET upTo(n) /\ IsFiniteSet(upTo(n)) /\ upTo(m) # upTo(n)
        /\ Cardinality(upTo(m)) \in Nat /\ Cardinality(upTo(n)) \in Nat
    BY <1>4, <1>5, <2>1, <2>2
  <2>4. \A S, T : IsFiniteSet(S) /\ T \in SUBSET S =>
          Cardinality(T) <= Cardinality(S) /\ (Cardinality(S) = Cardinality(T) => S = T)
    BY FS_Subset
  <2>. QED  BY <2>3, <2>4
<1>. HIDE DEF upTo
<1>. QED  BY <1>1, <1>2, <1>4, <1>6, <1>7

\* Each place is somebody's, and nobody else's.
LEMMA PlacesTaken ==
  ASSUME NEW v \in Seq(Nat)
  PROVE  /\ \A m, n \in 1 .. Len(v) : Tree!Place(v, m) = Tree!Place(v, n) => m = n
         /\ \A p \in 1 .. Len(v) : \E n \in 1 .. Len(v) : Tree!Place(v, n) = p
<1>. DEFINE N == Len(v)
            f == [n \in 1 .. N |-> Tree!Place(v, n)]
<1>1. N \in Nat /\ \A n \in 1 .. N : v[n] \in Nat
  OBVIOUS
<1>2. \A m, n \in 1 .. N : m # n => Tree!Place(v, m) # Tree!Place(v, n)
  <2>. SUFFICES ASSUME NEW m \in 1 .. N, NEW n \in 1 .. N, m # n
                PROVE  Tree!Place(v, m) # Tree!Place(v, n)
    OBVIOUS
  <2>1. Before(v, m, n) \/ Before(v, n, m)
    BY <1>1 DEF Before
  <2>2. /\ Tree!Place(v, m) \in 1 .. N /\ Tree!Place(v, n) \in 1 .. N
        /\ Before(v, m, n) => Tree!Place(v, m) < Tree!Place(v, n)
        /\ Before(v, n, m) => Tree!Place(v, n) < Tree!Place(v, m)
    BY PlacesGrow
  <2>. QED  BY <1>1, <2>1, <2>2
<1>3. f \in Injection(1 .. N, 1 .. N)
  <2>1. \A n \in 1 .. N : Tree!Place(v, n) \in 1 .. N
    BY PlacesGrow
  <2>2. f \in [1 .. N -> 1 .. N]
    BY <2>1
  <2>3. IsInjective(f)
    BY <1>2 DEF IsInjective
  <2>. QED  BY <2>2, <2>3 DEF Injection
<1>4. f \in Surjection(1 .. N, 1 .. N)
  <2>1. IsFiniteSet(1 .. N)
    BY <1>1, FS_Interval
  <2>. HIDE DEF f
  <2>. QED  BY <1>3, <2>1, FS_Injection
<1>5. \A p \in 1 .. N : \E n \in 1 .. N : f[n] = p
  <2>. HIDE DEF f
  <2>. QED  BY <1>4 DEF Surjection
<1>. QED  BY <1>2, <1>5

\* Each number is below the ones before it.
Descending(s, n) == \A p, q \in 1 .. n : p < q => s[p] > s[q]

\* Sorting keeps the numbers, and puts them in this order if none is there twice.
LEMMA SortedDescends ==
  ASSUME NEW v \in Seq(Nat) \ {<<>>}
  PROVE  LET s == Tree!Sorted(v) IN
         /\ List(s, Len(v)) /\ Len(s) = Len(v) /\ Len(v) \in Nat /\ Len(v) >= 1
         /\ \A p \in 1 .. Len(v) : s[p] \in Nat
         /\ Tree!ToSet(s) = Tree!ToSet(v)
         /\ Tree!IsInjective(v) => Tree!IsInjective(s)
         /\ Tree!IsInjective(s) => Descending(s, Len(v))
<1>. DEFINE N == Len(v)
            s == Tree!Sorted(v)
            at(p) == CHOOSE n \in 1 .. N : Tree!Place(v, n) = p
<1>1. /\ v \in Seq(Nat) /\ N \in Nat /\ N >= 1 /\ DOMAIN v = 1 .. N
      /\ \A n \in 1 .. N : v[n] \in Nat
  OBVIOUS
<1>2. s = [p \in 1 .. N |-> v[at(p)]]
  BY <1>1 DEF Tree!Sorted
<1>3. \A p \in 1 .. N : at(p) \in 1 .. N /\ Tree!Place(v, at(p)) = p
  BY <1>1, PlacesTaken
<1>4. \A n \in 1 .. N : Tree!Place(v, n) \in 1 .. N /\ at(Tree!Place(v, n)) = n
  BY <1>1, PlacesTaken, PlacesGrow
<1>. HIDE DEF at, s
<1>5. List(s, N) /\ DOMAIN s = 1 .. N /\ \A p \in 1 .. N : s[p] = v[at(p)] /\ s[p] \in Nat
  BY <1>1, <1>2, <1>3 DEF List
<1>6. Len(s) = N
  BY <1>1, <1>5, SequenceOf DEF List
<1>7. Tree!ToSet(s) = Tree!ToSet(v)
  <2>1. \A n \in 1 .. N : \E p \in 1 .. N : s[p] = v[n]
    BY <1>4, <1>5
  <2>2. \A p \in 1 .. N : \E n \in 1 .. N : s[p] = v[n]
    BY <1>3, <1>5
  <2>3. Tree!ToSet(s) = {s[p] : p \in 1 .. N} /\ Tree!ToSet(v) = {v[n] : n \in 1 .. N}
    BY <1>1, <1>5 DEF Tree!ToSet
  <2>4. {s[p] : p \in 1 .. N} \subseteq {v[n] : n \in 1 .. N}
    BY <2>2
  <2>5. {v[n] : n \in 1 .. N} \subseteq {s[p] : p \in 1 .. N}
    BY <2>1
  <2>. QED  BY <2>3, <2>4, <2>5
<1>8. ASSUME Tree!IsInjective(v)  PROVE Tree!IsInjective(s)
  <2>. SUFFICES ASSUME NEW p \in 1 .. N, NEW q \in 1 .. N, s[p] = s[q]  PROVE p = q
    BY <1>5 DEF Tree!IsInjective
  <2>1. at(p) = at(q)
    BY <1>1, <1>3, <1>5, <1>8 DEF Tree!IsInjective
  <2>. QED  BY <1>3, <2>1
<1>9. ASSUME Tree!IsInjective(s)  PROVE Descending(s, N)
  <2>. SUFFICES ASSUME NEW p \in 1 .. N, NEW q \in 1 .. N, p < q  PROVE s[p] > s[q]
    BY DEF Descending
  <2>1. s[p] # s[q] /\ s[p] \in Nat /\ s[q] \in Nat
    <3>1. p # q
      BY <1>1
    <3>. QED  BY <1>5, <1>9, <3>1 DEF Tree!IsInjective
  <2>2. ASSUME s[p] < s[q]  PROVE FALSE
    <3>1. PICK m \in 1 .. N, n \in 1 .. N : m = at(p) /\ n = at(q)
      BY <1>3
    <3>2. v[n] > v[m] /\ m # n
      BY <1>5, <2>1, <2>2, <3>1
    <3>3. Tree!Place(v, n) < Tree!Place(v, m)
      BY <1>1, <3>2, PlacesGrow DEF Before
    <3>. QED  BY <1>1, <1>3, <3>1, <3>3
  <2>. QED  BY <2>1, <2>2
<1>. QED  BY <1>1, <1>5, <1>6, <1>7, <1>8, <1>9 DEF s

\* Of the same numbers there is one descending list.
LEMMA DescendingAgree ==
  ASSUME NEW a \in Nat, NEW b \in Nat, a <= b, NEW s, NEW u, List(s, a), List(u, b),
         \A p \in 1 .. a : s[p] \in Nat, \A p \in 1 .. b : u[p] \in Nat,
         Descending(s, a), Descending(u, b),
         {s[p] : p \in 1 .. a} = {u[p] : p \in 1 .. b}
  PROVE  a = b /\ s = u
<1>. DEFINE S == {n \in Nat : \A p \in 1 .. a : p <= n => s[p] = u[p]}
<1>1. /\ \A p \in 1 .. a : \E q \in 1 .. b : s[p] = u[q]
      /\ \A q \in 1 .. b : \E p \in 1 .. a : s[p] = u[q]
  OBVIOUS
<1>2. 0 \in S
  OBVIOUS
<1>3. ASSUME NEW n \in Nat, n \in S  PROVE n + 1 \in S
  <2>. SUFFICES ASSUME n + 1 \in 1 .. a  PROVE s[n + 1] = u[n + 1]
    <3>1. \A p \in 1 .. a : p <= n + 1 => p <= n \/ p = n + 1
      OBVIOUS
    <3>. QED  BY <1>3, <3>1
  <2>. DEFINE r == n + 1
  <2>1. r \in 1 .. a /\ r \in 1 .. b /\ \A p \in 1 .. a : p < r => s[p] = u[p]
    BY <1>3
  <2>. HIDE DEF r, S
  <2>2. ASSUME s[r] > u[r]  PROVE FALSE
    <3>1. PICK q \in 1 .. b : s[r] = u[q]
      BY <1>1, <2>1
    <3>2. q < r
      BY <2>1, <2>2, <3>1 DEF Descending
    <3>3. q \in 1 .. a /\ s[q] = u[q]
      BY <2>1, <3>2
    <3>4. s[q] > s[r]
      BY <2>1, <3>2, <3>3 DEF Descending
    <3>. QED  BY <2>1, <3>1, <3>3, <3>4
  <2>3. ASSUME u[r] > s[r]  PROVE FALSE
    <3>1. PICK q \in 1 .. a : s[q] = u[r]
      BY <1>1, <2>1
    <3>2. q < r
      BY <2>1, <2>3, <3>1 DEF Descending
    <3>3. q \in 1 .. b /\ s[q] = u[q]
      BY <2>1, <3>2
    <3>4. u[q] > u[r]
      BY <2>1, <3>2, <3>3 DEF Descending
    <3>. QED  BY <2>1, <3>1, <3>3, <3>4
  <2>4. s[r] \in Nat /\ u[r] \in Nat
    BY <2>1
  <2>5. s[r] = u[r]
    BY <2>2, <2>3, <2>4
  <2>. QED  BY <2>5 DEF r
<1>. HIDE DEF S
<1>4. \A p \in 1 .. a : s[p] = u[p]
  <2>1. a \in S /\ \A p \in 1 .. a : p <= a
    BY <1>2, <1>3, Induction
  <2>. QED  BY <2>1 DEF S
<1>5. ASSUME a # b  PROVE FALSE
  <2>1. b \in 1 .. b
    BY <1>5
  <2>2. PICK p \in 1 .. a : s[p] = u[b]
    BY <1>1, <2>1
  <2>3. p \in 1 .. b /\ p < b /\ u[p] = u[b]
    BY <1>4, <1>5, <2>2
  <2>4. u[p] > u[b] /\ u[p] \in Nat
    BY <2>1, <2>3 DEF Descending
  <2>. QED  BY <2>3, <2>4
<1>. QED  BY <1>4, <1>5 DEF List

\* The sorted vectors of the same numbers, none twice, are the same.
LEMMA SortedOfSet ==
  ASSUME NEW v \in Seq(Nat) \ {<<>>}, NEW w \in Seq(Nat) \ {<<>>},
         Tree!IsInjective(Tree!Sorted(v)), Tree!IsInjective(Tree!Sorted(w)),
         Tree!ToSet(v) = Tree!ToSet(w)
  PROVE  Tree!Sorted(v) = Tree!Sorted(w)
<1>. DEFINE s == Tree!Sorted(v)
            u == Tree!Sorted(w)
<1>1. /\ List(s, Len(v)) /\ Len(v) \in Nat /\ Descending(s, Len(v))
      /\ \A p \in 1 .. Len(v) : s[p] \in Nat
      /\ Tree!ToSet(s) = Tree!ToSet(v)
  BY SortedDescends
<1>2. /\ List(u, Len(w)) /\ Len(w) \in Nat /\ Descending(u, Len(w))
      /\ \A p \in 1 .. Len(w) : u[p] \in Nat
      /\ Tree!ToSet(u) = Tree!ToSet(w)
  BY SortedDescends
<1>. HIDE DEF s, u
<1>3. {s[p] : p \in 1 .. Len(v)} = {u[p] : p \in 1 .. Len(w)}
  <2>1. DOMAIN s = 1 .. Len(v) /\ DOMAIN u = 1 .. Len(w)
    BY <1>1, <1>2 DEF List
  <2>2. Tree!ToSet(s) = {s[p] : p \in DOMAIN s} /\ Tree!ToSet(u) = {u[p] : p \in DOMAIN u}
    BY DEF Tree!ToSet
  <2>. QED  BY <1>1, <1>2, <2>1, <2>2
<1>4. CASE Len(v) <= Len(w)  BY <1>1, <1>2, <1>3, <1>4, DescendingAgree DEF s, u
<1>5. CASE Len(w) <= Len(v)  BY <1>1, <1>2, <1>3, <1>5, DescendingAgree DEF s, u
<1>. QED  BY <1>1, <1>2, <1>4, <1>5

\* Of vectors that repeat nothing, the leaves tell which it was.
LEMMA FringeTells ==
  ASSUME NEW n \in Nat, NEW m \in Nat, n >= 1, m >= 1, NEW s, NEW u, List(s, n), List(u, m),
         Tree!IsInjective(s), Tree!IsInjective(u), Tree!Fringe(s) = Tree!Fringe(u)
  PROVE  s = u
<1>1. (\E S : s \in Seq(S) \ {<<>>}) /\ Len(s) = n /\ (\E S : u \in Seq(S) \ {<<>>}) /\ Len(u) = m
  <2>1. \A q, j : List(q, j) /\ j \in Nat /\ j >= 1 => (\E S : q \in Seq(S) \ {<<>>}) /\ Len(q) = j
    <3>. SUFFICES ASSUME NEW q, NEW j \in Nat, j >= 1, List(q, j)
                  PROVE  (\E S : q \in Seq(S) \ {<<>>}) /\ Len(q) = j
      OBVIOUS
    <3>1. (\E S : q \in Seq(S)) /\ Len(q) = j
      BY SequenceOf DEF List
    <3>2. q # <<>>
      BY <3>1
    <3>. QED  BY <3>1, <3>2
  <2>. QED  BY <2>1
<1>. DEFINE f == Tree!Fringe(s)
<1>2. /\ \A p \in 1 .. n : f[p] = s[p]
      /\ \A p \in 1 .. m : f[p] = u[p]
  BY <1>1, FringeOfItems
<1>3. /\ n % 2 = 1 => Len(f) = n + 1 /\ f[n + 1] = s[n]
      /\ n % 2 # 1 => Len(f) = n
      /\ m % 2 = 1 => Len(f) = m + 1 /\ f[m + 1] = u[m]
      /\ m % 2 # 1 => Len(f) = m
  <2>1. /\ n % 2 = 1 => f = Append(s, s[n])
        /\ n % 2 # 1 => f = s
        /\ m % 2 = 1 => f = Append(u, u[m])
        /\ m % 2 # 1 => f = u
    <3>1. f = Tree!Fringe(s) /\ f = Tree!Fringe(u)
      OBVIOUS
    <3>. HIDE DEF f
    <3>. QED  BY <1>1, <3>1 DEF Tree!Fringe, Tree!Last
  <2>2. PICK S, T : s \in Seq(S) /\ u \in Seq(T)
    BY <1>1
  <2>3. /\ Len(Append(s, s[n])) = n + 1 /\ Append(s, s[n])[n + 1] = s[n]
        /\ Len(Append(u, u[m])) = m + 1 /\ Append(u, u[m])[m + 1] = u[m]
    BY <1>1, <2>2, Appended
  <2>. HIDE DEF f
  <2>. QED  BY <1>1, <2>1, <2>3
<1>. HIDE DEF f
<1>4. \A a, b \in 1 .. n : s[a] = s[b] => a = b
  BY DEF List, Tree!IsInjective
<1>5. \A a, b \in 1 .. m : u[a] = u[b] => a = b
  BY DEF List, Tree!IsInjective
<1>6. CASE n = m
  <2>1. \A p \in 1 .. n : s[p] = u[p]
    BY <1>2, <1>6
  <2>. QED  BY <1>6, <2>1 DEF List
<1>7. CASE n % 2 = 1 /\ m = n + 1
  <2>1. n \in 1 .. m /\ m \in 1 .. m /\ n \in 1 .. n /\ n # m
    BY <1>7
  <2>2. u[m] = s[n] /\ u[n] = s[n]
    BY <1>2, <1>3, <1>7, <2>1
  <2>. QED  BY <1>5, <2>1, <2>2
<1>8. CASE m % 2 = 1 /\ n = m + 1
  <2>1. m \in 1 .. n /\ n \in 1 .. n /\ m \in 1 .. m /\ n # m
    BY <1>8
  <2>2. s[n] = u[m] /\ s[m] = u[m]
    BY <1>2, <1>3, <1>8, <2>1
  <2>. QED  BY <1>4, <2>1, <2>2
<1>9. n = m \/ (n % 2 = 1 /\ m = n + 1) \/ (m % 2 = 1 /\ n = m + 1)
  BY <1>3
<1>. QED  BY <1>6, <1>7, <1>8, <1>9

\* The hashes of a vector's leaves.
LeavesOf(s) == [p \in DOMAIN Tree!Fringe(s) |-> Tree!Leaf(Tree!Fringe(s)[p])]

\* They are a list of leaves.
LEMMA LeavesOfList ==
  ASSUME NEW s, NEW S, s \in Seq(S) \ {<<>>}
  PROVE  /\ Len(Tree!Fringe(s)) \in Nat /\ Len(Tree!Fringe(s)) >= 1
         /\ List(LeavesOf(s), Len(Tree!Fringe(s))) /\ Leaves(LeavesOf(s), Len(Tree!Fringe(s)))
         /\ \A p \in 1 .. Len(Tree!Fringe(s)) : LeavesOf(s)[p] = Tree!Leaf(Tree!Fringe(s)[p])
<1>. DEFINE f == Tree!Fringe(s)
            N == Len(f)
<1>1. f \in Seq(S) /\ N \in Nat /\ N >= 1
  BY FringeOfItems
<1>. HIDE DEF f
<1>2. DOMAIN f = 1 .. N
  BY <1>1
<1>3. LeavesOf(s) = [p \in 1 .. N |-> Tree!Leaf(f[p])]
  BY <1>2 DEF LeavesOf, f
<1>. QED  BY <1>1, <1>3 DEF List, Leaves, f

\* Leaves that have one root are of the same list.
LEMMA LeavesOfTell ==
  ASSUME NEW n \in Nat, NEW m \in Nat, n >= 1, m >= 1, NEW s, NEW u, List(s, n), List(u, m),
         Tree!IsInjective(s), Tree!IsInjective(u),
         Tree!Joined(LeavesOf(s)) = Tree!Joined(LeavesOf(u))
  PROVE  s = u
<1>. DEFINE f == Tree!Fringe(s)
            g == Tree!Fringe(u)
<1>1. PICK S, T : s \in Seq(S) \ {<<>>} /\ u \in Seq(T) \ {<<>>}
  <2>1. (\E S : s \in Seq(S)) /\ Len(s) = n /\ (\E S : u \in Seq(S)) /\ Len(u) = m
    BY SequenceOf DEF List
  <2>2. s # <<>> /\ u # <<>>
    BY <2>1
  <2>. QED  BY <2>1, <2>2
<1>3. f \in Seq(S) /\ g \in Seq(T)
  BY <1>1, FringeOfItems
<1>4. /\ Len(f) \in Nat /\ Len(f) >= 1 /\ List(LeavesOf(s), Len(f)) /\ Leaves(LeavesOf(s), Len(f))
      /\ \A p \in 1 .. Len(f) : LeavesOf(s)[p] = Tree!Leaf(f[p])
  BY <1>1, LeavesOfList
<1>5. /\ Len(g) \in Nat /\ Len(g) >= 1 /\ List(LeavesOf(u), Len(g)) /\ Leaves(LeavesOf(u), Len(g))
      /\ \A p \in 1 .. Len(g) : LeavesOf(u)[p] = Tree!Leaf(g[p])
  BY <1>1, LeavesOfList
<1>. HIDE DEF f, g
<1>6. Len(f) = Len(g) /\ LeavesOf(s) = LeavesOf(u)
  BY <1>4, <1>5, LeavesTell
<1>7. ASSUME NEW p \in 1 .. Len(f)  PROVE f[p] = g[p]
  <2>1. Tree!Leaf(f[p]) = Tree!Leaf(g[p])
    BY <1>4, <1>5, <1>6
  <2>. QED  BY <2>1 DEF Tree!Leaf
<1>8. f = g
  <2>1. f = [p \in 1 .. Len(f) |-> f[p]] /\ g = [p \in 1 .. Len(g) |-> g[p]]
    BY <1>3
  <2>. QED  BY <1>6, <1>7, <2>1
<1>9. Tree!Fringe(s) = Tree!Fringe(u)
  BY <1>8 DEF f, g
<1>. QED  BY <1>9, FringeTells

-----------------------------------------------------------------------------
(***************************************************************************)
(* Copies: what setItems hashes stands for the vector's transactions.      *)
(***************************************************************************)

\* Any order of a vector has its transactions, as often.
LEMMA OrderKeeps ==
  ASSUME NEW c \in Calls, c.vector \in Seq(Nat) \ {<<>>}, NEW o \in Tree!Orders(c)
  PROVE  /\ DOMAIN o = 1 .. Len(c.vector)
         /\ Tree!ToSet(o) = Tree!ToSet(c.vector)
         /\ Tree!IsInjective(c.vector) => Tree!IsInjective(o)
<1>. DEFINE v == c.vector
            N == Len(v)
<1>1. v \in Seq(Nat) \ {<<>>} /\ N \in Nat /\ DOMAIN v = 1 .. N
  OBVIOUS
<1>. HIDE DEF v, N
<1>2. CASE o = Tree!Sorted(v)
  <2>1. DOMAIN o = 1 .. N
    BY <1>1, <1>2 DEF Tree!Sorted
  <2>. QED  BY <1>1, <1>2, <2>1, SortedDescends DEF v, N
<1>3. CASE o \in {[p \in DOMAIN v |-> v[f[p]]] : f \in Tree!Bijection(DOMAIN v, DOMAIN v)}
  <2>1. PICK f \in Tree!Bijection(1 .. N, 1 .. N) : o = [p \in 1 .. N |-> v[f[p]]]
    BY <1>1, <1>3
  <2>2. /\ f \in [1 .. N -> 1 .. N]
        /\ \A a, b \in 1 .. N : f[a] = f[b] => a = b
        /\ \A b \in 1 .. N : \E a \in 1 .. N : f[a] = b
    BY <2>1 DEF Tree!Bijection, Tree!Injection, Tree!Surjection, Tree!IsInjective
  <2>3. DOMAIN o = 1 .. N /\ \A p \in 1 .. N : o[p] = v[f[p]] /\ f[p] \in 1 .. N
    BY <2>1, <2>2
  <2>4. ASSUME NEW n \in 1 .. N  PROVE \E p \in 1 .. N : o[p] = v[n]
    <3>1. PICK p \in 1 .. N : f[p] = n
      BY <2>2
    <3>2. o[p] = v[n]
      BY <2>3, <3>1
    <3>. QED  BY <3>2
  <2>5. Tree!ToSet(o) = {o[p] : p \in 1 .. N} /\ Tree!ToSet(v) = {v[n] : n \in 1 .. N}
    BY <1>1, <2>3 DEF Tree!ToSet
  <2>6. Tree!ToSet(o) = Tree!ToSet(v)
    <3>1. \A p \in 1 .. N : \E n \in 1 .. N : o[p] = v[n]
      BY <2>3
    <3>2. {o[p] : p \in 1 .. N} \subseteq {v[n] : n \in 1 .. N}
      BY <3>1
    <3>3. {v[n] : n \in 1 .. N} \subseteq {o[p] : p \in 1 .. N}
      BY <2>4
    <3>. QED  BY <2>5, <3>2, <3>3
  <2>7. ASSUME Tree!IsInjective(v)  PROVE Tree!IsInjective(o)
    <3>. SUFFICES ASSUME NEW p \in 1 .. N, NEW q \in 1 .. N, o[p] = o[q]  PROVE p = q
      BY <2>3 DEF Tree!IsInjective
    <3>1. f[p] = f[q]
      BY <1>1, <2>3, <2>7 DEF Tree!IsInjective
    <3>. QED  BY <2>2, <3>1
  <2>. QED  BY <2>3, <2>6, <2>7 DEF v, N
<1>. QED  BY <1>2, <1>3 DEF Tree!Orders, v

\* So have the copies; where they agree, they are in the one order there is.
LEMMA HashedKeeps ==
  ASSUME NEW c \in Calls, NEW s \in Tree!Hashed(c)
  PROVE  /\ List(s, Len(c.vector))
         /\ DOMAIN s = DOMAIN Tree!Contents(s)
         /\ Tree!ToSet(Tree!Contents(s)) = Tree!ToSet(c.vector)
         /\ Tree!IsInjective(c.vector) => Tree!IsInjective(Tree!Contents(s))
         /\ Tree!IsInjective(Tree!Contents(s)) => Tree!IsInjective(s)
         /\ Tree!Agree(c.nonces) => Tree!Contents(s) = Tree!Sorted(c.vector)
<1>1. /\ c.vector \in Seq(Nat) \ {<<>>} /\ s = [p \in 1 .. Len(c.vector) |-> s[p]]
      /\ DOMAIN c.vector = 1 .. Len(c.vector)
  BY HashedIsSequence
<1>2. PICK o \in Tree!Orders(c), r \in [DOMAIN c.vector -> c.nonces] :
        s = [p \in DOMAIN c.vector |-> Tree!Copy(o[p], r[p])]
  BY DEF Tree!Hashed
<1>3. /\ DOMAIN o = 1 .. Len(c.vector)
      /\ Tree!ToSet(o) = Tree!ToSet(c.vector)
      /\ Tree!IsInjective(c.vector) => Tree!IsInjective(o)
  BY <1>1, OrderKeeps
<1>4. o = [p \in 1 .. Len(c.vector) |-> o[p]]
  <2>1. CASE o = Tree!Sorted(c.vector)
    BY <1>1, <2>1 DEF Tree!Sorted
  <2>2. CASE o \in {[p \in DOMAIN c.vector |-> c.vector[f[p]]] :
                      f \in Tree!Bijection(DOMAIN c.vector, DOMAIN c.vector)}
    BY <1>1, <2>2
  <2>. QED  BY <2>1, <2>2 DEF Tree!Orders
<1>5. ASSUME NEW p \in 1 .. Len(c.vector)  PROVE s[p].of = o[p]
  BY <1>1, <1>2 DEF Tree!Copy
<1>6. Tree!Contents(s) = o
  BY <1>1, <1>4, <1>5 DEF Tree!Contents
<1>7. ASSUME Tree!IsInjective(o)  PROVE Tree!IsInjective(s)
  <2>1. \A p, q \in 1 .. Len(c.vector) : s[p] = s[q] => p = q
    BY <1>3, <1>5, <1>7 DEF Tree!IsInjective
  <2>. QED  BY <1>1, <2>1 DEF Tree!IsInjective
<1>8. ASSUME Tree!Agree(c.nonces)  PROVE o = Tree!Sorted(c.vector)
  BY <1>8 DEF Tree!Orders
<1>. QED  BY <1>1, <1>3, <1>6, <1>7, <1>8 DEF List

\* Something is hashed.
LEMMA SomethingIsHashed ==
  ASSUME NEW c \in Calls, c.nonces # {}, Tree!Agree(c.nonces)
  PROVE  Tree!Hashed(c) # {}
<1>1. PICK n \in c.nonces : TRUE
  OBVIOUS
<1>2. Tree!Sorted(c.vector) \in Tree!Orders(c)
  BY DEF Tree!Orders
<1>3. [p \in DOMAIN c.vector |-> n] \in [DOMAIN c.vector -> c.nonces]
  BY <1>1
<1>4. PICK o \in Tree!Orders(c), r \in [DOMAIN c.vector -> c.nonces] : TRUE
  BY <1>2, <1>3
<1>5. <<o, r>> \in Tree!Orders(c) \X [DOMAIN c.vector -> c.nonces]
  OBVIOUS
<1>. QED  BY <1>5 DEF Tree!Hashed

-----------------------------------------------------------------------------
(***************************************************************************)
(* The tree that is made has the root of the definition.                   *)
(***************************************************************************)

\* What the queue's nodes hash.
queued == [j \in 1 .. Len(queue) |-> nodes[queue[j]].hash]

\* The turns so far have made of the leaves what the definition makes of them.
RootInv ==
  /\ TreeInv
  /\ Len(queue) \in 1 .. Len(fringe)
  /\ queued = Lists(LeavesOf(items), Len(fringe) - 1)[Len(fringe) - Len(queue)]

\* It holds of the leaves,
LEMMA RootStarts == ASSUME Tree!Init PROVE RootInv
<1>1. TreeInv
  BY TreeStarts
<1>2. PICK s : \E c \in Calls :
        /\ s \in Tree!Hashed(c)
        /\ items = s
        /\ nodes = [n \in DOMAIN Tree!Fringe(s) |-> Tree!Node(Tree!Leaf(Tree!Fringe(s)[n]), 0, 0)]
        /\ queue = [n \in DOMAIN Tree!Fringe(s) |-> n]
  BY DEF Tree!Init
<1>3. PICK S : items \in Seq(S) \ {<<>>}
  BY <1>1 DEF TreeInv
<1>. DEFINE N == Len(fringe)
<1>4. /\ fringe \in Seq(S) /\ N \in Nat /\ N >= 1 /\ List(LeavesOf(items), N)
      /\ \A p \in 1 .. N : LeavesOf(items)[p] = Tree!Leaf(fringe[p])
  BY <1>3, LeavesOfList, FringeOfItems DEF fringe
<1>5. DOMAIN fringe = 1 .. N
  BY <1>4
<1>. HIDE DEF N
<1>6. /\ nodes = [n \in 1 .. N |-> [hash |-> Tree!Leaf(fringe[n]), left |-> 0, right |-> 0, parent |-> 0]]
      /\ queue = [n \in 1 .. N |-> n]
  BY <1>2, <1>5 DEF fringe, Tree!Node
<1>7. Len(queue) = N
  BY <1>4, <1>6
<1>8. ASSUME NEW n \in 1 .. N  PROVE queued[n] = LeavesOf(items)[n]
  <2>1. queued[n] = nodes[queue[n]].hash /\ queue[n] = n
    BY <1>6, <1>7 DEF queued
  <2>2. nodes[n] = [hash |-> Tree!Leaf(fringe[n]), left |-> 0, right |-> 0, parent |-> 0]
    BY <1>6
  <2>. QED  BY <1>4, <2>1, <2>2
<1>9. queued = LeavesOf(items)
  <2>1. queued = [j \in 1 .. N |-> queued[j]]
    BY <1>7 DEF queued
  <2>. QED  BY <1>4, <1>8, <2>1 DEF List
<1>10. Lists(LeavesOf(items), N - 1)[N - N] = LeavesOf(items)
  <2>1. N - N = 0
    BY <1>4
  <2>. QED  BY <1>4, <2>1, ListsAre
<1>11. N \in 1 .. N
  BY <1>4
<1>12. queued = Lists(LeavesOf(items), N - 1)[N - N]
  BY <1>9, <1>10
<1>. QED  BY <1>1, <1>7, <1>11, <1>12 DEF RootInv, N

\* A turn of setItems is a turn of the definition.
LEMMA JoinJoins ==
  ASSUME TreeInv, Tree!Join
  PROVE  queued' = Joint(queued)
<1>. DEFINE N == Len(nodes)
            L == Len(queue)
<1>1. /\ one \in 1 .. N /\ two \in 1 .. N /\ N \in Nat /\ L \in Nat /\ L >= 2
      /\ nodes'[N + 1] = made /\ Len(queue') = L - 1
      /\ \A n \in 1 .. N :
           nodes'[n] = IF n \in {one, two} THEN [nodes[n] EXCEPT !.parent = N + 1] ELSE nodes[n]
      /\ \A j \in 1 .. L - 2 : queue'[j] = queue[j + 2]
      /\ queue'[L - 1] = N + 1
  BY JoinMakes
<1>2. /\ \A j \in 1 .. L : queue[j] \in 1 .. N
      /\ \A n \in 1 .. N : NodeOK(n)
  BY DEF TreeInv, QueueOK
<1>. HIDE DEF N, L
<1>3. ASSUME NEW n \in 1 .. N  PROVE nodes'[n].hash = nodes[n].hash
  <2>1. nodes[n] = [hash |-> nodes[n].hash, left |-> nodes[n].left, right |-> nodes[n].right,
                    parent |-> nodes[n].parent]
    BY <1>2 DEF NodeOK
  <2>2. nodes'[n] = nodes[n] \/ nodes'[n] = [nodes[n] EXCEPT !.parent = N + 1]
    BY <1>1
  <2>3. [nodes[n] EXCEPT !.parent = N + 1].hash = nodes[n].hash
    BY <2>1
  <2>. QED  BY <2>2, <2>3
<1>4. List(queued, L) /\ \A j \in 1 .. L : queued[j] = nodes[queue[j]].hash
  BY DEF queued, List, L
<1>5. List(queued', L - 1) /\ \A j \in 1 .. L - 1 : queued'[j] = nodes'[queue'[j]].hash
  BY <1>1 DEF queued, List
<1>6. /\ List(Joint(queued), L - 1)
      /\ \A j \in 1 .. L - 2 : Joint(queued)[j] = queued[j + 2]
      /\ Joint(queued)[L - 1] = Tree!Concat(queued[1], queued[2])
  BY <1>1, <1>4, JointIs
<1>7. ASSUME NEW j \in 1 .. L - 1  PROVE queued'[j] = Joint(queued)[j]
  <2>1. CASE j = L - 1
    <3>1. queued'[j] = Tree!Concat(nodes[one].hash, nodes[two].hash)
      BY <1>1, <1>5, <2>1 DEF made
    <3>2. queued[1] = nodes[one].hash /\ queued[2] = nodes[two].hash
      <4>1. 1 \in 1 .. L /\ 2 \in 1 .. L
        BY <1>1
      <4>. QED  BY <1>4, <4>1 DEF one, two
    <3>. QED  BY <1>6, <2>1, <3>1, <3>2
  <2>2. CASE j # L - 1
    <3>1. j \in 1 .. L - 2 /\ j + 2 \in 1 .. L
      BY <1>1, <2>2
    <3>2. queued'[j] = nodes'[queue[j + 2]].hash
      BY <1>1, <1>5, <3>1
    <3>3. queued'[j] = nodes[queue[j + 2]].hash
      BY <1>2, <1>3, <3>1, <3>2
    <3>. QED  BY <1>4, <1>6, <3>1, <3>3
  <2>. QED  BY <2>1, <2>2
<1>. QED  BY <1>5, <1>6, <1>7 DEF List

\* and after every step.
LEMMA RootInvHolds == Spec => []RootInv
<1>1. Init => RootInv
  BY RootStarts DEF Init
<1>2. ASSUME RootInv, TreeInv', [Next]_vars  PROVE RootInv'
  <2>1. [Tree!Next]_Tree!vars
    BY <1>2, PartsStep
  <2>2. TreeInv
    BY <1>2 DEF RootInv
  <2>3. CASE items' = items /\ nodes' = nodes /\ queue' = queue
    BY <1>2, <2>3 DEF RootInv, fringe, queued
  <2>4. CASE Tree!Join
    <3>1. items' = items /\ Len(queue') = Len(queue) - 1 /\ Len(queue) \in Nat /\ Len(queue) >= 2
      BY <2>2, <2>4, JoinMakes
    <3>2. fringe' = fringe
      BY <3>1 DEF fringe
    <3>. DEFINE N == Len(fringe)
                g == Lists(LeavesOf(items), N - 1)
    <3>3. N \in Nat /\ N >= 1 /\ List(LeavesOf(items), N)
      <4>1. PICK S : items \in Seq(S) \ {<<>>}
        BY <2>2 DEF TreeInv
      <4>. QED  BY <4>1, LeavesOfList DEF fringe
    <3>4. Len(queue) \in 1 .. N /\ queued = g[N - Len(queue)]
      BY <1>2 DEF RootInv
    <3>5. \A n \in 1 .. N - 1 : g[n] = Joint(g[n - 1])
      BY <3>3, ListsAre
    <3>. HIDE DEF g, N
    <3>6. PICK n \in 1 .. N - 1 : /\ n - 1 = N - Len(queue) /\ n = N - Len(queue')
                                 /\ Len(queue') \in 1 .. N
      <4>1. /\ N - Len(queue') \in 1 .. N - 1 /\ N - Len(queue') - 1 = N - Len(queue)
            /\ Len(queue') \in 1 .. N
        BY <3>1, <3>3, <3>4
      <4>. QED  BY <4>1
    <3>7. queued' = g[n]
      <4>1. queued' = Joint(g[n - 1])
        BY <2>2, <2>4, <3>4, <3>6, JoinJoins
      <4>. QED  BY <3>5, <4>1
    <3>. QED  BY <1>2, <2>2, <3>1, <3>2, <3>6, <3>7 DEF RootInv, N, g
  <2>. QED  BY <2>1, <2>3, <2>4 DEF Tree!Next, Tree!SetItemsReturns, Tree!vars
<1>. QED  BY <1>1, <1>2, TreeInvHolds, PTL DEF Spec

\* A block's root tells its transactions, for blocks of every length and
\* whatever nonces the copies have: of blocks that repeat none, two have the
\* same root only if they hold the same transactions.  Where all their copies
\* agree, two that hold the same have the same root.
THEOREM RootsTellTransactions == Spec => []RootIsOfTransactions
<1>1. ASSUME RootInv, CopiesInv, built, Tree!IsInjective(Tree!Contents(items)),
             NEW c \in Calls, Tree!IsInjective(c.vector)
      PROVE  /\ Tree!RootHash \in Tree!RootsOf(c) =>
                  Tree!ToSet(c.vector) = Tree!ToSet(Tree!Contents(items))
             /\ /\ Tree!ToSet(c.vector) = Tree!ToSet(Tree!Contents(items))
                /\ Tree!Agree(nonces \cup c.nonces)
                => Tree!RootsOf(c) = {Tree!RootHash}
  <2>1. PICK d \in Calls : items \in Tree!Hashed(d) /\ nonces = d.nonces
    BY <1>1 DEF CopiesInv
  <2>2. Tree!RootHash = Tree!Joined(LeavesOf(items))
    <3>. DEFINE N == Len(fringe)
    <3>1. N \in Nat /\ N >= 1 /\ List(LeavesOf(items), N)
      <4>1. PICK S : items \in Seq(S) \ {<<>>}
        BY <1>1 DEF RootInv, TreeInv
      <4>. QED  BY <4>1, LeavesOfList DEF fringe
    <3>2. Len(queue) = 1 /\ queued = Lists(LeavesOf(items), N - 1)[N - Len(queue)]
      BY <1>1 DEF RootInv, TreeInv, QueueOK
    <3>3. queued[1] = Tree!RootHash
      BY <3>2 DEF queued, Tree!RootHash
    <3>. QED  BY <3>1, <3>2, <3>3, ListsAre
  <2>3. Tree!RootsOf(c) = {Tree!Joined(LeavesOf(s)) : s \in Tree!Hashed(c)}
    BY DEF Tree!RootsOf, LeavesOf
  <2>4. /\ List(items, Len(d.vector)) /\ Tree!IsInjective(items)
        /\ Len(d.vector) \in Nat /\ Len(d.vector) >= 1
        /\ Len(c.vector) \in Nat /\ Len(c.vector) >= 1
        /\ d.vector \in Seq(Nat) \ {<<>>} /\ c.vector \in Seq(Nat) \ {<<>>}
        /\ c.nonces \in (SUBSET Nat) \ {{}}
        /\ Tree!ToSet(Tree!Contents(items)) = Tree!ToSet(d.vector)
    <3>1. c \in [vector : Seq(Nat) \ {<<>>}, nonces : (SUBSET Nat) \ {{}}]
      BY AlgorithmsAssumption DEF Tree!TreeAssumption
    <3>2. /\ c.vector \in Seq(Nat) \ {<<>>} /\ c.nonces \in (SUBSET Nat) \ {{}}
          /\ Len(c.vector) \in Nat /\ Len(c.vector) >= 1
      BY <3>1
    <3>. QED  BY <1>1, <2>1, <3>2, HashedKeeps, HashedIsSequence
  <2>5. ASSUME Tree!RootHash \in Tree!RootsOf(c)
        PROVE  Tree!ToSet(c.vector) = Tree!ToSet(Tree!Contents(items))
    <3>1. PICK s \in Tree!Hashed(c) : Tree!Joined(LeavesOf(s)) = Tree!Joined(LeavesOf(items))
      BY <2>2, <2>3, <2>5
    <3>2. /\ List(s, Len(c.vector)) /\ Tree!IsInjective(s)
          /\ Tree!ToSet(Tree!Contents(s)) = Tree!ToSet(c.vector)
      BY <1>1, HashedKeeps
    <3>3. s = items
      BY <2>4, <3>1, <3>2, LeavesOfTell
    <3>. QED  BY <3>2, <3>3
  <2>6. ASSUME Tree!ToSet(c.vector) = Tree!ToSet(Tree!Contents(items)),
               Tree!Agree(nonces \cup c.nonces)
        PROVE  Tree!RootsOf(c) = {Tree!RootHash}
    <3>1. /\ Tree!Agree(c.nonces) /\ Tree!Agree(d.nonces)
          /\ \A m \in c.nonces, n \in d.nonces : m = n
      BY <2>1, <2>6 DEF Tree!Agree
    <3>2. Tree!Contents(items) = Tree!Sorted(d.vector)
      BY <2>1, <3>1, HashedKeeps
    <3>3. ASSUME NEW s \in Tree!Hashed(c)  PROVE s = items
      <4>1. /\ Tree!Contents(s) = Tree!Sorted(c.vector) /\ Tree!IsInjective(Tree!Contents(s))
            /\ List(s, Len(c.vector)) /\ DOMAIN s = DOMAIN Tree!Contents(s)
        BY <1>1, <3>1, HashedKeeps
      <4>2. Tree!Contents(s) = Tree!Contents(items)
        BY <1>1, <2>4, <2>6, <3>2, <4>1, SortedOfSet
      <4>3. DOMAIN s = DOMAIN items
        BY <2>1, <4>1, <4>2, HashedKeeps
      <4>4. ASSUME NEW p \in DOMAIN s  PROVE s[p] = items[p]
        <5>1. s[p].of = items[p].of
          <6>1. Tree!Contents(s)[p] = s[p].of /\ Tree!Contents(items)[p] = items[p].of
            BY <4>3 DEF Tree!Contents
          <6>. QED  BY <4>2, <6>1
        <5>2. /\ s[p] = Tree!Copy(s[p].of, s[p].nonce) /\ s[p].nonce \in c.nonces
              /\ items[p] = Tree!Copy(items[p].of, items[p].nonce) /\ items[p].nonce \in d.nonces
          BY <2>1, <4>3, HashedIsCopies
        <5>3. s[p].nonce = items[p].nonce
          BY <3>1, <5>2
        <5>. QED  BY <5>1, <5>2, <5>3
      <4>5. s = [p \in DOMAIN s |-> s[p]] /\ items = [p \in DOMAIN items |-> items[p]]
        BY <2>4, <4>1 DEF List
      <4>. QED  BY <4>3, <4>4, <4>5
    <3>4. Tree!Hashed(c) # {}
      BY <2>4, <3>1, SomethingIsHashed
    <3>. QED  BY <2>2, <2>3, <3>3, <3>4
  <2>. QED  BY <2>5, <2>6
<1>2. RootInv /\ CopiesInv => RootIsOfTransactions
  BY <1>1 DEF RootIsOfTransactions, Tree!RootIsOfTransactions
<1>. QED  BY <1>2, RootInvHolds, CopiesInvHolds, PTL
=============================================================================
