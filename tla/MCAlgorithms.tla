---------------------------- MODULE MCAlgorithms ----------------------------
(***************************************************************************)
(* Arguments for the pure functions.  computeDifficulty: times before, at  *)
(* and past every power of two of the targets, none at all, and time       *)
(* stamps that run backwards.  MerkleTree: vectors of up to five different *)
(* transactions in every order, and of up to four that repeat some, where  *)
(* copies agree; of up to three where they do not.  Wire: two keys, the    *)
(* wallets they own and the null address.                                  *)
(***************************************************************************)
EXTENDS Algorithms, Functions, TLC

CONSTANTS k1, k2, w1, w2, null

MCDifficulties == 1 .. 10
MCTimes        == (-3 .. 60) \cup {95, 96, 97, 191, 192, 193, 500, 5000}

MCDistinct  == UNION {{v \in [1 .. n -> 1 .. 5] : IsInjective(v)} : n \in 1 .. 5}
MCRepeating == UNION {[1 .. n -> 1 .. 3] : n \in 1 .. 4}
MCShort     == UNION {[1 .. n -> 1 .. 3] : n \in 1 .. 3}
MCCalls     == [vector : MCDistinct \cup MCRepeating, nonces : {{0}}]
                 \cup [vector : MCShort, nonces : {{0, 1}}]

MCWalletOf == k1 :> w1 @@ k2 :> w2

\* Init, where what stands still does so in one of its initial states only.
MCInit ==
  /\ part \in {"loop", "tree", "wire"}
  /\ Tree!Init  /\ (part = "tree" \/ (nonces = {0} /\ Tree!Contents(items) = <<1>>))
  /\ Loop!Init  /\ (part = "loop" \/ (current = 2 /\ elapsed = 6 /\ expected = 6))
  /\ Wired!Init /\ (part = "wire" \/ (sent.isFee /\ sent.terms = 1 /\ sent.nonce = 0))

MCSpec == MCInit /\ [][Next]_vars

=============================================================================
