----------------------------- MODULE Algorithms -----------------------------
(***************************************************************************)
(* Pure functions of the node, run a turn or a conversion at a time:       *)
(* computeDifficulty's loop, a Merkle tree's setItems, and the forms a     *)
(* transaction takes.  As in Node, "part" is the one that runs.            *)
(***************************************************************************)
EXTENDS Integers

CONSTANTS
  MinDifficulty, MaxRetarget, Difficulties, Times, Targets,   \* DifficultyLoop
  Calls,                                                      \* MerkleTree
  Key, Wallet, WalletOf, Terms, Nonce, None                   \* Wire

VARIABLES
  part,
  current, elapsed, expected, newDifficulty, k, lastK, done,  \* DifficultyLoop
  nonces, items, nodes, queue, built,                         \* MerkleTree
  sent, form, t                                               \* Wire

Loop  == INSTANCE DifficultyLoop
Tree  == INSTANCE MerkleTree
Wired == INSTANCE Wire

ASSUME AlgorithmsAssumption ==
  Loop!LoopAssumption /\ Tree!TreeAssumption /\ Wired!WireAssumption

loopVars == <<current, elapsed, expected, newDifficulty, k, lastK, done>>
treeVars == <<nonces, items, nodes, queue, built>>
wireVars == <<sent, form, t>>

vars == <<part, loopVars, treeVars, wireVars>>

Init ==
  /\ part \in {"loop", "tree", "wire"}
  /\ Loop!Init /\ Tree!Init /\ Wired!Init

Next ==
  /\ UNCHANGED part
  /\ \/ part = "loop" /\ Loop!Next  /\ UNCHANGED <<treeVars, wireVars>>
     \/ part = "tree" /\ Tree!Next  /\ UNCHANGED <<loopVars, wireVars>>
     \/ part = "wire" /\ Wired!Next /\ UNCHANGED <<loopVars, treeVars>>

Spec == Init /\ [][Next]_vars

-----------------------------------------------------------------------------
\* computeDifficulty's loop computes what the model of the chain says it does.
LoopComputes == Loop!LoopComputes

\* computeDifficulty's answer is the best there is.
ClosestDifficulty == Loop!ClosestDifficulty

\* A Merkle proof that is answered with is of a transaction of the block, and
\* checks; where copies of a transaction agree, each of them has one.
ProofsHold == Tree!ProofsHold

\* A Merkle root stands for one set of transactions, and where copies agree, a
\* set has one root.
RootIsOfTransactions == part = "tree" => Tree!RootIsOfTransactions

\* A transaction arrives as it was sent.
ArrivesAsSent == Wired!ArrivesAsSent

\* A transaction that was acceptable is where it arrives, and no other but for
\* the sender it names.
AcceptedAsSent == Wired!AcceptedAsSent

=============================================================================
