----------------------------- MODULE MerkleTree -----------------------------
(***************************************************************************)
(* MerkleTree of src/src/core: setItems, one turn of its loop per step,    *)
(* and getMerkleProof.  A transaction is its number.  What is hashed is a  *)
(* copy of one: the copy's nonce, which its constructor leaves             *)
(* uninitialised, is hashed with it.  A hash is the value that is hashed,  *)
(* so two hashes are equal only if what they stand for is, and numbers are *)
(* in the order of the hashes where the nonce is one and the same.         *)
(*                                                                         *)
(* setItems of no items reads the front of an empty queue, which is        *)
(* undefined: a vector has an item at least.  std::sort by a comparison    *)
(* that copies may answer either way is undefined too: it leaves the       *)
(* transactions in any order.                                              *)
(***************************************************************************)
EXTENDS Naturals, SequencesExt

\* A call of setItems, by the vector of transactions and the nonces that their
\* copies may turn out to have in it.
CONSTANTS Calls

TreeAssumption ==
  Calls \subseteq [vector : Seq(Nat) \ {<<>>}, nonces : (SUBSET Nat) \ {{}}]

VARIABLES
  nonces,     \* what a copy's nonce may be
  items,      \* the copies that are hashed, in the order setItems leaves the vector in
  nodes,      \* the HashTrees that were made
  queue,      \* q, the nodes that have no parent yet
  built       \* setItems has returned

vars == <<nonces, items, nodes, queue, built>>

Agree(S) == \A m, n \in S : m = n

\* All copies of a transaction are alike.
CopiesAgree == Agree(nonces)

\* (Mutant: the vector is taken in its order.)
Unsorted(v) == v

\* From the highest to the lowest: a number's place is how many are above it, or
\* equal to it and not behind it.
Place(v, n) == Cardinality({m \in DOMAIN v : v[m] > v[n] \/ (v[m] = v[n] /\ m <= n)})

Sorted(v) == [p \in DOMAIN v |-> v[CHOOSE n \in DOMAIN v : Place(v, n) = p]]

\* What std::sort may make of the vector.
Orders(c) ==
  IF Agree(c.nonces) THEN {Sorted(c.vector)}
  ELSE {[p \in DOMAIN c.vector |-> c.vector[f[p]]] :
          f \in Bijection(DOMAIN c.vector, DOMAIN c.vector)}

\* What setItems may hash: the loop copies each item once more.
Copy(t, n) == [of |-> t, nonce |-> n]

Hashed(c) ==
  {[p \in DOMAIN c.vector |-> Copy(x[1][p], x[2][p])] :
     x \in Orders(c) \X [DOMAIN c.vector -> c.nonces]}

\* Hashes: of a copy, and concatHashes.
Leaf(copy) == <<copy>>
Concat(a, b) == <<a, b>>

Node(hash, left, right) == [hash |-> hash, left |-> left, right |-> right, parent |-> 0]

\* The items, and the last one again if they are odd.
Fringe(v) == IF Len(v) % 2 = 1 THEN Append(v, Last(v)) ELSE v

Init ==
  \E c \in Calls : \E s \in Hashed(c) :
    /\ nonces = c.nonces
    /\ items = s
    /\ nodes = [i \in DOMAIN Fringe(s) |-> Node(Leaf(Fringe(s)[i]), 0, 0)]
    /\ queue = [i \in DOMAIN Fringe(s) |-> i]
    /\ built = FALSE

\* (Mutant: the right node gets no parent.)
JoinLeftParent ==
  /\ ~built /\ Len(queue) > 1
  /\ LET a == queue[1]  b == queue[2]  root == Len(nodes) + 1 IN
       /\ nodes' = Append([nodes EXCEPT ![a].parent = root],
                          Node(Concat(nodes[a].hash, nodes[b].hash), a, b))
       /\ queue' = Append(SubSeq(queue, 3, Len(queue)), root)
  /\ UNCHANGED <<nonces, items, built>>

\* Two nodes are taken from the front and their parent goes to the back.
Join ==
  /\ ~built /\ Len(queue) > 1
  /\ LET a == queue[1]  b == queue[2]  root == Len(nodes) + 1 IN
       /\ nodes' = Append([nodes EXCEPT ![a].parent = root, ![b].parent = root],
                          Node(Concat(nodes[a].hash, nodes[b].hash), a, b))
       /\ queue' = Append(SubSeq(queue, 3, Len(queue)), root)
  /\ UNCHANGED <<nonces, items, built>>

SetItemsReturns ==
  /\ ~built /\ Len(queue) = 1
  /\ built' = TRUE
  /\ UNCHANGED <<nonces, items, nodes, queue>>

Next == Join \/ SetItemsReturns

Spec == Init /\ [][Next]_vars

RootHash == nodes[queue[1]].hash

\* A copy of node n, over the child it was come to from and the other one.
CopyOver(n, previous) ==
  IF previous # 0 /\ nodes[n].left \notin {0, previous}
  THEN Node(nodes[n].hash, nodes[n].left, previous)
  ELSE IF previous # 0 /\ nodes[n].right \notin {0, previous}
       THEN Node(nodes[n].hash, previous, nodes[n].right)
       ELSE Node(nodes[n].hash, 0, 0)

\* getProof climbs from a node to the topmost, having come from previous, and
\* answers with a copy of that.
GetProof(leaf) ==
  LET getProof[c \in (DOMAIN nodes) \X ({0} \cup DOMAIN nodes)] ==
        LET n == c[1]  previous == c[2] IN
        IF nodes[n].parent # 0 THEN getProof[<<nodes[n].parent, n>>] ELSE CopyOver(n, previous)
  IN  getProof[<<leaf, 0>>]

\* fringeNodes holds, of the items with the same hash, the last.  The transaction
\* is taken by value, and it is that copy that is looked for.
NoProof == Node(<<>>, 0, 0)

MerkleProof(copy) ==
  IF \E n \in DOMAIN items : items[n] = copy
  THEN GetProof(CHOOSE n \in DOMAIN items :
                  items[n] = copy /\ \A m \in n + 1 .. Len(items) : items[m] # copy)
  ELSE NoProof

-----------------------------------------------------------------------------
Below(n) == {nodes[n].left, nodes[n].right} \ {0}

Under(root) ==
  LET under[n \in DOMAIN nodes] == {n} \cup UNION {under[m] : m \in Below(n)} IN under[root]

HashesUp(n) == n.left # 0 => n.hash = Concat(nodes[n.left].hash, nodes[n.right].hash)

\* What each copy is of.
Contents(s) == [p \in DOMAIN s |-> s[p].of]

Known == UNION {ToSet(c.vector) : c \in Calls}

\* A proof that checks: it starts at the root, every node below hashes its two
\* children, and the copy is at a leaf.
Checks(proof, copy) ==
  LET below == Under(proof.left) \cup Under(proof.right) IN
  /\ proof.left # 0 /\ proof.hash = RootHash
  /\ HashesUp(proof) /\ \A n \in below : HashesUp(nodes[n])
  /\ \E n \in below : Below(n) = {} /\ nodes[n].hash = Leaf(copy)

\* What verifyTransaction answers with can be checked by whoever has the
\* block's root: whichever nonce the copy it looks for has, a proof is given
\* only of a transaction the block holds, and checks.  Where copies agree,
\* there is one of every transaction of the block.  (Where they do not, a
\* transaction of the block may not be found.)
ProofsHold ==
  built => \A t \in Known, n \in nonces :
    LET proof == MerkleProof(Copy(t, n)) IN
    /\ proof # NoProof => t \in ToSet(Contents(items)) /\ Checks(proof, Copy(t, n))
    /\ CopiesAgree /\ t \in ToSet(Contents(items)) => proof # NoProof

\* The root of a vector, by the reference definition: the first two of a list
\* of hashes are joined at its end until one is left.
Joined(hashes) ==
  LET rest[j \in 0 .. Len(hashes) - 1] ==
        IF j = 0 THEN hashes
        ELSE LET r == rest[j - 1] IN Append(SubSeq(r, 3, Len(r)), Concat(r[1], r[2]))
  IN  rest[Len(hashes) - 1][1]

RootsOf(c) ==
  {LET f == Fringe(s) IN Joined([i \in DOMAIN f |-> Leaf(f[i])]) : s \in Hashed(c)}

\* A root stands for a block's transactions: of blocks that repeat none, which
\* is what ExecuteBlock accepts, two have the same root only if they hold the
\* same transactions, whatever the copies' nonces were.  Two that hold the same,
\* in whichever order they were sent, have the same root where all their copies
\* agree.  (Where they do not, a block's own vector may have several roots.)
RootIsOfTransactions ==
  built /\ IsInjective(Contents(items)) =>
    \A c \in Calls : IsInjective(c.vector) =>
      /\ RootHash \in RootsOf(c) => ToSet(c.vector) = ToSet(Contents(items))
      /\ ToSet(c.vector) = ToSet(Contents(items)) /\ Agree(nonces \cup c.nonces) =>
           RootsOf(c) = {RootHash}
=============================================================================
