---------------------------- MODULE AbstractChain ----------------------------
(***************************************************************************)
(* What BlockChain promises of the chain on disk: it is changed one whole  *)
(* block at a time, at its end.  A call that adds or pops a block writes   *)
(* four databases; whenever it is cut short, its block is there or it is   *)
(* not, and no chain of more than the genesis block is ever given up.      *)
(***************************************************************************)
EXTENDS Naturals, Sequences

CONSTANTS Genesis, NullHash

VARIABLE chain

Hash(b) == <<b.txs, b.prev, b.difficulty, b.timestamp>>

Init == chain = <<>>

\* A block that names the last one.
Extend ==
  /\ Len(chain') = Len(chain) + 1
  /\ LET b == chain'[Len(chain')] IN
       /\ chain' = Append(chain, b)
       /\ b.id = Len(chain')
       /\ IF chain = <<>> THEN b = Genesis /\ b.prev = NullHash
                          ELSE b.prev = Hash(chain[Len(chain)])

Retract == Len(chain) > 1 /\ chain' = SubSeq(chain, 1, Len(chain) - 1)

\* resetChain, before it adds the genesis block again.
Clear == Len(chain) = 1 /\ chain' = <<>>

Next == Extend \/ Retract \/ Clear

Spec == Init /\ [][Next]_chain

=============================================================================
