------------------------------- MODULE MCNode -------------------------------
(***************************************************************************)
(* Instances for TLC of the parts of one node, which looks at one part     *)
(* after the other.                                                        *)
(*                                                                         *)
(* Locks: a chain of up to four blocks, pops of one more than differs, two *)
(* retries.  Limiter: two requests in five seconds, for two clients of     *)
(* which one is remembered.  Cache: one block with a nonce that solves it, *)
(* one without.                                                            *)
(***************************************************************************)
EXTENDS Node, TLC

CONSTANTS alice, bob, t1, t2

-----------------------------------------------------------------------------
\* Two payments of one wallet that it can not both afford at first, one back,
\* and one whose fee is too low.
MCGrant == [w \in Wallet |-> IF w = alice THEN 6 ELSE 0]

Pay(from, to, amount, fee, time) ==
  [from |-> from, to |-> to, amount |-> amount, fee |-> fee, time |-> time]

MCCopiedPayment == {Pay(alice, bob, 3, 1, 0), Pay(alice, bob, 2, 1, 1), Pay(bob, alice, 1, 1, 0)}
MCPayment       == MCCopiedPayment \cup {Pay(bob, alice, 1, 0, 0)}

\* Two blocks for the third number and one for the fourth, which carries a
\* payment of the branch that it is not on.
MCHeight == "g" :> 1 @@ "f" :> 2 @@ "a3" :> 3 @@ "b3" :> 3 @@ "c4" :> 4
MCTxsOf  == "g" :> <<>> @@ "f" :> <<"x">> @@ "a3" :> <<"p", "q">> @@ "b3" :> <<"q">> @@ "c4" :> <<"p">>
MCBase   == <<"g", "f">>

MCSolves == {<<t1, 1>>}

-----------------------------------------------------------------------------
\* What stands still does so in one of its initial states only.
MCInit ==
  /\ Init
  /\ part = "locks" \/ lockTarget = 0
  /\ part = "http" \/ httpBlocks = 1
  /\ part = "pow" \/ \A x \in Verifier : target[x] = t1 /\ nonce[x] = 1

MCSpec == MCInit /\ [][Next]_vars /\ Fairness

=============================================================================
