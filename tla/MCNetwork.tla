------------------------------ MODULE MCNetwork ------------------------------
(***************************************************************************)
(* An instance of Network for TLC.                                         *)
(***************************************************************************)
EXTENDS Network, TLC

CONSTANTS h1, h2, h3, h4, bad, n1, n2, n3, p1, p2

-----------------------------------------------------------------------------
\* Two branches that part after the first block, one of them longer; a header
\* that is banned, and another first block than the checkpoint's, with a bad
\* nonce.
MCHeader == {"g1", "a2", "a3", "b2", "banned2", "other1"}

MCHeaderPrev == [h \in Header |->
  CASE h \in {"g1", "other1"} -> NullHash
    [] h \in {"a2", "b2", "banned2"} -> "g1"
    [] h = "a3" -> "a2"]

MCHeaderWork == [h \in Header |-> IF h = "b2" THEN 4 ELSE 1]

MCId == [h \in Header |->
  CASE h \in {"g1", "other1"} -> 1 [] h \in {"a2", "b2", "banned2"} -> 2 [] OTHER -> 3]

MCGoodNonce    == Header \ {"other1"}
MCcheckPoints  == 1 :> "g1"
MCbannedHashes == 2 :> "banned2"

MCHeaderChains == {<<>>, <<"g1", "a2", "a3">>, <<"g1", "b2">>}

\* Chains of up to four blocks that part after the first or the second; the
\* shortest branch is the heaviest one.
MCBlock == {"g", "a2", "a3", "b3", "b4", "c2"}

MCWork == [b \in Block |-> IF b = "c2" THEN 8 ELSE IF b = "b4" THEN 2 ELSE 1]

MCChains == {<<>>, <<"g">>, <<"g", "a2", "a3">>, <<"g", "a2", "b3", "b4">>, <<"g", "c2">>}

\* Clocks that are right, and far off to either side.
MCOffset == {-3, 0, 4}

\* Two nodes that have found each other, and a third that knows one or both of
\* them, or only itself, or is in all their sources.
MCSources ==
  {[n \in Node |-> IF n = n3 THEN S ELSE {n1, n2} \ {n}] : S \in {{n1}, {n1, n2}, {n3}}}

-----------------------------------------------------------------------------
\* What stands still does so in one of its initial states only.
MCInit ==
  /\ Init
  /\ store \in {<<>>, <<"g1", "b2">>} /\ (part = "headers" \/ store = <<>>)
  /\ part = "sync" \/ chain = <<"g">>
  /\ part = "calls" \/ nodeHosts[n3] = {n1}

MCSpec == MCInit /\ [][Next]_vars /\ Fairness

=============================================================================
