------------------------------ MODULE MCChain ------------------------------
(***************************************************************************)
(* Instances of BlockChain for TLC: two wallets that pay each other and    *)
(* the null address, which collects the fee of verified transactions.      *)
(***************************************************************************)
EXTENDS ChainContents

CONSTANTS alice, bob, null, unsigned, absent

MCWallet == {alice, bob, null}
MCOrder  == <<null, alice, bob>>

Fee(to, time) ==
  [isFee |-> TRUE, from |-> null, to |-> to, signer |-> null, amount |-> 4, fee |-> 0,
   time |-> time, signed |-> unsigned, signature |-> 0]

Pay(from, to, amount, fee, signature) ==
  [isFee |-> FALSE, from |-> from, to |-> to, signer |-> from, amount |-> amount, fee |-> fee,
   time |-> 1, signed |-> 0, signature |-> signature]

FeeG    == Fee(alice, 0)
FeeA    == Fee(alice, 1)
FeeB    == Fee(bob, 1)
Grant   == [Pay(null, bob, 2, 0, 0) EXCEPT !.signed = unsigned]
PayBob  == Pay(alice, bob, 3, 1, 1)
Resigned == Pay(alice, bob, 3, 1, 2)           \* PayBob with another signature
PayBack == Pay(bob, alice, 1, 0, 1)
Big     == Pay(alice, bob, 9, 0, 1)            \* more than alice has at first
Stray   == Pay(null, bob, 1, 0, 1)             \* no money was ever paid to null
Forged  == [Pay(alice, bob, 1, 0, 1) EXCEPT !.signer = bob]
Bad     == [Pay(alice, bob, 1, 0, 2) EXCEPT !.signed = unsigned]

MCTx == {FeeG, FeeA, FeeB, Grant, PayBob, Resigned, PayBack, Big, Stray, Forged, Bad}

MCGenesis ==
  [id |-> 1, prev |-> NullHash, txs |-> <<FeeG, Grant>>, difficulty |-> GenesisDifficulty, timestamp |-> 0]

\* Blocks that execute, and blocks that each fail one check.
MCBody ==
  { <<FeeA>>, <<PayBob, FeeB>>, <<FeeA, PayBack>>, <<FeeB, PayBob, Resigned>>,
    <<FeeB, PayBob, PayBob>>, <<FeeA, Stray>>, <<FeeA, PayBack, Big>>, <<FeeB, Bad>>,
    <<FeeA, Forged>>, <<PayBack>>, <<FeeA, FeeB>>, <<FeeA, FeeB, PayBack, PayBob>> }

\* Few enough transactions for every ledger that calls cut short leave behind.
MCFewTx   == {FeeG, FeeA, Grant, PayBack}
MCFewBody == {<<FeeA>>, <<FeeA, PayBack>>, <<PayBack, FeeA>>}

\* Only the mining fee, where time stamps and difficulties are what matters.
MCCoinbaseTx   == {FeeG, FeeA, Grant}
MCCoinbaseBody == {<<FeeA>>}

MCFee  == [h \in Height |-> 4]
MCWork == [d \in BlockDifficulty \cup {GenesisDifficulty} |-> 2^d]
=============================================================================
