-------------------------------- MODULE Wire --------------------------------
(***************************************************************************)
(* The forms a transaction takes on its way through the network: an        *)
(* object, which is copied and handed on; a TransactionInfo, as it is      *)
(* stored; a buffer, as blocks and pools are sent; and JSON, as wallets    *)
(* and miners send it.  Every form leaves something out, and reading it    *)
(* back makes up for it in a way of its own.                               *)
(*                                                                         *)
(* terms stands for recipient, amount, fee and time stamp, which every     *)
(* form carries.  A fee's sender, key and signature are never looked at    *)
(* and are left out.  A hash is the value that is hashed, and a signature  *)
(* is the key it was made with and the hash it was made of.                *)
(***************************************************************************)
EXTENDS Naturals

CONSTANTS
  Key, Wallet,       \* public keys and wallet addresses
  WalletOf,          \* walletAddressFromPublicKey
  Terms,
  Nonce,             \* what an uninitialised nonce may read as
  None               \* a field that the form does not have

\* An empty sender is no address.
WireAssumption == WalletOf \in [Key -> Wallet] /\ 0 \in Nonce /\ None \notin Wallet

VARIABLES
  sent,     \* the transaction as its sender made it
  form,     \* the form it is in: object, info, buffer or json
  t         \* what that form holds

vars == <<sent, form, t>>

hashContents(x) == <<IF x.isFee THEN None ELSE x.from, x.terms, x.nonce>>

\* Transaction::sign.
Signed(x) == [x EXCEPT !.signature = [by |-> x.key, over |-> hashContents(x)]]

SignatureValid(x) ==
  x.isFee \/ x.signature = [by |-> x.key, over |-> hashContents(x)]

\* What ExecuteTransaction and ExecuteBlock ask of a transaction by itself.
Accepted(x) == SignatureValid(x) /\ (x.isFee \/ WalletOf[x.key] = x.from)

\* operator==.
Same(x, y) ==
  /\ x.isFee = y.isFee /\ x.terms = y.terms
  /\ x.isFee \/ (x.from = y.from /\ x.key = y.key /\ x.signature = y.signature)

\* What a sender makes: payments, signed and then sometimes changed or given
\* the sender of another key, and fees, whose nonce is never set.
Payments == {Signed([isFee |-> FALSE, terms |-> m, from |-> w, key |-> k, nonce |-> 0, signature |-> None]) :
               m \in Terms, w \in Wallet, k \in Key}

FeeTransactions == {[isFee |-> TRUE, terms |-> m, from |-> None, key |-> None, nonce |-> n, signature |-> None] :
                      m \in Terms, n \in Nonce}

Changed == {[p EXCEPT !.terms = m] : p \in Payments, m \in Terms}
           \cup {[p EXCEPT !.from = w] : p \in Payments, w \in Wallet}

Init ==
  /\ sent \in Payments \cup Changed \cup FeeTransactions
  /\ form = "object" /\ t = sent

Becomes(from, to, held) == form = from /\ form' = to /\ t' = held /\ UNCHANGED sent

\* The copy constructor.
Copy == \E n \in Nonce : Becomes("object", "object", [t EXCEPT !.nonce = n])

serialize == Becomes("object", "info", [t EXCEPT !.nonce = None])

FromInfo == \E n \in Nonce : Becomes("info", "object", [t EXCEPT !.nonce = n])

transactionInfoToBuffer == Becomes("info", "buffer", [t EXCEPT !.from = None])

\* (Mutant: the sender is not worked out.)
transactionInfoFromBufferNoSender == Becomes("buffer", "info", t)

\* The sender is the owner of the key.
transactionInfoFromBuffer ==
  Becomes("buffer", "info", [t EXCEPT !.from = IF t.isFee THEN None ELSE WalletOf[t.key]])

toJson == Becomes("object", "json", [t EXCEPT !.nonce = None])

\* (Mutant: the signature is not read.)
FromJsonUnsigned ==
  \E n \in Nonce :
    Becomes("json", "object", [t EXCEPT !.nonce = n, !.isFee = (t.from = None), !.signature = None])

\* A sender that is empty makes a fee.
FromJson ==
  \E n \in Nonce : Becomes("json", "object", [t EXCEPT !.nonce = n, !.isFee = (t.from = None)])

Next ==
  \/ Copy \/ serialize \/ FromInfo
  \/ transactionInfoToBuffer \/ transactionInfoFromBuffer
  \/ toJson \/ FromJson

Spec == Init /\ [][Next]_vars

-----------------------------------------------------------------------------
\* A transaction that names the owner of its key as its sender arrives as it
\* was sent, through however many copies, nodes and stores.
ArrivesAsSent ==
  form = "object" /\ (sent.isFee \/ WalletOf[sent.key] = sent.from) => Same(t, sent)

\* What is accepted on arrival, the sender having made it in the name of its
\* key's owner would have been accepted at once: no way through the network makes
\* up for anything but a wrong sender.  And what was acceptable still is, if its
\* copy's nonce reads as it was signed.
AsOwner(x) == IF x.isFee THEN x ELSE [x EXCEPT !.from = WalletOf[x.key]]

AcceptedAsSent ==
  form = "object" =>
    /\ Accepted(t) => Accepted(AsOwner(sent))
    /\ Accepted(sent) /\ t.nonce = sent.nonce => Accepted(t)
=============================================================================
