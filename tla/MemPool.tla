------------------------------- MODULE MemPool -------------------------------
(***************************************************************************)
(* MemPool of src/src/server, beside a chain that adds and pops blocks.    *)
(*                                                                         *)
(* A payment is a record [from, to, amount, fee, time].  An entry of the   *)
(* queue is a copy of one: <<payment, n>>, n being what the copy's         *)
(* uninitialised nonce reads as; copies of one payment with different      *)
(* nonces have different hashes and are different to std::set.             *)
(*                                                                         *)
(* addTransaction, finishBlock and the clean-up run under mempool_mutex and *)
(* are one step each.  The chain's lock is held from the execution of a    *)
(* block to its commit; NodeLocks is about waiting for the two.            *)
(***************************************************************************)
EXTENDS Integers, FiniteSetsExt, Sequences

CONSTANTS
  Wallet,
  Payment,      \* the payments that are ever made
  Nonce,        \* the values an uninitialised nonce may read as
  Grant,        \* what each wallet has in the beginning
  MinFee,       \* MIN_FEE_TO_ENTER_MEMPOOL
  Expiry,       \* TRANSACTION_EXPIRY
  MaxTime,      \* bounds the clock
  MaxBlocks     \* bounds the chain

PaymentAssumption ==
  /\ \A p \in Payment : /\ {p.from, p.to} \subseteq Wallet
                        /\ {p.amount, p.fee, p.time} \subseteq Nat
  /\ {MinFee, Expiry, MaxTime, MaxBlocks} \subseteq Nat
  /\ Grant \in [Wallet -> Nat]
  /\ 0 \in Nonce

VARIABLES
  queue,        \* transactionQueue
  outgoing,     \* mempoolOutgoing; 0 stands for no entry
  expected,     \* walletNonces
  balance,      \* the ledger
  blocks,       \* the chain: what each block paid
  adding,       \* what the block being added pays, between its execution and its commit
  stage,        \* of addBlock: "none", "executed", "finished"
  attached,     \* the chain knows the pool
  unnoticed,    \* payments of blocks that were added before it did
  now,
  reply         \* what was offered last, and the answer

pool  == <<queue, outgoing, expected, reply>>
chain == <<balance, blocks, adding, stage, unnoticed>>
vars  == <<pool, chain, attached, now>>

NoReply == <<>>

Init ==
  /\ queue = {} /\ outgoing = [w \in Wallet |-> 0] /\ expected = [w \in Wallet |-> 0]
  /\ balance = Grant /\ blocks = <<>> /\ adding = {} /\ stage = "none"
  /\ attached = FALSE /\ unnoticed = {} /\ now = 0 /\ reply = NoReply

Cost(p) == p.amount + p.fee

CostOf(ps) == MapThenSumSet(Cost, ps)

From(w, entries) == {e \in entries : e[1].from = w}

InChain == UNION {blocks[i] : i \in DOMAIN blocks}

\* getCurrentTime() - timestamp is unsigned: a time to come is long ago.
Expired(p) == now < p.time \/ now - p.time > Expiry

-----------------------------------------------------------------------------
(***************************************************************************)
(* verifyTransaction's answers to a copy that reads nonce n: what the      *)
(* chain's state decides, a signature that does not verify, a              *)
(* synchronisation under way, or an exception.                             *)
(***************************************************************************)
Verdicts(p, n) ==
  {"IS_SYNCING", "INVALID_SIGNATURE", "THROWN"} \cup
  { IF n # 0 THEN "INVALID_NONCE"                           \* no wallet's nonce ever changes
    ELSE IF p \in InChain THEN "EXPIRED_TRANSACTION"
    ELSE IF balance[p.from] < Cost(p) THEN "BALANCE_TOO_LOW"
    ELSE "SUCCESS" }

\* (Mutant: the nonce the pool expects is not looked at.)
AdmissionAnyNonce(p, n) ==
  IF balance[p.from] < Cost(p) + outgoing[p.from] THEN "BALANCE_TOO_LOW" ELSE "SUCCESS"

\* addTransaction's own checks after verifyTransaction has said SUCCESS.
Admission(p, n) ==
  IF balance[p.from] < Cost(p) + outgoing[p.from] THEN "BALANCE_TOO_LOW"
  ELSE IF n # expected[p.from] THEN "INVALID_NONCE"
  ELSE "SUCCESS"

Refuse(p, status) ==
  /\ reply' = <<p, status>>
  /\ UNCHANGED <<queue, outgoing, expected>>

Admit(p) ==
  /\ reply' = <<p, "SUCCESS">>
  /\ outgoing' = [outgoing EXCEPT ![p.from] = @ + Cost(p)]
  /\ \E n \in Nonce : queue' = queue \cup {<<p, n>>}
  /\ expected' = [expected EXCEPT ![p.from] = @ + 1]

\* (Mutant: verifyTransaction does not wait for the chain's lock.)
AddTransactionUnlocked(p, n) ==
  /\ IF Expired(p) THEN Refuse(p, "EXPIRED_TRANSACTION")
     ELSE IF <<p, n>> \in queue THEN Refuse(p, "ALREADY_IN_QUEUE")
     ELSE IF p.fee < MinFee THEN Refuse(p, "TRANSACTION_FEE_TOO_LOW")
     ELSE \E v \in Verdicts(p, n) :
            LET s == IF v = "SUCCESS" THEN Admission(p, n) ELSE v IN
            IF s = "SUCCESS" THEN Admit(p) ELSE Refuse(p, s)
  /\ UNCHANGED <<chain, attached, now>>

\* A payment arrives as a copy that reads nonce n.
AddTransaction(p, n) ==
  /\ IF Expired(p) THEN Refuse(p, "EXPIRED_TRANSACTION")
     ELSE IF <<p, n>> \in queue THEN Refuse(p, "ALREADY_IN_QUEUE")
     ELSE IF p.fee < MinFee THEN Refuse(p, "TRANSACTION_FEE_TOO_LOW")
     ELSE /\ stage = "none"
          /\ \E v \in Verdicts(p, n) :
               LET s == IF v = "SUCCESS" THEN Admission(p, n) ELSE v IN
               IF s = "SUCCESS" THEN Admit(p) ELSE Refuse(p, s)
  /\ UNCHANGED <<chain, attached, now>>

-----------------------------------------------------------------------------
(***************************************************************************)
(* The chain.  A block pays what its senders have.                         *)
(***************************************************************************)
Paid(ps, w)     == CostOf({p \in ps : p.from = w})
Received(ps, w) == MapThenSumSet(LAMBDA p : p.amount, {p \in ps : p.to = w})

ExecuteBlock(ps) ==
  /\ stage = "none" /\ Len(blocks) < MaxBlocks
  /\ ps \cap InChain = {}
  /\ \A w \in Wallet : Paid(ps, w) <= balance[w]
  /\ balance' = [w \in Wallet |-> balance[w] - Paid(ps, w) + Received(ps, w)]
  /\ adding' = ps /\ stage' = "executed"
  /\ UNCHANGED <<pool, blocks, attached, unnoticed, now>>

\* finishBlock looks the block's copies up by their hash, each with its nonce.
FinishBlock ==
  /\ stage = "executed"
  /\ stage' = "finished"
  /\ IF attached
     THEN \E read \in [adding -> Nonce] :
            LET done == queue \cap {<<p, read[p]>> : p \in adding} IN
            /\ queue' = queue \ done
            /\ outgoing' = [w \in Wallet |->
                 outgoing[w] - MapThenSumSet(LAMBDA e : Cost(e[1]), From(w, done))]
            /\ UNCHANGED unnoticed
     ELSE unnoticed' = unnoticed \cup adding /\ UNCHANGED <<queue, outgoing>>
  /\ UNCHANGED <<expected, reply, balance, blocks, adding, attached, now>>

CommitBlock ==
  /\ stage = "finished"
  /\ blocks' = Append(blocks, adding)
  /\ adding' = {} /\ stage' = "none"
  /\ UNCHANGED <<pool, balance, unnoticed, attached, now>>

\* The payments of a popped block do not come back to the pool.
PopBlock ==
  /\ stage = "none" /\ blocks # <<>>
  /\ LET ps == blocks[Len(blocks)] IN
       /\ balance' = [w \in Wallet |-> balance[w] + Paid(ps, w) - Received(ps, w)]
       /\ unnoticed' = unnoticed \ ps
  /\ blocks' = SubSeq(blocks, 1, Len(blocks) - 1)
  /\ UNCHANGED <<pool, adding, stage, attached, now>>

\* RequestManager loads the pool from other nodes before the chain knows it.
SetMemPool ==
  /\ ~attached /\ attached' = TRUE
  /\ UNCHANGED <<pool, chain, now>>

-----------------------------------------------------------------------------
\* (Mutant: a payment that carries a time to come is kept.)
CleanUpKeepsOld ==
  LET old == {e \in queue : now < e[1].time} IN
  /\ queue' = queue \ old
  /\ outgoing' = [w \in Wallet |->
       outgoing[w] - MapThenSumSet(LAMBDA e : Cost(e[1]), From(w, old))]
  /\ UNCHANGED <<expected, reply, chain, attached, now>>

CleanUp ==
  LET old == {e \in queue : Expired(e[1])} IN
  /\ queue' = queue \ old
  /\ outgoing' = [w \in Wallet |->
       outgoing[w] - MapThenSumSet(LAMBDA e : Cost(e[1]), From(w, old))]
  /\ UNCHANGED <<expected, reply, chain, attached, now>>

Tick ==
  /\ now < MaxTime /\ now' = now + 1
  /\ UNCHANGED <<pool, chain, attached>>

Next ==
  \/ \E p \in Payment, n \in Nonce : AddTransaction(p, n)
  \/ \E ps \in SUBSET Payment : ExecuteBlock(ps)
  \/ FinishBlock \/ CommitBlock \/ PopBlock \/ SetMemPool \/ CleanUp \/ Tick

\* Time passes and the clean-up runs every minute; nobody has to make a payment.
Spec == Init /\ [][Next]_vars /\ WF_vars(Tick) /\ WF_vars(CleanUp)

-----------------------------------------------------------------------------
Statuses ==
  {"SUCCESS", "IS_SYNCING", "INVALID_SIGNATURE", "THROWN", "INVALID_NONCE", "EXPIRED_TRANSACTION",
   "BALANCE_TOO_LOW", "ALREADY_IN_QUEUE", "TRANSACTION_FEE_TOO_LOW"}

\* The pool's and the chain's variables have their types; no balance and no
\* pending amount is negative.
TypeOK ==
  /\ queue \subseteq Payment \X Nonce
  /\ outgoing \in [Wallet -> Nat] /\ expected \in [Wallet -> Nat] /\ balance \in [Wallet -> Nat]
  /\ blocks \in Seq(SUBSET Payment) /\ adding \subseteq Payment
  /\ stage \in {"none", "executed", "finished"} /\ attached \in BOOLEAN
  /\ unnoticed \subseteq Payment /\ now \in 0 .. MaxTime
  /\ reply = NoReply \/ (reply[1] \in Payment /\ reply[2] \in Statuses)

\* mempoolOutgoing is added to by addTransaction and taken from by finishBlock
\* and the clean-up, each by its own rule: it is always the sum over the queue.
OutgoingIsQueued ==
  \A w \in Wallet : outgoing[w] = MapThenSumSet(LAMBDA e : Cost(e[1]), From(w, queue))

\* A payment that is in the chain is not pending - whatever addTransaction,
\* finishBlock and the commit do in between each other - unless its block came
\* before the chain knew the pool.
NothingMinedPending ==
  \A e \in queue : e[1] \in InChain \cup (IF stage = "finished" THEN adding ELSE {}) =>
    e[1] \in unnoticed

\* Every pending payment is mined or dropped in the end: none holds its sender's
\* balance for ever.
QueueDrains == \A p \in Payment, n \in Nonce : <<p, n>> \in queue ~> <<p, n>> \notin queue

=============================================================================
