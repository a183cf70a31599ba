----------------------------- MODULE HeaderChain -----------------------------
(***************************************************************************)
(* HeaderChain of src/src/core: a thread of its own downloads the headers  *)
(* of one peer every ten seconds; HostManager, under a lock this thread    *)
(* does not take, reads what it has.  So each write a reader can see is a  *)
(* step.  A header stands for its hash.                                    *)
(***************************************************************************)
EXTENDS Integers, Sequences

CONSTANTS
  Header,
  NullHash,     \* NULL_SHA256_HASH
  Prev,         \* the hash a header names as the last one
  Id,           \* its block number
  Work,         \* the work its difficulty stands for
  GoodNonce,    \* the headers verifyNonce accepts
  checkPoints, bannedHashes,   \* by block number
  Batch,        \* BLOCK_HEADERS_PER_FETCH
  MaxAnswer,    \* bounds the headers that a peer answers with, asked for or not
  Chains        \* the chains that a peer, or the node, may have

\* Headers that the checks accept, each naming the one before.
IsChain(hs) ==
  \A n \in 1 .. Len(hs) :
    /\ hs[n] \in GoodNonce
    /\ Prev[hs[n]] = IF n = 1 THEN NullHash ELSE hs[n - 1]

HeaderAssumption ==
  /\ Prev \in [Header -> Header \cup {NullHash}] /\ NullHash \notin Header
  /\ Id \in [Header -> Nat] /\ Work \in [Header -> Nat \ {0}]
  /\ GoodNonce \subseteq Header
  /\ Batch \in Nat \ {0} /\ MaxAnswer \in Nat
  /\ Chains \subseteq Seq(Header) /\ \A c \in Chains : IsChain(c)

VARIABLES
  blockHashes, chainLength, totalWork, failed,
  assigned,     \* the constructor has assigned checkPoints and bannedHashes
  store,        \* the node's own chain; empty when there is no block store
  tried,        \* triedBlockStoreCache
  pc,           \* where the thread is
  target, i,    \* load's targetBlockCount and i
  answer,       \* what is left of the batch it received
  settled,      \* from now on the peer answers, and its chain stays as it is
  peer          \* the peer's chain, then

seen   == <<blockHashes, chainLength, totalWork, failed>>
locals == <<target, i, answer>>
world  == <<settled, peer, store>>
vars   == <<seen, assigned, tried, pc, locals, world>>

LastHash == IF blockHashes = <<>> THEN NullHash ELSE blockHashes[Len(blockHashes)]

Init ==
  /\ blockHashes = <<>> /\ chainLength = 0 /\ totalWork = 0 /\ failed = FALSE
  /\ assigned = FALSE /\ tried = FALSE /\ pc = "start"
  /\ store \in Chains
  /\ target = 0 /\ i = 0 /\ answer = <<>>
  /\ settled = FALSE /\ peer = <<>>

\* The thread runs before the constructor has assigned the checkpoints.
Construct ==
  /\ ~assigned /\ assigned' = TRUE
  /\ UNCHANGED <<seen, tried, pc, locals, world>>

Goto(l) == pc' = l

(***************************************************************************)
(* The first time, the hashes of the node's own blocks.                    *)
(***************************************************************************)
WorkOf(hs) ==
  LET sum[n \in 0 .. Len(hs)] == IF n = 0 THEN 0 ELSE sum[n - 1] + Work[hs[n]]
  IN sum[Len(hs)]

CopyStore ==
  /\ pc = "start" /\ ~tried /\ store # <<>>
  /\ IF Len(blockHashes) < Len(store)
     THEN /\ blockHashes' = Append(blockHashes, store[Len(blockHashes) + 1])
          /\ UNCHANGED <<pc, tried, totalWork, chainLength>>
     ELSE /\ totalWork' = WorkOf(store) /\ chainLength' = Len(store)
          /\ tried' = TRUE
          /\ Goto("load")
          /\ UNCHANGED blockHashes
  /\ UNCHANGED <<failed, assigned, locals, world>>

Start ==
  /\ pc = "start" /\ (tried \/ store = <<>>)
  /\ Goto("load")
  /\ UNCHANGED <<seen, assigned, tried, locals, world>>

(***************************************************************************)
(* load                                                                    *)
(***************************************************************************)
Counts == IF settled THEN {Len(peer)} ELSE {0, Len(blockHashes) + 1, Len(blockHashes) + Batch + 1}

GetCurrentBlockCount ==
  /\ pc = "load"
  /\ \/ /\ target' \in Counts /\ i' = Len(blockHashes) + 1
        /\ Goto("fetch")
        /\ UNCHANGED failed
     \/ /\ ~settled /\ failed' = TRUE            \* no answer
        /\ Goto("start")
        /\ UNCHANGED <<target, i>>
  /\ UNCHANGED <<blockHashes, chainLength, totalWork, assigned, tried, answer, world>>

\* Until it has settled the peer may answer with anything, and with more than it
\* was asked for: readRawHeaders takes what there is.
Least(m, n) == IF m < n THEN m ELSE n

Answers ==
  IF settled THEN {SubSeq(peer, i, Least(Len(peer), Least(target, i + Batch - 1)))}
             ELSE UNION {[1 .. n -> Header] : n \in 0 .. MaxAnswer}

ReadRawHeaders ==
  /\ pc = "fetch" /\ i <= target
  /\ \/ answer' \in Answers /\ Goto("headers")
     \/ ~settled /\ Goto("failed") /\ UNCHANGED answer
  /\ UNCHANGED <<seen, assigned, tried, target, i, world>>

\* (Mutant: the link to the last header is looked at in the first batch only.)
RefusedUnlinked(h) ==
  \/ /\ assigned
     /\ \/ Id[h] \in DOMAIN bannedHashes /\ h = bannedHashes[Id[h]]
        \/ Id[h] \in DOMAIN checkPoints /\ h # checkPoints[Id[h]]
  \/ h \notin GoodNonce
  \/ i <= Batch /\ Prev[h] # LastHash

\* A check that fails; before the constructor is done there may be nothing to check.
Refused(h) ==
  \/ /\ assigned
     /\ \/ Id[h] \in DOMAIN bannedHashes /\ h = bannedHashes[Id[h]]
        \/ Id[h] \in DOMAIN checkPoints /\ h # checkPoints[Id[h]]
  \/ h \notin GoodNonce
  \/ Prev[h] # LastHash

PushHash ==
  /\ pc = "headers" /\ answer # <<>>
  /\ LET h == Head(answer) IN
       IF Refused(h)
       THEN Goto("failed") /\ UNCHANGED blockHashes
       ELSE blockHashes' = Append(blockHashes, h) /\ Goto("length")
  /\ UNCHANGED <<chainLength, totalWork, failed, assigned, tried, locals, world>>

\* (Mutant: the length is the one that will be reached.)
SetLengthAhead ==
  /\ pc = "length"
  /\ chainLength' = Len(blockHashes) + Len(answer) - 1
  /\ Goto("work")
  /\ UNCHANGED <<blockHashes, totalWork, failed, assigned, tried, locals, world>>

SetLength ==
  /\ pc = "length"
  /\ chainLength' = Len(blockHashes)
  /\ Goto("work")
  /\ UNCHANGED <<blockHashes, totalWork, failed, assigned, tried, locals, world>>

SetWork ==
  /\ pc = "work"
  /\ totalWork' = totalWork + Work[LastHash]
  /\ answer' = Tail(answer)
  /\ Goto("headers")
  /\ UNCHANGED <<blockHashes, chainLength, failed, assigned, tried, target, i, world>>

\* However many headers came, the next batch is the one after.
NextBatch ==
  /\ pc = "headers" /\ answer = <<>>
  /\ i' = i + Batch
  /\ Goto("fetch")
  /\ UNCHANGED <<seen, assigned, tried, target, answer, world>>

LoadEnds ==
  /\ pc = "fetch" /\ i > target
  /\ failed' = FALSE
  /\ Goto("start")
  /\ UNCHANGED <<blockHashes, chainLength, totalWork, assigned, tried, locals, world>>

\* (Mutant: reset leaves the hashes.)
ResetKeepsHashes ==
  /\ pc = "failed"
  /\ failed' = FALSE /\ chainLength' = 0 /\ totalWork' = 0
  /\ Goto("start")
  /\ UNCHANGED <<blockHashes, assigned, tried, locals, world>>

\* failed is set and reset clears it; then it clears the rest in this order.
Reset ==
  \/ /\ pc = "failed"
     /\ failed' = FALSE /\ totalWork' = 0
     /\ Goto("reset length")
     /\ UNCHANGED <<blockHashes, chainLength, assigned, tried, locals, world>>
  \/ /\ pc = "reset length"
     /\ chainLength' = 0
     /\ Goto("reset hashes")
     /\ UNCHANGED <<blockHashes, totalWork, failed, assigned, tried, locals, world>>
  \/ /\ pc = "reset hashes"
     /\ blockHashes' = <<>>
     /\ Goto("start")
     /\ UNCHANGED <<chainLength, totalWork, failed, assigned, tried, locals, world>>

\* A peer whose chain the checks accept settles.
Acceptable(chain) ==
  \A n \in 1 .. Len(chain) :
    LET h == chain[n] IN
    /\ h \in GoodNonce /\ Id[h] = n
    /\ Prev[h] = IF n = 1 THEN NullHash ELSE chain[n - 1]
    /\ n \in DOMAIN checkPoints => h = checkPoints[n]
    /\ n \in DOMAIN bannedHashes => h # bannedHashes[n]

Settle ==
  /\ ~settled /\ settled' = TRUE
  /\ peer' \in {c \in Chains : Acceptable(c)}
  /\ UNCHANGED <<seen, assigned, tried, pc, locals, store>>

Load ==
  \/ CopyStore \/ Start \/ GetCurrentBlockCount \/ ReadRawHeaders
  \/ PushHash \/ SetLength \/ SetWork \/ NextBatch \/ LoadEnds \/ Reset

Next == Construct \/ Load \/ Settle

\* The thread and the constructor run on; nobody has to settle.
Spec == Init /\ [][Next]_vars /\ WF_vars(Load) /\ WF_vars(Construct)

-----------------------------------------------------------------------------
Labels == {"start", "load", "fetch", "headers", "length", "work",
           "failed", "reset length", "reset hashes"}

\* The lists hold headers, the counters are counters, the thread is somewhere.
TypeOK ==
  /\ blockHashes \in Seq(Header) /\ answer \in Seq(Header)
  /\ {chainLength, totalWork, target, i} \subseteq Nat
  /\ {failed, assigned, tried, settled} \subseteq BOOLEAN
  /\ pc \in Labels /\ peer \in Chains /\ store \in Chains

\* Whatever the peer answers, and however batches, failures and the copy of the
\* node's own chain follow each other, the hashes held are one chain from the
\* first block on.
Linked == IsChain(blockHashes)

\* A reader that comes between two writes never sees a length beyond the hashes
\* or more work than they stand for: load and reset write in opposite orders.
\* Between batches the three agree, however the one before ended.
NeverOverstated ==
  /\ chainLength <= Len(blockHashes)
  /\ totalWork <= WorkOf(blockHashes)
  /\ pc \in {"load", "fetch"} =>
       chainLength = Len(blockHashes) /\ totalWork = WorkOf(blockHashes)

\* Once its peer has settled on a chain that is longer, the headers become the
\* peer's, from whatever the thread had before: a batch that does not link on
\* makes it start over.
FollowsPeer ==
  settled /\ pc = "load" /\ Len(blockHashes) < Len(peer) ~> settled /\ blockHashes = peer

=============================================================================
