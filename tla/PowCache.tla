------------------------------- MODULE PowCache -------------------------------
(***************************************************************************)
(* Block::verifyNonce and the cache of Pufferfish hashes under it, which   *)
(* the header chains' threads, chain_sync and the HTTP thread share, and   *)
(* which outlives the process.  The hash of a target and a nonce is the    *)
(* pair of them.                                                           *)
(*                                                                         *)
(* The key of the cache is the first 32 bytes of what is hashed: the       *)
(* target, whatever the nonce.                                             *)
(***************************************************************************)
EXTENDS Naturals

CONSTANTS
  Thread,
  Target,      \* the hashes of blocks
  Nonce,
  Solves,      \* the pairs whose hash has the leading zeros asked for
  NoHash

VARIABLES
  cache,       \* PufferfishCache: a hash by target
  pc, target, nonce, verdict,  \* by thread
  asked        \* the nonces that verifyNonce has been asked about, by target

vars == <<cache, pc, target, nonce, verdict, asked>>

checkLeadingZeroBits(hash) == hash \in Solves

Init ==
  /\ cache = [t \in Target |-> NoHash]
  /\ pc = [x \in Thread |-> "idle"]
  /\ target \in [Thread -> Target] /\ nonce \in [Thread -> Nonce]
  /\ verdict = [x \in Thread |-> "none"]
  /\ asked = [t \in Target |-> {}]

Return(x, hash) ==
  /\ verdict' = [verdict EXCEPT ![x] = IF checkLeadingZeroBits(hash) THEN "valid" ELSE "invalid"]
  /\ pc' = [pc EXCEPT ![x] = "idle"]

VerifyNonce(x, t, n) ==
  /\ pc[x] = "idle"
  /\ pc' = [pc EXCEPT ![x] = "lookup"]
  /\ target' = [target EXCEPT ![x] = t] /\ nonce' = [nonce EXCEPT ![x] = n]
  /\ verdict' = [verdict EXCEPT ![x] = "none"]
  /\ asked' = [asked EXCEPT ![t] = @ \cup {n}]
  /\ UNCHANGED cache

\* (Mutant: a hash that is cached answers for every target.)
LookupAny(x) ==
  /\ pc[x] = "lookup"
  /\ IF \A t \in Target : cache[t] = NoHash
     THEN pc' = [pc EXCEPT ![x] = "compute"] /\ UNCHANGED verdict
     ELSE \E t \in Target : cache[t] # NoHash /\ Return(x, cache[t])
  /\ UNCHANGED <<cache, target, nonce, asked>>

\* Under pufferfishCacheLock.
Lookup(x) ==
  /\ pc[x] = "lookup"
  /\ IF cache[target[x]] = NoHash
     THEN pc' = [pc EXCEPT ![x] = "compute"] /\ UNCHANGED verdict
     ELSE Return(x, cache[target[x]])
  /\ UNCHANGED <<cache, target, nonce, asked>>

\* The lock has been dropped for the computation, and is taken again.
Store(x) ==
  /\ pc[x] = "compute"
  /\ cache' = [cache EXCEPT ![target[x]] = <<target[x], nonce[x]>>]
  /\ Return(x, <<target[x], nonce[x]>>)
  /\ UNCHANGED <<target, nonce, asked>>

\* The process ends; the cache is on disk.
Restart ==
  /\ pc' = [x \in Thread |-> "idle"]
  /\ verdict' = [x \in Thread |-> "none"]
  /\ UNCHANGED <<cache, target, nonce, asked>>

Next ==
  \/ \E x \in Thread : \E t \in Target : \E n \in Nonce : VerifyNonce(x, t, n)
  \/ \E x \in Thread : Lookup(x) \/ Store(x)
  \/ Restart

Spec == Init /\ [][Next]_vars

-----------------------------------------------------------------------------
\* The cache holds hashes, and each thread is between two of its steps.
TypeOK ==
  /\ \A t \in Target : cache[t] = NoHash \/ cache[t] \in Target \X Nonce
  /\ \A x \in Thread : pc[x] \in {"idle", "lookup", "compute"} /\ verdict[x] \in {"none", "valid", "invalid"}

\* verifyNonce may answer for another nonce than the one it is asked about, for
\* the cache does not know nonces apart: but the one it answers for has been
\* tried on this very block, whichever thread, and whichever run, tried it.  A
\* block that is only ever seen with one nonce is judged by it.
VerdictOfAsked ==
  \A x \in Thread :
    verdict[x] # "none" =>
      \E n \in asked[target[x]] : (verdict[x] = "valid") = (<<target[x], n>> \in Solves)

=============================================================================
