------------------------------- MODULE Network -------------------------------
(***************************************************************************)
(* What a node does with others: the headers it downloads of a peer, the   *)
(* synchronisation of its chain, the hosts it knows, with sources and      *)
(* without, and the calls nodes make to each other.  As in Node, "part" is *)
(* the one that runs, and what holds of each part is stated here of all.   *)
(***************************************************************************)
EXTENDS Integers, Sequences

CONSTANTS
  \* HeaderChain
  Header, NullHash, HeaderPrev, HeaderWork, Id, GoodNonce, checkPoints, bannedHashes,
  HeaderBatch, HeaderChains, MaxAnswer,
  \* ChainSync
  Block, Genesis, Work, Peer, NoHost, Chains, PopCount, MaxRetries,
  \* HostManager with sources, and without them but with a whitelist
  Host, Localhost, blacklist, Offset, MaxPeers, Freshness, MaxTime,
  ListedHost, whitelist, ListedFreshness, ListedTime,
  \* PeerCalls
  Node, Sources, MaxFollowed

VARIABLES
  part,
  \* HeaderChain
  blockHashes, chainLength, totalWork, failed, assigned, store, tried, loadPc,
  loadTarget, loadI, answer, loadSettled, peer,
  \* ChainSync
  chain, headers, lock, pc, bestHost, target, left, i, retries, has, settled,
  \* HostManager
  hosts, hostPingTimes, peerClockDeltas, currPeers, started, now,
  \* PeerCalls
  nodeHosts, fresh, nodePeers, http, asking, syncing, forwarded

-----------------------------------------------------------------------------
Headers == INSTANCE HeaderChain WITH
  Prev <- HeaderPrev, Work <- HeaderWork, Batch <- HeaderBatch, Chains <- HeaderChains,
  pc <- loadPc, target <- loadTarget, i <- loadI, settled <- loadSettled

Sync == INSTANCE ChainSync

Hosts == INSTANCE HostManager WITH HasSources <- TRUE, whitelist <- {}

Listed == INSTANCE HostManager WITH
  HasSources <- FALSE, Host <- ListedHost, Freshness <- ListedFreshness, MaxTime <- ListedTime

Calls == INSTANCE PeerCalls WITH
  MaxPeers <- MaxFollowed, hosts <- nodeHosts, currPeers <- nodePeers

ASSUME NetworkAssumption ==
  /\ Headers!HeaderAssumption /\ Sync!SyncAssumption
  /\ Hosts!HostsAssumption /\ Listed!HostsAssumption
  /\ Calls!CallsAssumption

-----------------------------------------------------------------------------
headersVars == <<blockHashes, chainLength, totalWork, failed, assigned, store, tried, loadPc,
                 loadTarget, loadI, answer, loadSettled, peer>>
syncVars    == <<chain, headers, lock, pc, bestHost, target, left, i, retries, has, settled>>
hostsVars   == <<hosts, hostPingTimes, peerClockDeltas, currPeers, started, now>>
callsVars   == <<nodeHosts, fresh, nodePeers, http, asking, syncing, forwarded>>

vars == <<part, headersVars, syncVars, hostsVars, callsVars>>

Init ==
  /\ part \in {"headers", "sync", "hosts", "listed", "calls"}
  /\ Headers!Init /\ Sync!Init /\ Calls!Init
  /\ IF part = "hosts" THEN Hosts!Init ELSE Listed!Init

Next ==
  /\ UNCHANGED part
  /\ \/ part = "headers" /\ Headers!Next /\ UNCHANGED <<syncVars, hostsVars, callsVars>>
     \/ part = "sync"    /\ Sync!Next    /\ UNCHANGED <<headersVars, hostsVars, callsVars>>
     \/ part = "hosts"   /\ Hosts!Next   /\ UNCHANGED <<headersVars, syncVars, callsVars>>
     \/ part = "listed"  /\ Listed!Next  /\ UNCHANGED <<headersVars, syncVars, callsVars>>
     \/ part = "calls"   /\ Calls!Next   /\ UNCHANGED <<headersVars, syncVars, hostsVars>>

\* The fairness of HeaderChain, ChainSync and PeerCalls, for the part that runs.
Fairness ==
  /\ WF_headersVars(part = "headers" /\ Headers!Load)
  /\ WF_headersVars(part = "headers" /\ Headers!Construct)
  /\ WF_syncVars(part = "sync" /\ Sync!Sync)
  /\ \A n \in Node : /\ SF_callsVars(part = "calls" /\ Calls!Handler(n))
                     /\ SF_callsVars(part = "calls" /\ Calls!Syncer(n))

Spec == Init /\ [][Next]_vars /\ Fairness

-----------------------------------------------------------------------------
\* HeaderChain::load holds one chain of headers, whatever its peer answers.
Linked == Headers!Linked

\* A reader never sees a longer or heavier header chain than there is, nor,
\* between batches, a shorter or lighter one.
NeverOverstated == Headers!NeverOverstated

\* The headers become those of a peer that has settled on a longer chain.
FollowsPeer == part = "headers" => Headers!FollowsPeer

\* chain_sync goes back to where its chain parts from a higher one of more work.
ComesToFork == part = "sync" => Sync!ComesToFork


\* The peers HostManager follows are wanted ones, each once, and not too many.
PeersVetted == IF part = "hosts" THEN Hosts!PeersVetted ELSE Listed!PeersVetted

\* The network's time is as near the node's own as most of the clocks that count.
MajorityMirrored == part = "listed" \/ Hosts!MajorityMirrored

\* A call of one node to another ends, or there is a circle of such calls.
OnlyCirclesBlock == part = "calls" => Calls!OnlyCirclesBlock

=============================================================================
