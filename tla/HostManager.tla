----------------------------- MODULE HostManager -----------------------------
(***************************************************************************)
(* HostManager of src/src/core: the hosts a node knows, when each of them  *)
(* pinged it last, how far their clocks were off then, and the peers it    *)
(* downloads headers from.  Waiting for one another is module PeerCalls'.  *)
(***************************************************************************)
EXTENDS Integers, SequencesExt

CONSTANTS
  Host, Localhost,
  HasSources,            \* the configuration names host sources
  blacklist, whitelist,  \* whitelist is empty when every host is welcome
  Offset,                \* by how much a host's clock may be ahead of the node's
  Freshness,             \* HOST_MIN_FRESHNESS
  MaxPeers,              \* RANDOM_GOOD_HOST_COUNT
  MaxTime                \* bounds the clock

HostsAssumption ==
  /\ Localhost \in Host /\ blacklist \subseteq Host /\ whitelist \subseteq Host
  /\ Offset \subseteq Int /\ {Freshness, MaxPeers, MaxTime} \subseteq Nat /\ MaxPeers > 0

VARIABLES
  hosts,
  hostPingTimes, peerClockDeltas,   \* by host, for the hosts that have one
  currPeers,
  started,                          \* the server has called syncHeadersWithPeers
  now

vars == <<hosts, hostPingTimes, peerClockDeltas, currPeers, started, now>>

Welcome(h) == h \notin blacklist /\ (whitelist = {} \/ h \in whitelist)

\* What the sources list, and can be reached.
RefreshHostList == SUBSET {h \in Host : Welcome(h)}

Init ==
  /\ hosts \in IF HasSources THEN RefreshHostList ELSE {{Localhost}}
  /\ hostPingTimes = [h \in hosts |-> 0]
  /\ peerClockDeltas = [h \in IF HasSources THEN {} ELSE {Localhost} |-> 0]
  /\ currPeers = <<>> /\ started = FALSE /\ now = 0

(***************************************************************************)
(* Queries                                                                 *)
(***************************************************************************)
Fresh == {h \in DOMAIN hostPingTimes : now - hostPingTimes[h] < Freshness}

Half(n) == IF n >= 0 THEN n \div 2 ELSE -((-n) \div 2)

\* (Mutant: the two in the middle are counted from zero and not from one.)
ClockMedianUpper(ds) ==
  LET m == Len(ds) \div 2
  IN IF Len(ds) % 2 = 0 THEN Half(ds[m] + ds[IF m > 1 THEN m - 1 ELSE m]) ELSE ds[m + 1]

\* The middle one, or the mean of the two in the middle, in 32 bits.
ClockMedian(ds) ==
  LET m == Len(ds) \div 2
  IN IF Len(ds) % 2 = 0 THEN Half(ds[m + 1] + ds[m]) ELSE ds[m + 1]

\* The clocks of some hosts in their order: the nth is one that fewer than n of
\* them are below, and n are not above.
SortedDeltas(of) ==
  [n \in 1 .. Cardinality(of) |->
    CHOOSE d \in {peerClockDeltas[h] : h \in of} :
      /\ Cardinality({h \in of : peerClockDeltas[h] < d}) < n
      /\ n <= Cardinality({h \in of : peerClockDeltas[h] <= d})]

NetworkTimestamp ==
  LET of == Fresh \cap DOMAIN peerClockDeltas
  IN IF of = {} THEN now ELSE now + ClockMedian(SortedDeltas(of))

\* The highest of the hosts that answer; which those are is not the node's choice.
SampleFreshHosts(n) == {S \in SUBSET Fresh : Cardinality(S) <= n}

-----------------------------------------------------------------------------
SyncHeadersWithPeers ==
  /\ ~started /\ started' = TRUE
  /\ currPeers' \in IF currPeers = <<>> THEN {<<>>}
                    ELSE {SetToSeq(S) : S \in SampleFreshHosts(MaxPeers)}
  /\ UNCHANGED <<hosts, hostPingTimes, peerClockDeltas, now>>

Put(f, k, v) == [x \in DOMAIN f \cup {k} |-> IF x = k THEN v ELSE f[x]]

\* A ping from a node of this network whose version is not too old, with the
\* time of a clock that is ahead by c; what is kept is the node's time less that.
PingOfKnownHost(h, c) ==
  /\ started /\ h \notin blacklist /\ h \in hosts
  /\ hostPingTimes' = Put(hostPingTimes, h, now)
  /\ peerClockDeltas' = Put(peerClockDeltas, h, now - (now + c))
  /\ UNCHANGED <<hosts, currPeers, started, now>>

\* (Mutant: a host that is known may be added again.)
AddPeerAgain(h) ==
  /\ started /\ Welcome(h)
  /\ hosts' = hosts \cup {h}
  /\ currPeers' = IF Len(currPeers) < MaxPeers THEN Append(currPeers, h) ELSE currPeers
  /\ UNCHANGED <<hostPingTimes, peerClockDeltas, started, now>>

AddPeer(h) ==
  /\ started /\ h \notin hosts
  /\ Welcome(h)
  /\ hosts' = hosts \cup {h}
  /\ currPeers' = IF Len(currPeers) < MaxPeers THEN Append(currPeers, h) ELSE currPeers
  /\ UNCHANGED <<hostPingTimes, peerClockDeltas, started, now>>

Tick ==
  /\ now < MaxTime /\ now' = now + 1
  /\ UNCHANGED <<hosts, hostPingTimes, peerClockDeltas, currPeers, started>>

Next ==
  \/ SyncHeadersWithPeers
  \/ \E h \in Host, c \in Offset : PingOfKnownHost(h, c)
  \/ \E h \in Host : AddPeer(h)
  \/ Tick

Spec == Init /\ [][Next]_vars

-----------------------------------------------------------------------------
\* The hosts, the two maps and the peers are about hosts.
TypeOK ==
  /\ hosts \subseteq Host
  /\ DOMAIN hostPingTimes \subseteq hosts /\ DOMAIN peerClockDeltas \subseteq DOMAIN hostPingTimes
  /\ \A h \in DOMAIN hostPingTimes : hostPingTimes[h] \in 0 .. now
  /\ \A h \in DOMAIN peerClockDeltas : -peerClockDeltas[h] \in Offset \cup {0}
  /\ currPeers \in Seq(Host) /\ started \in BOOLEAN /\ now \in 0 .. MaxTime

\* However hosts come in - from the sources, by a ping, by one that a peer has
\* forwarded - no peer is followed twice, none that is not wanted, none too many.
PeersVetted ==
  /\ Len(currPeers) <= MaxPeers /\ IsInjective(currPeers)
  /\ \A n \in DOMAIN currPeers :
        /\ currPeers[n] \in hosts \ blacklist
        /\ whitelist # {} => currPeers[n] \in whitelist

\* What a host's clock shows, if it has gone on as it was when it pinged.
Clock(h) == now - peerClockDeltas[h]

\* The time that decides whether a block is from the future.  The median is of
\* the node's own time less the clocks', and is added to its own time: so it is
\* the clocks' mirror image at the node's own clock.  Where most clocks are
\* within some seconds of that, so is the network's time, on the other side of
\* it; the wrong clocks do not move it out of the mirrored range of the others
\* while they are fewer, and a host that has gone silent has no say.
MajorityMirrored ==
  LET voting == {h \in DOMAIN peerClockDeltas : now - hostPingTimes[h] < Freshness}
      within(lo, hi) == {h \in voting : now + lo <= Clock(h) /\ Clock(h) <= now + hi}
  IN \A lo, hi \in Offset :
       2 * Cardinality(within(lo, hi)) > Cardinality(voting) =>
         now - hi <= NetworkTimestamp /\ NetworkTimestamp <= now - lo

=============================================================================
