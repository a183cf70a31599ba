------------------------------ MODULE PeerCalls ------------------------------
(***************************************************************************)
(* Nodes that call each other.  The HTTP server of a node is one thread:   *)
(* while a handler waits for another node, nobody is answered.  /add_peer  *)
(* asks the newcomer for its name and the fresh hosts for their heights,   *)
(* before it tells these of the newcomer; chain_sync asks its peers for    *)
(* their heights, and holds HostManager::lock and BlockChain::lock.  The   *)
(* question for a name and the pings have timeouts, the question for a     *)
(* height (a curl handle with default options) has none.                   *)
(***************************************************************************)
EXTENDS Naturals, FiniteSets

CONSTANTS
  Node,
  Sources,      \* what the nodes may know of each other when they start
  MaxPeers      \* RANDOM_GOOD_HOST_COUNT

CallsAssumption ==
  Sources \subseteq [Node -> SUBSET Node] /\ MaxPeers \in Nat

VARIABLES
  hosts, fresh, currPeers,   \* by node; fresh are the hosts with a recent ping time
  http,                      \* what the HTTP thread of a node does
  asking,                    \* the peers chain_sync has yet to ask, while it holds the locks
  syncing,                   \* it does
  forwarded     \* <<m, n>>: somebody has told m of n

known == <<hosts, fresh, currPeers>>
vars  == <<known, http, asking, syncing, forwarded>>

Idle == [op |-> "idle"]

Doing(n, op) == http[n].op = op
Do(n, what)  == http' = [http EXCEPT ![n] = what]

Init ==
  /\ hosts \in Sources /\ fresh = hosts
  /\ currPeers = [n \in Node |-> {}]
  /\ http = [n \in Node |-> Idle]
  /\ asking = [n \in Node |-> {}] /\ syncing = {} /\ forwarded = {}

(***************************************************************************)
(* The handler of the pings; each node pings its hosts every five minutes. *)
(***************************************************************************)
\* a is one of the nodes that ping n, or n is told of it.
PeerSync(n) == {a \in Node : n \in hosts[a] \/ <<n, a>> \in forwarded}

AddPeer(n, a) ==
  /\ Doing(n, "idle") /\ a \in PeerSync(n)
  /\ forwarded' = forwarded \ {<<n, a>>}
  /\ IF a \in hosts[n]
     THEN fresh' = [fresh EXCEPT ![n] = @ \cup {a}] /\ UNCHANGED http
     ELSE Do(n, [op |-> "name", of |-> a]) /\ UNCHANGED fresh
  /\ UNCHANGED <<hosts, currPeers, asking, syncing>>

\* (Mutant: the name, too, is waited for.)
GetNameForEver(n) ==
  /\ Doing(n, "name")
  /\ LET a == http[n].of IN
       /\ Doing(a, "idle")
       /\ hosts' = [hosts EXCEPT ![n] = @ \cup {a}]
       /\ Do(n, IF Cardinality(currPeers[n]) < MaxPeers
                THEN [op |-> "peers", of |-> a]
                ELSE [op |-> "heights", of |-> a, todo |-> fresh[n]])
  /\ UNCHANGED <<fresh, currPeers, asking, syncing, forwarded>>

GetName(n) ==
  /\ Doing(n, "name")
  /\ LET a == http[n].of IN
     \/ /\ Doing(a, "idle")
        /\ hosts' = [hosts EXCEPT ![n] = @ \cup {a}]
        /\ Do(n, IF Cardinality(currPeers[n]) < MaxPeers
                 THEN [op |-> "peers", of |-> a]
                 ELSE [op |-> "heights", of |-> a, todo |-> fresh[n]])
     \/ Do(n, Idle) /\ UNCHANGED hosts      \* the timeout
  /\ UNCHANGED <<fresh, currPeers, asking, syncing, forwarded>>

\* Under HostManager::lock.
PushPeer(n) ==
  /\ Doing(n, "peers") /\ n \notin syncing
  /\ currPeers' = [currPeers EXCEPT ![n] = @ \cup {http[n].of}]
  /\ Do(n, [op |-> "heights", of |-> http[n].of, todo |-> fresh[n]])
  /\ UNCHANGED <<hosts, fresh, asking, syncing, forwarded>>

GetBlockHeightFromPeer(n) ==
  /\ Doing(n, "heights")
  /\ \E m \in http[n].todo :
       /\ Doing(m, "idle")
       /\ http' = [http EXCEPT ![n].todo = @ \ {m}]
  /\ UNCHANGED <<known, asking, syncing, forwarded>>

ForwardPeer(n) ==
  /\ Doing(n, "heights") /\ http[n].todo = {}
  /\ forwarded' = forwarded \cup {<<m, http[n].of>> : m \in fresh[n] \ {http[n].of}}
  /\ Do(n, Idle)
  /\ UNCHANGED <<known, asking, syncing>>

(***************************************************************************)
(* chain_sync up to the end of getGoodHost, and a request that takes       *)
(* BlockChain::lock                                                        *)
(***************************************************************************)
StartChainSync(n) ==
  /\ n \notin syncing /\ currPeers[n] # {}
  /\ syncing' = syncing \cup {n}
  /\ asking' = [asking EXCEPT ![n] = currPeers[n]]
  /\ UNCHANGED <<known, http, forwarded>>

GetGoodHost(n) ==
  /\ n \in syncing
  /\ \E m \in asking[n] : Doing(m, "idle") /\ asking' = [asking EXCEPT ![n] = @ \ {m}]
  /\ UNCHANGED <<known, http, syncing, forwarded>>

Unlock(n) ==
  /\ n \in syncing /\ asking[n] = {}
  /\ syncing' = syncing \ {n}
  /\ UNCHANGED <<known, http, asking, forwarded>>

GetSupply(n) ==
  /\ \/ Doing(n, "idle") /\ Do(n, [op |-> "supply"])
     \/ Doing(n, "supply") /\ n \notin syncing /\ Do(n, Idle)
  /\ UNCHANGED <<known, asking, syncing, forwarded>>

-----------------------------------------------------------------------------
Handler(n) ==
  \/ GetName(n) \/ PushPeer(n) \/ GetBlockHeightFromPeer(n) \/ ForwardPeer(n)
  \/ Doing(n, "supply") /\ GetSupply(n)

Syncer(n) == GetGoodHost(n) \/ Unlock(n)

Next ==
  \E n \in Node :
    \/ \E m \in Node : AddPeer(n, m)
    \/ Handler(n) \/ Syncer(n) \/ StartChainSync(n) \/ GetSupply(n)

\* A handler and a synchronisation that can go on do, and a node that is free
\* again and again answers in the end: its requests wait in a queue.
Spec == Init /\ [][Next]_vars /\ \A n \in Node : SF_vars(Handler(n)) /\ SF_vars(Syncer(n))

-----------------------------------------------------------------------------
\* Nodes know nodes, and a handler is at one of its calls.
TypeOK ==
  /\ {hosts, fresh, currPeers, asking} \subseteq [Node -> SUBSET Node]
  /\ \A n \in Node : /\ fresh[n] \subseteq hosts[n] /\ currPeers[n] \subseteq hosts[n]
                     /\ http[n].op \in {"idle", "name", "peers", "heights", "supply"}
                     /\ Cardinality(currPeers[n]) <= MaxPeers
  /\ syncing \subseteq Node /\ forwarded \subseteq Node \X Node

\* What the HTTP thread and chain_sync of a node wait for without a timeout.
WaitsFor(w) ==
  LET n == w[2] IN
  IF w[1] = "sync" THEN IF n \in syncing THEN {<<"http", m>> : m \in asking[n]} ELSE {}
  ELSE CASE http[n].op = "heights" -> {<<"http", m>> : m \in http[n].todo}
         [] http[n].op \in {"peers", "supply"} -> IF n \in syncing THEN {<<"sync", n>>} ELSE {}
         [] OTHER -> {}

Deadlock ==
  \E S \in SUBSET ({"http", "sync"} \X Node) \ {{}} : \A w \in S : WaitsFor(w) \cap S # {}

\* A handler ends and a synchronisation lets its locks go - unless threads, of
\* one node or of several, wait for each other in a circle.
OnlyCirclesBlock ==
  \A n \in Node : /\ ~Doing(n, "idle") ~> Doing(n, "idle") \/ Deadlock
                  /\ n \in syncing ~> n \notin syncing \/ Deadlock

=============================================================================
