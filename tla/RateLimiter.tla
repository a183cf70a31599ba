----------------------------- MODULE RateLimiter -----------------------------
(***************************************************************************)
(* RateLimiter::limit: for every address a point in time, which a request  *)
(* that is accepted moves on by "add".  Time is in whole seconds, as "add" *)
(* is: a number of seconds divided by N.                                   *)
(***************************************************************************)
EXTENDS Integers, Sequences, FiniteSets

CONSTANTS
  Ip,
  N, seconds,   \* N requests over so many seconds
  MaxIps,       \* 100000
  MaxTime       \* bounds the clock

LimiterAssumption ==
  /\ N \in Nat \ {0} /\ seconds \in Nat
  /\ MaxIps \in Nat /\ MaxTime \in Nat

VARIABLES
  known,        \* the addresses that have an entry
  c,            \* the entries
  accepted,     \* when each address was accepted since it has its entry
  now

vars == <<known, c, accepted, now>>

add == seconds \div N
Later(t, u) == IF t > u THEN t ELSE u

Init ==
  /\ known = {}
  /\ c = [ip \in Ip |-> 0]
  /\ accepted = [ip \in Ip |-> <<>>]
  /\ now = 0

\* An address without an entry gets one.  When there are too many, any of
\* them are forgotten, the new one too.
Enter(ip) ==
  /\ ip \notin known
  /\ LET all == known \cup {ip}
     IN \E kept \in SUBSET all :
          /\ Cardinality(all) <= MaxIps => kept = all
          /\ known' = kept
          /\ c' = [c EXCEPT ![ip] = now - seconds + add]
          /\ accepted' = [x \in Ip |-> IF x \notin kept THEN <<>>
                                       ELSE IF x = ip THEN <<now>> ELSE accepted[x]]
  /\ UNCHANGED now

\* (Mutant: time without requests is saved up.)
AcceptSavesUp(ip) ==
  /\ ip \in known /\ c[ip] <= now
  /\ c' = [c EXCEPT ![ip] = @ + add]
  /\ accepted' = [accepted EXCEPT ![ip] = Append(@, now)]
  /\ UNCHANGED <<known, now>>

Accept(ip) ==
  /\ ip \in known /\ c[ip] <= now
  /\ c' = [c EXCEPT ![ip] = Later(now - seconds, @) + add]
  /\ accepted' = [accepted EXCEPT ![ip] = Append(@, now)]
  /\ UNCHANGED <<known, now>>

\* (Mutant: a request that is refused counts too.)
RefuseCounts(ip) ==
  /\ ip \in known /\ c[ip] > now
  /\ c' = [c EXCEPT ![ip] = @ + add]
  /\ UNCHANGED <<known, accepted, now>>

Refuse(ip) ==
  /\ ip \in known /\ c[ip] > now
  /\ UNCHANGED vars

limit(ip) == Enter(ip) \/ Accept(ip) \/ Refuse(ip)

Tick == now < MaxTime /\ now' = now + 1 /\ UNCHANGED <<known, c, accepted>>

Next == (\E ip \in Ip : limit(ip)) \/ Tick

Spec == Init /\ [][Next]_vars

-----------------------------------------------------------------------------
\* Entries and times are whole seconds, the clock stays within its bound.
TypeOK ==
  /\ known \in SUBSET Ip
  /\ c \in [Ip -> Int]
  /\ accepted \in [Ip -> Seq(0 .. MaxTime)]
  /\ now \in 0 .. MaxTime

\* What limit allows: from any request of an address that is accepted to the
\* n-th after it, at least n times "add" less "seconds" pass.  A burst is thus
\* one request longer than seconds/add, and any period of "seconds" sees at
\* most twice that and one.
Paced ==
  \A ip \in Ip : \A i \in DOMAIN accepted[ip] : \A j \in DOMAIN accepted[ip] :
    i < j => (j - i) * add <= accepted[ip][j] - accepted[ip][i] + seconds

\* limit refuses nobody for longer than "add": a request that is refused moves
\* nothing, however often the client tries.
RefusedBriefly == \A ip \in known : c[ip] <= now + add

=============================================================================
