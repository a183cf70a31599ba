------------------------------ MODULE HttpServer ------------------------------
(***************************************************************************)
(* The handlers of server.cpp, which run one at a time on the event loop   *)
(* while chain_sync adds and pops blocks.  A handler is a record of its    *)
(* control: what it reads from the request, which call of RequestManager   *)
(* it makes, what its catch blocks answer; the actions interpret it.       *)
(*                                                                         *)
(* res->end may be called more than once: "sent" lists the calls.  Calls   *)
(* that wait for a mutex are taken to return; NodeLocks is about those     *)
(* that do not.                                                            *)
(***************************************************************************)
EXTENDS Integers, Sequences, SequencesExt

CONSTANTS
  MaxHeight,   \* bounds the chain
  MaxBuffer,   \* the bytes checkBuffer allows
  MaxChunks,   \* bounds a body
  FetchLimit,  \* BLOCKS_PER_FETCH, BLOCK_HEADERS_PER_FETCH
  MaxItems     \* the 100 transactions of a request

HttpAssumption == {MaxHeight, MaxBuffer, MaxChunks, FetchLimit, MaxItems} \subseteq Nat

VARIABLES
  route,       \* the handler that runs
  input,       \* what the request says
  pc,
  sent,        \* what res->end has been called with
  thrown,      \* a catch block has run
  buffer,      \* the bytes of the body that have come
  noted,       \* the block count the handler has read
  i,           \* its loop
  added,       \* the items of the body it has given to RequestManager
  numBlocks    \* BlockChain::numBlocks

vars == <<route, input, pc, sent, thrown, buffer, noted, i, added, numBlocks>>

Handler(limits, reads, calls, catches) ==
  [limits |-> limits, reads |-> reads, calls |-> calls, catches |-> catches]

Nothing == <<>>
Empty   == <<"">>

corsHandler              == Handler(FALSE, "nothing", "constant", Nothing)
logsHandler              == Handler(TRUE, "nothing", "constant", Nothing)
statsHandler             == Handler(TRUE, "nothing", "tip", Nothing)
totalWorkHandler         == Handler(TRUE, "nothing", "constant", Nothing)
nameHandler              == Handler(TRUE, "nothing", "constant", Nothing)
peerHandler              == Handler(TRUE, "nothing", "constant", Nothing)
blockCountHandler        == Handler(TRUE, "nothing", "constant", Nothing)
txJsonHandler            == Handler(TRUE, "nothing", "constant", Empty)
blockHandler             == Handler(TRUE, "query", "block", Empty)
mineStatusHandler        == Handler(TRUE, "query", "block", Empty)
ledgerHandler            == Handler(TRUE, "query", "ledger", Nothing)
walletHandler            == Handler(TRUE, "query", "ledger", Nothing)
ledgerHandlerDeprecated  == Handler(TRUE, "path", "ledger", Nothing)
createWalletHandler      == Handler(TRUE, "nothing", "constant", Nothing)
createTransactionHandler == Handler(TRUE, "body", "parse", Nothing)
addPeerHandler           == Handler(TRUE, "body", "parse", Nothing)
submitHandler            == Handler(TRUE, "body", "submit", <<"error">>)
getTxHandler             == Handler(TRUE, "nothing", "constant", Nothing)
supplyHandler            == Handler(TRUE, "nothing", "constant", Nothing)
mineHandler              == Handler(TRUE, "nothing", "tip", Nothing)
syncHandlerDeprecated    == Handler(TRUE, "path", "range", Nothing)
blockHandlerDeprecated   == Handler(TRUE, "path", "block", Empty)
blockHeaderHandlerDeprecated == Handler(TRUE, "path", "range", Nothing)
mineStatusHandlerDeprecated  == Handler(TRUE, "path", "block", Empty)
syncHandler              == Handler(TRUE, "query", "range", Nothing)
blockHeaderHandler       == Handler(TRUE, "query", "range", Nothing)
addTransactionHandler    == Handler(TRUE, "body", "raw items", Nothing)
\* (Mutant: the JSON handler reads its first transaction over and over too.)
addTransactionJSONHandlerFirst == Handler(TRUE, "body", "raw items", Nothing)
addTransactionJSONHandler == Handler(TRUE, "body", "items", Nothing)
verifyTransactionHandler == Handler(TRUE, "body", "statuses", Nothing)
getNetworkHashrateHandler == Handler(TRUE, "nothing", "hashrate", Nothing)
mainHandler              == Handler(TRUE, "nothing", "constant", Nothing)

\* The routes of uWS::App.
Routes ==
  [cors |-> corsHandler, logs |-> logsHandler, stats |-> statsHandler,
   total_work |-> totalWorkHandler, name |-> nameHandler, peers |-> peerHandler,
   block_count |-> blockCountHandler, tx_json |-> txJsonHandler, block |-> blockHandler,
   mine_status |-> mineStatusHandler, ledger |-> ledgerHandler,
   wallet_transactions |-> walletHandler, ledger_user |-> ledgerHandlerDeprecated,
   create_wallet |-> createWalletHandler, create_transaction |-> createTransactionHandler,
   add_peer |-> addPeerHandler, submit |-> submitHandler, gettx |-> getTxHandler,
   supply |-> supplyHandler, mine |-> mineHandler, sync_range |-> syncHandlerDeprecated,
   headers_range |-> blockHeaderHandlerDeprecated, block_b |-> blockHandlerDeprecated,
   mine_status_b |-> mineStatusHandlerDeprecated, sync |-> syncHandler,
   block_headers |-> blockHeaderHandler, add_transaction |-> addTransactionHandler,
   add_transaction_json |-> addTransactionJSONHandler,
   verify_transaction |-> verifyTransactionHandler,
   getnetworkhashrate |-> getNetworkHashrateHandler, main |-> mainHandler]

Route == DOMAIN Routes
h     == Routes[route]

\* What a request of a route may say.  "items" is the number of transactions
\* in a body and "bad" the first of them that cannot be read, if any.
Said(kind, first, last, bad) == [kind |-> kind, first |-> first, last |-> last, bad |-> bad]

Inputs(r) ==
  LET well == CASE Routes[r].calls = "block" -> {Said("good", b, b, 0) : b \in 0 .. MaxHeight + 1}
                [] Routes[r].calls = "range" ->
                     {Said("good", 1, l, 0) : l \in 2 .. FetchLimit + 2}
                [] Routes[r].calls \in {"items", "statuses"} ->
                     UNION {{Said("good", 1, n, b) : b \in 0 .. n} : n \in 0 .. MaxItems + 2}
                [] Routes[r].calls = "raw items" -> {Said("good", 1, n, 0) : n \in 0 .. MaxItems + 2}
                [] OTHER -> {Said("good", 0, 0, 0)}
  IN well \cup (IF Routes[r].reads = "nothing" THEN {} ELSE {Said("malformed", 0, 0, 0)})
          \cup (IF Routes[r].reads = "query" THEN {Said("missing", 0, 0, 0)} ELSE {})

-----------------------------------------------------------------------------
End(what)  == sent' = Append(sent, what)
Finish     == pc' = "done"
Throw      == /\ sent' = sent \o h.catches
              /\ thrown' = TRUE
              /\ Finish

Receive(r, said) ==
  /\ pc = "idle"
  /\ route' = r /\ input' = said
  /\ pc' = IF Routes[r].limits THEN "limit" ELSE "read"
  /\ sent' = <<>> /\ added' = <<>>
  /\ thrown' = FALSE
  /\ buffer' = 0 /\ noted' = 0 /\ i' = 0
  /\ UNCHANGED numBlocks

\* A request over the limit is answered, and the handler goes on.
rateLimit ==
  /\ pc = "limit"
  /\ pc' = IF h.reads = "body" THEN "body" ELSE "read"
  /\ sent' \in {sent, Append(sent, "refused")}
  /\ UNCHANGED <<route, input, thrown, buffer, noted, i, added, numBlocks>>

\* (Mutant: no return after the answer to a request without its query.)
ReadRequestGoesOn ==
  /\ pc = "read"
  /\ noted' = numBlocks
  /\ \/ /\ input.kind = "missing"
        /\ End("error")
        /\ pc' = IF h.calls = "range" THEN "range" ELSE "call"
        /\ UNCHANGED thrown
     \/ /\ input.kind = "malformed" /\ Throw
     \/ /\ input.kind = "good"
        /\ pc' = IF h.calls = "range" THEN "range" ELSE "call"
        /\ UNCHANGED <<sent, thrown>>
  /\ i' = input.first
  /\ UNCHANGED <<route, input, buffer, added, numBlocks>>

\* The query is looked at and read, and the block count with it.
ReadRequest ==
  /\ pc = "read"
  /\ \/ /\ input.kind = "missing"
        /\ End("error") /\ Finish
        /\ UNCHANGED <<thrown, noted, i>>
     \/ /\ input.kind = "malformed"
        /\ Throw
        /\ UNCHANGED <<noted, i>>
     \/ /\ input.kind = "good"
        /\ pc' = IF h.calls = "range" THEN "range" ELSE "call"
        /\ noted' = numBlocks /\ i' = input.first
        /\ IF h.calls = "range" /\ input.last - input.first > FetchLimit
           THEN End("invalid range") ELSE UNCHANGED sent
        /\ UNCHANGED thrown
  /\ UNCHANGED <<route, input, buffer, added, numBlocks>>

\* A call may throw because the chain has been popped, or reset, meanwhile.
Call ==
  /\ pc = "call" /\ h.calls # "hashrate"
  /\ LET fails == \/ h.calls = "tip" /\ numBlocks < noted
                  \/ h.calls = "ledger" /\ numBlocks = 1 /\ noted > 1
                  \/ h.calls = "block" /\ input.first \in numBlocks + 1 .. noted
     IN IF fails THEN Throw
        ELSE /\ End(IF h.calls = "block" /\ input.first \notin 1 .. noted THEN "error" ELSE "result")
             /\ Finish
             /\ UNCHANGED thrown
  /\ UNCHANGED <<route, input, buffer, noted, i, added, numBlocks>>

\* getNetworkHashrate reads the headers from block 2 on, which throws if the last
\* has been popped, and divides by the time between the first and the last of
\* them.  That is zero where there are not two of them, or they carry the same
\* time stamp, and a division by zero ends the process.
CallHashrate ==
  /\ pc = "call" /\ h.calls = "hashrate"
  /\ \/ noted > 1 /\ numBlocks < noted /\ Throw
     \/ /\ noted > 2 /\ numBlocks >= noted
        /\ End("result") /\ Finish
        /\ UNCHANGED thrown
     \/ /\ noted <= 1 \/ numBlocks >= noted
        /\ pc' = "died"
        /\ UNCHANGED <<sent, thrown>>
  /\ UNCHANGED <<route, input, buffer, noted, i, added, numBlocks>>

\* The loops of the range handlers: one block is read and written.
CallRange ==
  /\ pc = "range"
  /\ \/ /\ i > input.last
        /\ End("result") /\ Finish
        /\ UNCHANGED <<thrown, i>>
     \/ /\ i <= input.last /\ i > numBlocks
        /\ Throw
        /\ UNCHANGED i
     \/ /\ i <= input.last /\ i <= numBlocks
        /\ i' = i + 1
        /\ UNCHANGED <<pc, sent, thrown>>
  /\ UNCHANGED <<route, input, buffer, noted, added, numBlocks>>

checkBuffer(size) == IF size > MaxBuffer THEN Append(sent, "overflow") ELSE sent

\* onData: a part of the body, the last one or not.
OnData(last) ==
  /\ pc = "body" /\ buffer < MaxChunks
  /\ buffer' = buffer + 1
  /\ sent' = checkBuffer(buffer')
  /\ pc' = IF last THEN "whole" ELSE "body"
  /\ i' = 1
  /\ UNCHANGED <<route, input, thrown, noted, added, numBlocks>>

\* onAborted: the client has gone.
OnAborted ==
  /\ pc = "body"
  /\ End("aborted") /\ Finish
  /\ UNCHANGED <<route, input, thrown, buffer, noted, i, added, numBlocks>>

\* The body is whole.  A block that is malformed is answered, anything else
\* that is malformed is thrown.
CallBody ==
  /\ pc = "whole"
  /\ h.calls \in {"parse", "submit"}
  /\ IF input.kind = "malformed" /\ h.calls = "parse" THEN Throw
     ELSE \/ /\ End(IF input.kind = "malformed" THEN "error" ELSE "result") /\ Finish
             /\ UNCHANGED thrown
          \/ /\ h.calls = "submit" /\ input.kind = "good"
             /\ Throw
  /\ UNCHANGED <<route, input, buffer, noted, i, added, numBlocks>>

\* The loop of addTransactionJSON and verifyTransaction, which stops once it
\* has more than MaxItems results.  An item may be unreadable, and addTransaction
\* may throw on any (getTransactionStatus catches all).
CallItems ==
  /\ pc = "whole" /\ h.calls \in {"items", "statuses"}
  /\ \/ /\ \/ input.kind = "malformed"
           \/ /\ i <= input.last /\ Len(added) <= MaxItems
              /\ i = input.bad \/ h.calls = "items"
        /\ Throw
        /\ UNCHANGED <<i, added>>
     \/ /\ input.kind = "good" /\ i # input.bad /\ i <= input.last /\ Len(added) <= MaxItems
        /\ added' = Append(added, i)
        /\ i' = i + 1
        /\ UNCHANGED <<pc, sent, thrown>>
     \/ /\ input.kind = "good" /\ (i > input.last \/ Len(added) > MaxItems)
        /\ End("result") /\ Finish
        /\ UNCHANGED <<thrown, i, added>>
  /\ UNCHANGED <<route, input, buffer, noted, numBlocks>>

\* addTransaction reads the first transaction of the body over and over; adding
\* it may throw.
CallRawItems ==
  /\ pc = "whole" /\ h.calls = "raw items"
  /\ \/ /\ input.last = 0
        /\ End("error") /\ Finish
        /\ UNCHANGED <<thrown, i, added>>
     \/ /\ i <= input.last
        /\ Throw
        /\ UNCHANGED <<i, added>>
     \/ /\ i <= input.last
        /\ added' = Append(added, 1)
        /\ i' = i + 1
        /\ UNCHANGED <<pc, sent, thrown>>
     \/ /\ input.last > 0 /\ i > input.last
        /\ End("result") /\ Finish
        /\ UNCHANGED <<thrown, i, added>>
  /\ UNCHANGED <<route, input, buffer, noted, numBlocks>>

\* The handler has returned and the next request is served.
NextRequest ==
  /\ pc = "done"
  /\ pc' = "idle"
  /\ UNCHANGED <<route, input, sent, thrown, buffer, noted, i, added, numBlocks>>

\* chain_sync, between any two statements of a handler.
ChainChanges ==
  /\ pc \notin {"idle", "died"}
  /\ numBlocks' \in {numBlocks - 1, numBlocks + 1} \cap 1 .. MaxHeight
  /\ UNCHANGED <<route, input, pc, sent, thrown, buffer, noted, i, added>>

Run == \/ rateLimit \/ ReadRequest \/ Call \/ CallHashrate \/ CallRange
       \/ CallBody \/ CallItems \/ CallRawItems \/ NextRequest

Next ==
  \/ \E r \in Route : \E said \in Inputs(r) : Receive(r, said)
  \/ \E last \in BOOLEAN : OnData(last)
  \/ OnAborted
  \/ Run
  \/ ChainChanges

Init ==
  /\ route = "main" /\ input = Said("good", 0, 0, 0)
  /\ pc = "idle"
  /\ sent = <<>> /\ added = <<>>
  /\ thrown = FALSE
  /\ buffer = 0 /\ noted = 0 /\ i = 0
  /\ numBlocks \in 1 .. MaxHeight

Spec == Init /\ [][Next]_vars

-----------------------------------------------------------------------------
\* The handler is at one of its statements, and what it has answered is one of
\* its answers.
TypeOK ==
  /\ route \in Route /\ input.kind \in {"good", "malformed", "missing"}
  /\ pc \in {"idle", "limit", "read", "call", "range", "body", "whole", "done", "died"}
  /\ ToSet(sent) \subseteq {"refused", "error", "", "result", "invalid range", "overflow", "aborted"}
  /\ buffer \in 0 .. MaxChunks /\ {noted, numBlocks} \subseteq 0 .. MaxHeight

\* A response is ended once.  Only a request that has been refused, whose body
\* is too large or whose range is too wide is answered again by the handler
\* that goes on with it.  The handlers of blocks, the queue and submissions
\* answer whatever happens to the chain under them; another one leaves a request
\* open only when its catch block has run, or, as the one of the hash rate may,
\* when it takes the process with it.
AnsweredOnce ==
  /\ Len(sent) > 1 =>
       \A k \in 1 .. Len(sent) - 1 : sent[k] \in {"refused", "overflow", "invalid range"}
  /\ pc = "done" /\ sent = <<>> =>
       /\ thrown
       /\ route \notin {"tx_json", "block", "block_b", "mine_status", "mine_status_b", "submit"}
  /\ pc = "died" => route = "getnetworkhashrate"

\* A body of transactions in JSON: a request that is answered with results has
\* had every one of its transactions added, up to the limit, in their order.
BatchWhole ==
  pc = "done" /\ route = "add_transaction_json" /\ Last(<<"">> \o sent) = "result" =>
    /\ \A k \in DOMAIN added : added[k] = k
    /\ Len(added) \in {input.last, MaxItems + 1}

=============================================================================
