----------------------------- MODULE HttpProofs -----------------------------
(***************************************************************************)
(* What the HTTP handlers of a node answer, for bodies, chains and limits  *)
(* of every size.                                                          *)
(***************************************************************************)
EXTENDS NodeProofs, SequenceTheorems

-----------------------------------------------------------------------------
\* What res->end is called with.
Answer  == {"refused", "error", "", "result", "invalid range", "overflow", "aborted"}
\* What a handler that goes on may have answered before.
Interim == {"refused", "overflow", "invalid range"}
\* The routes whose handlers answer in their catch blocks.
Catching == {"tx_json", "block", "block_b", "mine_status", "mine_status_b", "submit"}

AllInterim(s) == \A j \in 1 .. Len(s) : s[j] \in Interim

\* A handler that has not ended has answered nothing that would end it, one that
\* has ended without an answer has caught an exception and says nothing then, and
\* only one ends the process.
AnswerInv ==
  /\ route \in Http!Route /\ sent \in Seq(Answer)
  /\ httpPc \notin {"idle", "done"} => AllInterim(sent)
  /\ \A j \in 1 .. Len(sent) - 1 : sent[j] \in Interim
  /\ httpPc = "done" /\ sent = <<>> => thrown /\ route \notin Catching
  /\ httpPc = "died" => route = "getnetworkhashrate"

LEMMA CatchBlocks ==
  ASSUME NEW r \in Http!Route
  PROVE  /\ Http!Routes[r].catches \in {<<>>, <<"">>, <<"error">>}
         /\ Http!Routes[r].catches = <<>> => r \notin Catching
<1>. DEFINE silent == {
              Http!corsHandler, Http!logsHandler, Http!statsHandler, Http!totalWorkHandler,
              Http!nameHandler, Http!peerHandler, Http!blockCountHandler,
              Http!ledgerHandler, Http!walletHandler, Http!ledgerHandlerDeprecated,
              Http!createWalletHandler, Http!createTransactionHandler, Http!addPeerHandler,
              Http!getTxHandler, Http!supplyHandler, Http!mineHandler,
              Http!syncHandlerDeprecated, Http!blockHeaderHandlerDeprecated,
              Http!syncHandler, Http!blockHeaderHandler, Http!addTransactionHandler,
              Http!addTransactionJSONHandler, Http!verifyTransactionHandler,
              Http!getNetworkHashrateHandler, Http!mainHandler}
            empty  == {
              Http!txJsonHandler, Http!blockHandler, Http!mineStatusHandler,
              Http!blockHandlerDeprecated, Http!mineStatusHandlerDeprecated}
<1>1. \A g \in silent : g.catches = <<>>
  <2>1. /\ Http!corsHandler.catches = <<>>
        /\ Http!logsHandler.catches = <<>>
        /\ Http!statsHandler.catches = <<>>
        /\ Http!totalWorkHandler.catches = <<>>
        /\ Http!nameHandler.catches = <<>>
        /\ Http!peerHandler.catches = <<>>
    BY DEF Http!Handler, Http!Nothing,
           Http!corsHandler, Http!logsHandler, Http!statsHandler, Http!totalWorkHandler,
           Http!nameHandler, Http!peerHandler
  <2>2. /\ Http!blockCountHandler.catches = <<>>
        /\ Http!ledgerHandler.catches = <<>>
        /\ Http!walletHandler.catches = <<>>
        /\ Http!ledgerHandlerDeprecated.catches = <<>>
        /\ Http!createWalletHandler.catches = <<>>
        /\ Http!createTransactionHandler.catches = <<>>
    BY DEF Http!Handler, Http!Nothing,
           Http!blockCountHandler, Http!ledgerHandler, Http!walletHandler,
           Http!ledgerHandlerDeprecated, Http!createWalletHandler,
           Http!createTransactionHandler
  <2>3. /\ Http!addPeerHandler.catches = <<>>
        /\ Http!getTxHandler.catches = <<>>
        /\ Http!supplyHandler.catches = <<>>
        /\ Http!mineHandler.catches = <<>>
        /\ Http!syncHandlerDeprecated.catches = <<>>
        /\ Http!blockHeaderHandlerDeprecated.catches = <<>>
    BY DEF Http!Handler, Http!Nothing,
           Http!addPeerHandler, Http!getTxHandler, Http!supplyHandler, Http!mineHandler,
           Http!syncHandlerDeprecated, Http!blockHeaderHandlerDeprecated
  <2>4. /\ Http!syncHandler.catches = <<>>
        /\ Http!blockHeaderHandler.catches = <<>>
        /\ Http!addTransactionHandler.catches = <<>>
        /\ Http!addTransactionJSONHandler.catches = <<>>
        /\ Http!verifyTransactionHandler.catches = <<>>
        /\ Http!getNetworkHashrateHandler.catches = <<>>
    BY DEF Http!Handler, Http!Nothing,
           Http!syncHandler, Http!blockHeaderHandler, Http!addTransactionHandler,
           Http!addTransactionJSONHandler, Http!verifyTransactionHandler,
           Http!getNetworkHashrateHandler
  <2>5. /\ Http!mainHandler.catches = <<>>
    BY DEF Http!Handler, Http!Nothing,
           Http!mainHandler
  <2>. QED  BY <2>1, <2>2, <2>3, <2>4, <2>5
<1>2. \A g \in empty : g.catches = <<"">>
  <2>1. /\ Http!txJsonHandler.catches = <<"">>
        /\ Http!blockHandler.catches = <<"">>
        /\ Http!mineStatusHandler.catches = <<"">>
        /\ Http!blockHandlerDeprecated.catches = <<"">>
        /\ Http!mineStatusHandlerDeprecated.catches = <<"">>
    BY DEF Http!Handler, Http!Empty,
           Http!txJsonHandler, Http!blockHandler, Http!mineStatusHandler,
           Http!blockHandlerDeprecated, Http!mineStatusHandlerDeprecated
  <2>. QED  BY <2>1
<1>3. Http!submitHandler.catches = <<"error">>
  BY DEF Http!submitHandler, Http!Handler
<1>4. Http!Routes[r] \in silent \cup empty \cup {Http!submitHandler}
  BY DEF Http!Route, Http!Routes
<1>5. r \in Catching => Http!Routes[r] \in empty \cup {Http!submitHandler}
  BY DEF Http!Routes, Catching
<1>. HIDE DEF silent, empty
<1>6. <<>> # <<"">> /\ <<>> # <<"error">>
  OBVIOUS
<1>. QED  BY <1>1, <1>2, <1>3, <1>4, <1>5, <1>6

\* One handler divides by a time.
LEMMA HashrateHandler ==
  ASSUME NEW r \in Http!Route, Http!Routes[r].calls = "hashrate"
  PROVE  r = "getnetworkhashrate"
<1>. DEFINE others == {
              Http!corsHandler, Http!logsHandler, Http!statsHandler, Http!totalWorkHandler,
              Http!nameHandler, Http!peerHandler, Http!blockCountHandler,
              Http!ledgerHandler, Http!walletHandler, Http!ledgerHandlerDeprecated,
              Http!createWalletHandler, Http!createTransactionHandler, Http!addPeerHandler,
              Http!getTxHandler, Http!supplyHandler, Http!mineHandler,
              Http!syncHandlerDeprecated, Http!blockHeaderHandlerDeprecated,
              Http!syncHandler, Http!blockHeaderHandler, Http!addTransactionHandler,
              Http!addTransactionJSONHandler, Http!verifyTransactionHandler,
              Http!mainHandler, Http!txJsonHandler, Http!blockHandler,
              Http!mineStatusHandler, Http!blockHandlerDeprecated,
              Http!mineStatusHandlerDeprecated, Http!submitHandler}
<1>1. \A g \in others : g.calls # "hashrate"
  <2>1. /\ Http!corsHandler.calls # "hashrate"
        /\ Http!logsHandler.calls # "hashrate"
        /\ Http!statsHandler.calls # "hashrate"
        /\ Http!totalWorkHandler.calls # "hashrate"
        /\ Http!nameHandler.calls # "hashrate"
        /\ Http!peerHandler.calls # "hashrate"
    BY DEF Http!Handler,
           Http!corsHandler, Http!logsHandler, Http!statsHandler, Http!totalWorkHandler,
           Http!nameHandler, Http!peerHandler
  <2>2. /\ Http!blockCountHandler.calls # "hashrate"
        /\ Http!ledgerHandler.calls # "hashrate"
        /\ Http!walletHandler.calls # "hashrate"
        /\ Http!ledgerHandlerDeprecated.calls # "hashrate"
        /\ Http!createWalletHandler.calls # "hashrate"
        /\ Http!createTransactionHandler.calls # "hashrate"
    BY DEF Http!Handler,
           Http!blockCountHandler, Http!ledgerHandler, Http!walletHandler,
           Http!ledgerHandlerDeprecated, Http!createWalletHandler,
           Http!createTransactionHandler
  <2>3. /\ Http!addPeerHandler.calls # "hashrate"
        /\ Http!getTxHandler.calls # "hashrate"
        /\ Http!supplyHandler.calls # "hashrate"
        /\ Http!mineHandler.calls # "hashrate"
        /\ Http!syncHandlerDeprecated.calls # "hashrate"
        /\ Http!blockHeaderHandlerDeprecated.calls # "hashrate"
    BY DEF Http!Handler,
           Http!addPeerHandler, Http!getTxHandler, Http!supplyHandler, Http!mineHandler,
           Http!syncHandlerDeprecated, Http!blockHeaderHandlerDeprecated
  <2>4. /\ Http!syncHandler.calls # "hashrate"
        /\ Http!blockHeaderHandler.calls # "hashrate"
        /\ Http!addTransactionHandler.calls # "hashrate"
        /\ Http!addTransactionJSONHandler.calls # "hashrate"
        /\ Http!verifyTransactionHandler.calls # "hashrate"
        /\ Http!mainHandler.calls # "hashrate"
    BY DEF Http!Handler,
           Http!syncHandler, Http!blockHeaderHandler, Http!addTransactionHandler,
           Http!addTransactionJSONHandler, Http!verifyTransactionHandler, Http!mainHandler
  <2>5. /\ Http!txJsonHandler.calls # "hashrate"
        /\ Http!blockHandler.calls # "hashrate"
        /\ Http!mineStatusHandler.calls # "hashrate"
        /\ Http!blockHandlerDeprecated.calls # "hashrate"
        /\ Http!mineStatusHandlerDeprecated.calls # "hashrate"
        /\ Http!submitHandler.calls # "hashrate"
    BY DEF Http!Handler,
           Http!txJsonHandler, Http!blockHandler, Http!mineStatusHandler,
           Http!blockHandlerDeprecated, Http!mineStatusHandlerDeprecated,
           Http!submitHandler
  <2>. QED  BY <2>1, <2>2, <2>3, <2>4, <2>5
<1>2. r # "getnetworkhashrate" => Http!Routes[r] \in others
  BY DEF Http!Route, Http!Routes
<1>. HIDE DEF others
<1>. QED  BY <1>1, <1>2

\* One more answer, after interim ones.
LEMMA OneAnswer ==
  ASSUME NEW s \in Seq(Answer), AllInterim(s), NEW a \in Answer
  PROVE  /\ Append(s, a) \in Seq(Answer) /\ Append(s, a) # <<>>
         /\ \A j \in 1 .. Len(Append(s, a)) - 1 : Append(s, a)[j] \in Interim
         /\ a \in Interim => AllInterim(Append(s, a))
<1>1. /\ Len(s) \in Nat /\ Len(Append(s, a)) = Len(s) + 1 /\ Append(s, a) \in Seq(Answer)
      /\ \A j \in 1 .. Len(s) : Append(s, a)[j] = s[j]
      /\ Append(s, a)[Len(s) + 1] = a
  OBVIOUS
<1>. DEFINE t == Append(s, a)
<1>. HIDE DEF t
<1>2. t # <<>>
  BY <1>1 DEF t
<1>3. \A j \in 1 .. Len(t) - 1 : t[j] \in Interim
  BY <1>1 DEF AllInterim, t
<1>4. ASSUME a \in Interim  PROVE AllInterim(t)
  <2>. SUFFICES ASSUME NEW j \in 1 .. Len(t)  PROVE t[j] \in Interim
    BY DEF AllInterim
  <2>1. j \in 1 .. Len(s) \/ j = Len(s) + 1
    BY <1>1 DEF t
  <2>. QED  BY <1>1, <1>4, <2>1 DEF AllInterim, t
<1>. QED  BY <1>1, <1>2, <1>3, <1>4 DEF t

\* A handler that throws in one of its steps.
LEMMA ThrowKeeps ==
  ASSUME AnswerInv, Http!Throw, AllInterim(sent), route' = route
  PROVE  AnswerInv'
<1>. DEFINE catches == Http!Routes[route].catches
<1>1. sent' = sent \o catches /\ thrown' /\ httpPc' = "done"
  BY DEF Http!Throw, Http!Finish, Http!h
<1>2. catches \in {<<>>, <<"">>, <<"error">>} /\ (catches = <<>> => route \notin Catching)
  BY CatchBlocks DEF AnswerInv
<1>. HIDE DEF catches
<1>3. CASE catches = <<>>
  <2>1. sent' = sent
    BY <1>1, <1>3 DEF AnswerInv
  <2>. QED  BY <1>1, <1>2, <1>3, <2>1 DEF AnswerInv, AllInterim
<1>4. CASE catches # <<>>
  <2>1. PICK a \in Answer : sent' = Append(sent, a)
    <3>1. PICK a \in {"", "error"} : catches = <<a>>
      BY <1>2, <1>4
    <3>2. sent \o <<a>> = Append(sent, a)
      <4>1. sent \in Seq(Answer) /\ a \in Answer
        BY <3>1 DEF AnswerInv, Answer
      <4>. QED  BY <4>1, AppendIsConcat
    <3>. QED  BY <1>1, <3>1, <3>2 DEF Answer
  <2>2. sent' \in Seq(Answer) /\ sent' # <<>> /\ \A j \in 1 .. Len(sent') - 1 : sent'[j] \in Interim
    BY <2>1, OneAnswer DEF AnswerInv
  <2>. QED  BY <1>1, <2>2 DEF AnswerInv
<1>. QED  BY <1>3, <1>4

\* One that ends, and one that goes on.
LEMMA EndKeeps ==
  ASSUME AnswerInv, AllInterim(sent), NEW a \in Answer, sent' = Append(sent, a), route' = route,
         httpPc' # "died", a \in Interim \/ httpPc' = "done"
  PROVE  AnswerInv'
<1>1. /\ sent' \in Seq(Answer) /\ sent' # <<>>
      /\ \A j \in 1 .. Len(sent') - 1 : sent'[j] \in Interim
      /\ a \in Interim => AllInterim(sent')
  BY OneAnswer DEF AnswerInv
<1>2. AllInterim(sent)' <=> AllInterim(sent')
  BY DEF AllInterim
<1>. QED  BY <1>1, <1>2 DEF AnswerInv

LEMMA AnswersKept ==
  ASSUME AnswerInv, [Http!Next]_Http!vars
  PROVE  AnswerInv'
<1>1. ASSUME NEW r \in Http!Route, NEW said \in Http!Inputs(r), Http!Receive(r, said)
      PROVE  AnswerInv'
  <2>1. route' = r /\ sent' = <<>> /\ httpPc' \notin {"done", "died"}
    BY <1>1 DEF Http!Receive
  <2>. QED  BY <2>1 DEF AnswerInv, AllInterim
<1>2. ASSUME NEW last \in BOOLEAN, Http!OnData(last)  PROVE AnswerInv'
  <2>1. AllInterim(sent) /\ route' = route /\ httpPc' \notin {"done", "died"}
    BY <1>2 DEF Http!OnData, AnswerInv
  <2>2. CASE sent' = sent
    BY <2>1, <2>2 DEF AnswerInv, AllInterim
  <2>3. CASE sent' = Append(sent, "overflow")
    BY <2>1, <2>3, EndKeeps DEF Answer, Interim
  <2>. QED  BY <1>2, <2>2, <2>3 DEF Http!OnData, Http!checkBuffer
<1>3. CASE Http!OnAborted
  <2>1. AllInterim(sent) /\ route' = route /\ httpPc' = "done" /\ sent' = Append(sent, "aborted")
    BY <1>3 DEF Http!OnAborted, Http!End, Http!Finish, AnswerInv
  <2>. QED  BY <2>1, EndKeeps DEF Answer
<1>4. CASE Http!rateLimit
  <2>1. AllInterim(sent) /\ route' = route /\ httpPc' \notin {"done", "died"}
    BY <1>4 DEF Http!rateLimit, AnswerInv
  <2>2. CASE sent' = sent
    BY <2>1, <2>2 DEF AnswerInv, AllInterim
  <2>3. CASE sent' = Append(sent, "refused")
    BY <2>1, <2>3, EndKeeps DEF Answer, Interim
  <2>. QED  BY <1>4, <2>2, <2>3 DEF Http!rateLimit
<1>5. CASE \/ Http!ReadRequest \/ Http!Call \/ Http!CallHashrate \/ Http!CallRange
           \/ Http!CallBody \/ Http!CallItems \/ Http!CallRawItems
  <2>1. AllInterim(sent) /\ route' = route
    BY <1>5 DEF Http!ReadRequest, Http!Call, Http!CallHashrate, Http!CallRange, Http!CallBody,
                Http!CallItems, Http!CallRawItems, AnswerInv
  <2>2. \/ Http!Throw
        \/ \E a \in {"error", "result", "invalid range"} :
             /\ sent' = Append(sent, a) /\ httpPc' # "died"
             /\ a = "invalid range" \/ httpPc' = "done"
        \/ sent' = sent /\ httpPc' \notin {"idle", "done", "died"}
        \/ sent' = sent /\ httpPc' = "died" /\ Http!h.calls = "hashrate"
    BY <1>5 DEF Http!ReadRequest, Http!Call, Http!CallHashrate, Http!CallRange, Http!CallBody,
                Http!CallItems, Http!CallRawItems, Http!End, Http!Finish
  <2>3. CASE Http!Throw
    BY <2>1, <2>3, ThrowKeeps
  <2>4. CASE \E a \in {"error", "result", "invalid range"} :
               /\ sent' = Append(sent, a) /\ httpPc' # "died"
               /\ a = "invalid range" \/ httpPc' = "done"
    BY <2>1, <2>4, EndKeeps DEF Answer, Interim
  <2>5. CASE sent' = sent /\ httpPc' \notin {"idle", "done", "died"}
    BY <2>1, <2>5 DEF AnswerInv, AllInterim
  <2>6. CASE sent' = sent /\ httpPc' = "died" /\ Http!h.calls = "hashrate"
    <3>1. route = "getnetworkhashrate"
      BY <2>6, HashrateHandler DEF AnswerInv, Http!h
    <3>. QED  BY <2>1, <2>6, <3>1 DEF AnswerInv, AllInterim
  <2>. QED  BY <2>2, <2>3, <2>4, <2>5, <2>6
<1>6. CASE Http!NextRequest \/ Http!ChainChanges \/ UNCHANGED Http!vars
  <2>1. UNCHANGED <<route, sent, thrown>> /\ (httpPc' = httpPc \/ httpPc' = "idle")
    BY <1>6 DEF Http!NextRequest, Http!ChainChanges, Http!vars
  <2>. QED  BY <2>1 DEF AnswerInv, AllInterim
<1>. QED  BY <1>1, <1>2, <1>3, <1>4, <1>5, <1>6 DEF Http!Next, Http!Run

LEMMA AnswerInvHolds == Spec => []AnswerInv
<1>1. Init => AnswerInv
  <2>1. "main" \in Http!Route
    BY DEF Http!Route, Http!Routes
  <2>. QED  BY <2>1 DEF Init, Http!Init, AnswerInv, AllInterim
<1>2. AnswerInv /\ [Next]_vars => AnswerInv'
  BY AnswersKept, PartsStep
<1>. QED  BY <1>1, <1>2, PTL DEF Spec

\* server.cpp's handlers: whatever the route and the request, however its body
\* arrives and wherever a call throws, the response is ended once.  It is left
\* open only by a catch block that answers nothing, or by the division that ends
\* the process.
THEOREM ResponseEndsOnce == Spec => []AnsweredOnce
<1>1. AnswerInv => AnsweredOnce
  BY DEF AnswerInv, AnsweredOnce, Http!AnsweredOnce, Interim, Catching
<1>. QED  BY <1>1, AnswerInvHolds, PTL

-----------------------------------------------------------------------------
\* The route of the handler that adds transactions in JSON.
Batch == "add_transaction_json"

\* The items of the body that were added so far are the first ones, in order.
InOrder == added \in Seq(Nat) /\ \A j \in 1 .. Len(added) : added[j] = j

BatchInv ==
  route = Batch =>
    /\ httpPc \in {"idle", "limit", "body", "whole", "done"}
    /\ httpPc # "idle" => input.last \in Nat
    /\ httpPc \in {"limit", "body"} => added = <<>>
    /\ httpPc = "whole" =>
         /\ InOrder /\ item = Len(added) + 1
         /\ Len(added) <= input.last /\ Len(added) <= MaxItems + 1
    /\ httpPc = "done" /\ sent # <<>> /\ sent[Len(sent)] = "result" =>
         InOrder /\ Len(added) \in {input.last, MaxItems + 1}

\* What the JSON handler of transactions does.
LEMMA BatchHandler ==
  /\ Batch \in Http!Route
  /\ Http!Routes[Batch] = Http!addTransactionJSONHandler
  /\ Http!addTransactionJSONHandler.limits
  /\ Http!addTransactionJSONHandler.reads = "body"
  /\ Http!addTransactionJSONHandler.calls = "items"
  /\ Http!addTransactionJSONHandler.catches = <<>>
<1>1. Batch \in Http!Route /\ Http!Routes[Batch] = Http!addTransactionJSONHandler
  BY DEF Http!Route, Http!Routes, Batch
<1>2. /\ Http!addTransactionJSONHandler.limits
      /\ Http!addTransactionJSONHandler.reads = "body"
      /\ Http!addTransactionJSONHandler.calls = "items"
      /\ Http!addTransactionJSONHandler.catches = <<>>
  BY DEF Http!addTransactionJSONHandler, Http!Handler, Http!Nothing
<1>. QED  BY <1>1, <1>2

LEMMA BatchSays ==
  ASSUME Http!HttpAssumption, NEW said \in Http!Inputs(Batch)
  PROVE  said.last \in Nat
<1>1. /\ Http!Routes[Batch].calls = "items" /\ Http!Routes[Batch].reads = "body"
      /\ MaxItems \in Nat
  BY BatchHandler DEF Http!HttpAssumption
<1>2. \/ \E n \in 0 .. MaxItems + 2 : \E b \in 0 .. n : said = Http!Said("good", 1, n, b)
      \/ said = Http!Said("malformed", 0, 0, 0)
  BY <1>1 DEF Http!Inputs
<1>. QED  BY <1>1, <1>2 DEF Http!Said

LEMMA BatchKept ==
  ASSUME Http!HttpAssumption, AnswerInv, BatchInv, [Http!Next]_Http!vars
  PROVE  BatchInv'
<1>. SUFFICES ASSUME route' = Batch  PROVE BatchInv'
  BY DEF BatchInv
<1>0. MaxItems \in Nat
  BY DEF Http!HttpAssumption
<1>1. ASSUME NEW r \in Http!Route, NEW said \in Http!Inputs(r), Http!Receive(r, said)
      PROVE  BatchInv'
  <2>1. r = Batch /\ input' = said /\ added' = <<>>
    BY <1>1 DEF Http!Receive
  <2>2. httpPc' = "limit"
    BY <1>1, <2>1, BatchHandler DEF Http!Receive
  <2>3. said.last \in Nat
    BY <1>1, <2>1, BatchSays
  <2>. QED  BY <2>1, <2>2, <2>3 DEF BatchInv
<1>2. ASSUME route = Batch, UNCHANGED <<route, input, added>>,
             httpPc \in {"limit", "body"},
             \/ httpPc' = "body"
             \/ httpPc' = "whole" /\ item' = 1
             \/ httpPc' = "done" /\ sent'[Len(sent')] # "result"
      PROVE  BatchInv'
  <2>1. added = <<>> /\ input.last \in Nat
    BY <1>2 DEF BatchInv
  <2>2. InOrder' /\ Len(added') = 0
    BY <1>2, <2>1 DEF InOrder
  <2>. QED  BY <1>0, <1>2, <2>1, <2>2 DEF BatchInv
<1>3. ASSUME NEW last \in BOOLEAN, Http!OnData(last)  PROVE BatchInv'
  BY <1>2, <1>3 DEF Http!OnData
<1>4. CASE Http!OnAborted
  <2>1. sent'[Len(sent')] = "aborted"
    <3>1. sent' = Append(sent, "aborted") /\ sent \in Seq(Answer)
      BY <1>4 DEF Http!OnAborted, Http!End, AnswerInv
    <3>. QED  BY <3>1
  <2>. QED  BY <1>2, <1>4, <2>1 DEF Http!OnAborted, Http!Finish
<1>5. CASE Http!rateLimit
  <2>1. httpPc' = "body" /\ httpPc = "limit" /\ UNCHANGED <<route, input, added>>
    BY <1>5, BatchHandler DEF Http!rateLimit, Http!h
  <2>. QED  BY <1>2, <2>1
<1>6. CASE Http!CallItems
  <2>1. /\ UNCHANGED <<route, input>> /\ httpPc = "whole" /\ InOrder /\ item = Len(added) + 1
        /\ input.last \in Nat /\ Len(added) <= input.last /\ Len(added) <= MaxItems + 1
        /\ AllInterim(sent) /\ sent \in Seq(Answer)
    BY <1>6 DEF Http!CallItems, BatchInv, AnswerInv
  <2>2. CASE Http!Throw
    <3>1. sent' = sent /\ httpPc' = "done"
      <4>1. sent' = sent \o <<>> /\ httpPc' = "done"
        BY <2>1, <2>2, BatchHandler DEF Http!Throw, Http!h, Http!Finish
      <4>. QED  BY <2>1, <4>1
    <3>2. sent # <<>> => Len(sent) \in 1 .. Len(sent)
      BY <2>1
    <3>3. sent # <<>> => sent[Len(sent)] # "result"
      BY <2>1, <3>2 DEF AllInterim, Interim
    <3>. QED  BY <2>1, <3>1, <3>3 DEF BatchInv
  <2>3. CASE /\ item <= input.last /\ Len(added) <= MaxItems
             /\ added' = Append(added, item) /\ item' = item + 1
             /\ UNCHANGED <<httpPc, sent>>
    <3>1. /\ Len(added) \in Nat /\ item \in Nat
          /\ added' \in Seq(Nat) /\ Len(added') = Len(added) + 1
          /\ \A j \in 1 .. Len(added) : added'[j] = added[j]
          /\ added'[Len(added) + 1] = item
      BY <2>1, <2>3 DEF InOrder
    <3>2. InOrder'
      BY <2>1, <3>1 DEF InOrder
    <3>. QED  BY <1>0, <2>1, <2>3, <3>1, <3>2 DEF BatchInv
  <2>4. CASE /\ item > input.last \/ Len(added) > MaxItems
             /\ httpPc' = "done" /\ added' = added
    <3>1. Len(added) \in Nat
      BY <2>1 DEF InOrder
    <3>2. Len(added) = input.last \/ Len(added) = MaxItems + 1
      BY <1>0, <2>1, <2>4, <3>1
    <3>. QED  BY <2>1, <2>4, <3>2 DEF BatchInv, InOrder
  <2>. QED  BY <1>6, <2>2, <2>3, <2>4 DEF Http!CallItems, Http!Finish
<1>7. CASE \/ Http!ReadRequest \/ Http!Call \/ Http!CallHashrate \/ Http!CallRange
           \/ Http!CallBody \/ Http!CallRawItems
  <2>1. /\ route = Batch
        /\ httpPc \in {"read", "call", "range"} \/ Http!h.calls \in {"parse", "submit", "raw items"}
    BY <1>7 DEF Http!ReadRequest, Http!Call, Http!CallHashrate, Http!CallRange, Http!CallBody,
                Http!CallRawItems
  <2>2. Http!h.calls = "items"
    BY <2>1, BatchHandler DEF Http!h
  <2>. QED  BY <2>1, <2>2 DEF BatchInv
<1>8. CASE Http!NextRequest \/ Http!ChainChanges \/ UNCHANGED Http!vars
  <2>1. /\ UNCHANGED <<route, input, sent, added, item>>
        /\ httpPc' = httpPc \/ httpPc' = "idle"
    BY <1>8 DEF Http!NextRequest, Http!ChainChanges, Http!vars
  <2>. QED  BY <2>1 DEF BatchInv, InOrder
<1>. QED  BY <1>1, <1>3, <1>4, <1>5, <1>6, <1>7, <1>8 DEF Http!Next, Http!Run

\* The last entry of a list that is never empty.
LEMMA LastEntry ==
  ASSUME NEW S, NEW a \in S, NEW s \in Seq(S)
  PROVE  Http!Last(<<a>> \o s) = IF s = <<>> THEN a ELSE s[Len(s)]
<1>. DEFINE t == <<a>> \o s
<1>1. /\ Len(s) \in Nat /\ Len(t) = 1 + Len(s) /\ t[1] = a
      /\ \A j \in 1 .. Len(s) : t[1 + j] = s[j]
      /\ s = <<>> <=> Len(s) = 0
  OBVIOUS
<1>. HIDE DEF t
<1>2. t[Len(t)] = IF s = <<>> THEN a ELSE s[Len(s)]
  BY <1>1
<1>. QED  BY <1>2 DEF Http!Last, t

LEMMA LastAnswer ==
  ASSUME sent \in Seq(Answer)
  PROVE  Http!Last(<<"">> \o sent) = IF sent = <<>> THEN "" ELSE sent[Len(sent)]
<1>1. "" \in Answer
  BY DEF Answer
<1>. QED  BY <1>1, LastEntry

\* addTransactionJSONHandler: a request that is answered with results has had
\* every one of its transactions added, in order and up to the limit, however
\* many it holds and wherever reading one throws.
THEOREM BatchIsWhole == Spec => []BatchWhole
<1>1. Init => BatchInv
  <2>1. Init => "main" # Batch /\ route = "main"
    BY DEF Init, Http!Init, Batch
  <2>. QED  BY <2>1 DEF BatchInv
<1>2. AnswerInv /\ BatchInv /\ [Next]_vars => BatchInv'
  BY BatchKept, PartsStep, NodeAssumption
<1>3. AnswerInv /\ BatchInv => BatchWhole
  <2>. SUFFICES ASSUME AnswerInv, BatchInv, httpPc = "done", route = Batch,
                       IF sent = <<>> THEN FALSE ELSE sent[Len(sent)] = "result"
                PROVE  /\ \A k \in DOMAIN added : added[k] = k
                       /\ Len(added) \in {input.last, MaxItems + 1}
    BY LastAnswer DEF BatchWhole, Http!BatchWhole, Batch, AnswerInv
  <2>2. InOrder /\ Len(added) \in {input.last, MaxItems + 1}
    BY DEF BatchInv
  <2>3. DOMAIN added = 1 .. Len(added)
    BY <2>2 DEF InOrder
  <2>. QED  BY <2>2, <2>3 DEF InOrder
<1>. QED  BY <1>1, <1>2, <1>3, AnswerInvHolds, PTL DEF Spec

=============================================================================
