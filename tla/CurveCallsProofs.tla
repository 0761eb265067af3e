-------------------------- MODULE CurveCallsProofs --------------------------
(***************************************************************************)
(* What the calls of a curve handle are bound to, for any calls, by any    *)
(* accounts, in any number and at every interleaving:                      *)
(*                                                                         *)
(*   PushesPaid          an ERC-20 trade on its way has gas for the pushes *)
(*   ChosenGasSuffices   a chosen gas limit with room migrates at once     *)
(*   PromiseKept         a trade happens once, and what is told is true    *)
(*   FailedTradesNothing a call that throws has traded nothing             *)
(*   ReportsAddUp        what an account was told is what it holds         *)
(*   ExposureStaysBounded  the curve may pull no more than was approved    *)
(*   MigrationsAreTold   a migration is told by the one call that made it  *)
(*   CrateCallsTold      what the crate's calls were told is what they did *)
(*                                                                         *)
(* A limit is settled in estimate and used in send, with other calls, the  *)
(* chain and the pushes moving in between.  The first inductive invariant  *)
(* follows it there: from simulate on, a limit covers the pushes.          *)
(***************************************************************************)
EXTENDS CurveClients, CurveMathProofs, FiniteSetTheorems, WellFoundedInduction

Places ==
    /\ plan \in Plans
    /\ pc \in [Calls -> Labels]
    /\ gas \in [Calls -> Nat]
    /\ mempool \in [Accounts -> Seq(Transactions)]

Trade(c) == Request(c).kind \in {"buy", "sell"}

Settled ==
    ~Native =>
        \A c \in Calls :
            Trade(c) /\ pc[c] \in {"simulate", "send"} =>
                gas[c] >= TradeGas + PushGas /\ gas[c] # 0

GasInv == Places /\ Settled /\ FeePushesHaveGas

LEMMA GasFigures ==
    /\ TradeGas \in Nat /\ PushGas \in Nat /\ PushGas <= 150000
    /\ QuoteTransferGasHeadroomMin = 150000 /\ QuoteTransferGasHeadroomBps = 2000
BY ChainAssumption, HeadroomAssumption
   DEF QuoteTransferGasHeadroomMin, QuoteTransferGasHeadroomBps

\* The estimate is made with or without the pushes; the headroom covers them.
LEMMA HeadroomCovers ==
    /\ Estimated \in Nat
    /\ WithQuoteTransferHeadroom(Estimated) \in Nat
    /\ WithQuoteTransferHeadroom(Estimated) >= TradeGas + PushGas
    /\ WithQuoteTransferHeadroom(Estimated) # 0
<1>1. Estimated \in Nat /\ Estimated >= TradeGas
  BY GasFigures DEF Estimated, GasNeeded
<1>2. /\ WithQuoteTransferHeadroom(Estimated) \in Nat
      /\ WithQuoteTransferHeadroom(Estimated) >= Estimated + QuoteTransferGasHeadroomMin
  <2>1. 0 \in Nat
    OBVIOUS
  <2>2. QED
    BY <1>1, <2>1, HeadroomAdds
<1>3. QED
  BY <1>1, <1>2, GasFigures

\* A caller's limit can only raise it.
LEMMA CallerOnlyRaises ==
    ASSUME NEW l \in Nat
    PROVE  /\ Erc20GasLimit(Estimated, l) \in Nat
           /\ Erc20GasLimit(Estimated, l) >= TradeGas + PushGas
           /\ Erc20GasLimit(Estimated, l) # 0
<1> DEFINE safe == WithQuoteTransferHeadroom(Estimated)
<1>1. safe \in Nat /\ safe >= TradeGas + PushGas /\ safe # 0
  BY HeadroomCovers
<1>2. Erc20GasLimit(Estimated, l) = IF l > safe THEN l ELSE safe
  BY DEF Erc20GasLimit
<1> HIDE DEF safe
<1>3. QED
  BY <1>1, <1>2, GasFigures

LEMMA RequestTypes ==
    ASSUME plan \in Plans, NEW c \in Calls PROVE Request(c) \in Requests /\ c \in Nat
<1>1. plan.calls \in Seq(Requests)
  BY PlansAssumption
<1>2. QED
  BY <1>1 DEF Calls, Request

LEMMA TransactionTypes ==
    ASSUME plan \in Plans, NEW c \in Calls, NEW limit \in Nat
    PROVE  /\ Transaction(c, limit) \in Transactions
           /\ Transaction(c, limit).gas = limit
           /\ Transaction(c, limit).kind = Request(c).kind
           /\ Approval(c) \in Transactions
           /\ Approval(c).kind = "approve"
BY RequestTypes DEF Transaction, Approval, Requests, Transactions, Unlimited

\* Every transaction that is on its way is in S.
Sent(S, queue) == \A a \in Accounts : \A i \in DOMAIN queue[a] : queue[a][i] \in S

LEMMA Appended ==
    ASSUME NEW S, NEW queue \in [Accounts -> Seq(Transactions)], Sent(S, queue),
           NEW f \in Accounts, NEW tx \in Transactions, tx \in S
    PROVE  LET longer == [queue EXCEPT ![f] = Append(@, tx)]
           IN  longer \in [Accounts -> Seq(Transactions)] /\ Sent(S, longer)
BY QueueAppended DEF Sent

LEMMA Removed ==
    ASSUME NEW S, NEW queue \in [Accounts -> Seq(Transactions)], Sent(S, queue),
           NEW f \in Accounts, queue[f] # <<>>
    PROVE  LET shorter == [queue EXCEPT ![f] = Tail(@)]
           IN  shorter \in [Accounts -> Seq(Transactions)] /\ Sent(S, shorter)
BY QueueRemoved DEF Sent

\* The transactions with enough gas for the fee pushes, if they need any.
WithGasForPushes ==
    {tx \in Transactions :
        ~Native /\ tx.kind \in {"buy", "sell"} => tx.gas >= TradeGas + PushGas}

LEMMA PushesSent ==
    ASSUME mempool \in [Accounts -> Seq(Transactions)]
    PROVE  FeePushesHaveGas <=> Sent(WithGasForPushes, mempool)
BY DEF FeePushesHaveGas, Sent, WithGasForPushes

\* The steps that send an approve, and those that send what a call is after: the
\* answer to the sending comes or is lost.
SendsApprove(c) == SendApprove(c) \/ (AnswerLost(c) /\ pc[c] = "sendApprove")

SendsMain(c) == Send(c) \/ (AnswerLost(c) /\ pc[c] = "send")

LEMMA SendingSteps ==
    ASSUME NEW c \in Calls
    PROVE  /\ AnswerLost(c) => SendsApprove(c) \/ SendsMain(c)
           /\ SendsApprove(c) =>
                  /\ pc[c] = "sendApprove"
                  /\ UNCHANGED <<plan, chain, world, receipts, gas, foreseen, result>>
                  /\ \/ UNCHANGED mempool /\ Go(c, "failed")
                     \/ /\ mempool' = [mempool EXCEPT ![Request(c).from] = Append(@, Approval(c))]
                        /\ Go(c, "awaitApprove") \/ Go(c, "failed")
           /\ SendsMain(c) =>
                  /\ pc[c] = "send"
                  /\ UNCHANGED <<plan, chain, world, receipts, gas, foreseen, result>>
                  /\ \/ UNCHANGED mempool /\ Go(c, "failed")
                     \/ /\ mempool' = [mempool EXCEPT ![Request(c).from] =
                                            Append(@, Transaction(c, LimitSent(c)))]
                        /\ Go(c, "await") \/ Go(c, "lost")
           /\ SendsApprove(c) \/ SendsMain(c) =>
                  failures' = failures \/ failures' = failures + 1
<1>1. Approval(c).from = Request(c).from
  BY DEF Approval
<1>2. Transaction(c, LimitSent(c)).from = Request(c).from
  BY DEF Transaction
<1>3. AnswerLost(c) => pc[c] = "sendApprove" \/ pc[c] = "send"
  BY DEF AnswerLost
<1>4. QED
  BY <1>1, <1>2, <1>3 DEF SendsApprove, SendsMain, SendApprove, Send, AnswerLost, Put

LEMMA LimitWhole ==
    ASSUME plan \in Plans, gas \in [Calls -> Nat], NEW c \in Calls
    PROVE  /\ LimitSent(c) \in Nat
           /\ gas[c] # 0 => LimitSent(c) = gas[c]
           /\ Request(c).kind = "buy" /\ (gas[c] # 0 => gas[c] >= Request(c).gasLimit) =>
                  LimitSent(c) >= Request(c).gasLimit
<1>1. gas[c] \in Nat /\ Request(c).gasLimit \in Nat
  BY RequestTypes DEF Requests
<1>2. SimulationGas(c) \in Nat /\ (gas[c] # 0 => SimulationGas(c) = gas[c])
      /\ (gas[c] = 0 /\ Request(c).gasLimit # 0 => SimulationGas(c) = Request(c).gasLimit)
  BY <1>1 DEF SimulationGas, Unlimited
<1>3. Estimated \in Nat
  BY HeadroomCovers
<1>4. QED
  BY <1>1, <1>2, <1>3 DEF LimitSent, Bare, Unlimited

LEMMA SendKeeps ==
    ASSUME Places, FeePushesHaveGas, NEW c \in Calls, NEW tx \in WithGasForPushes,
           plan' = plan,
           mempool' = [mempool EXCEPT ![Request(c).from] = Append(@, tx)]
    PROVE  mempool' \in [Accounts -> Seq(Transactions)] /\ FeePushesHaveGas'
<1>1. Request(c).from \in Accounts /\ mempool \in [Accounts -> Seq(Transactions)]
  BY RequestTypes DEF Places, Requests
<1>2. Sent(WithGasForPushes, mempool)
  BY <1>1, PushesSent
<1>3. mempool' \in [Accounts -> Seq(Transactions)] /\ Sent(WithGasForPushes, mempool')
  BY <1>1, <1>2, Appended DEF WithGasForPushes
<1>4. Native' = Native
  BY DEF Native
<1>5. QED
  BY <1>3, <1>4 DEF FeePushesHaveGas, Sent, WithGasForPushes

\* A step that leaves the limits and the queues alone, and takes the call anywhere
\* but to a simulation of an ERC-20 trade.
LEMMA MoveKeeps ==
    ASSUME GasInv, NEW c \in Calls, NEW to \in Labels, Go(c, to),
           to \in {"simulate", "send"} /\ ~Native /\ Trade(c) =>
               gas[c] >= TradeGas + PushGas /\ gas[c] # 0,
           UNCHANGED <<plan, gas>>
    PROVE  pc' \in [Calls -> Labels] /\ Settled' /\ plan' \in Plans /\ gas' \in [Calls -> Nat]
<1>1. /\ pc' = [pc EXCEPT ![c] = to] /\ pc \in [Calls -> Labels]
      /\ Calls' = Calls /\ Native' = Native /\ gas' = gas
  BY DEF GasInv, Places, Go, Calls, Native
<1>2. \A d \in Calls : Trade(d)' = Trade(d)
  BY DEF Trade, Request
<1>3. Settled'
  BY <1>1, <1>2 DEF GasInv, Settled
<1>4. QED
  BY <1>1, <1>3 DEF GasInv, Places

LEMMA QueueStays ==
    ASSUME GasInv, UNCHANGED <<plan, mempool>>
    PROVE  mempool' \in [Accounts -> Seq(Transactions)] /\ FeePushesHaveGas'
BY DEF GasInv, Places, FeePushesHaveGas, Native

\* The parts of the invariant, put together after a step.
LEMMA GasInvHolds ==
    ASSUME plan' = plan, plan \in Plans, pc' \in [Calls -> Labels], gas' \in [Calls -> Nat],
           mempool' \in [Accounts -> Seq(Transactions)], Settled', FeePushesHaveGas'
    PROVE  GasInv'
<1>1. Calls' = Calls
  BY DEF Calls
<1>2. Places'
  BY <1>1 DEF Places
<1>3. QED
  BY <1>2 DEF GasInv

LEMMA MoveStays ==
    ASSUME GasInv, NEW c \in Calls, NEW to \in Labels, Go(c, to),
           to \in {"simulate", "send"} /\ ~Native /\ Trade(c) =>
               gas[c] >= TradeGas + PushGas /\ gas[c] # 0,
           UNCHANGED <<plan, gas, mempool>>
    PROVE  GasInv'
<1>1. plan' = plan /\ plan \in Plans /\ UNCHANGED <<plan, gas>> /\ UNCHANGED <<plan, mempool>>
  BY DEF GasInv, Places
<1>2. pc' \in [Calls -> Labels] /\ Settled' /\ gas' \in [Calls -> Nat]
  BY <1>1, MoveKeeps
<1>3. mempool' \in [Accounts -> Seq(Transactions)] /\ FeePushesHaveGas'
  BY <1>1, QueueStays
<1>4. QED
  BY <1>1, <1>2, <1>3, GasInvHolds

LEMMA StartKeeps == ASSUME GasInv, NEW c \in Calls, Start(c) PROVE GasInv'
<1>1. PICK to \in Labels : Go(c, to) /\ ~(to \in {"simulate", "send"} /\ ~Native /\ Trade(c))
  <2>1. Request(c) \in Requests
    BY RequestTypes DEF GasInv, Places
  <2>2. /\ Request(c).kind \in {"buy", "sell", "migrate", "withdraw"}
        /\ Request(c).amount \in Nat
    BY <2>1 DEF Requests
  <2>3. CASE Trade(c)
    <3>1. \/ Go(c, "failed")
          \/ Go(c, IF Native THEN "simulate" ELSE "allowance")
          \/ Go(c, IF Native THEN "simulate" ELSE "estimate")
      BY <2>2, <2>3 DEF Start, Trade
    <3>2. QED
      BY <3>1 DEF Labels, Final
  <2>4. CASE ~Trade(c)
    <3>1. Go(c, "simulate")
      BY <2>2, <2>4 DEF Start, Trade
    <3>2. QED
      BY <2>4, <3>1 DEF Labels, Final
  <2>5. QED
    BY <2>3, <2>4
<1>2. UNCHANGED <<plan, gas, mempool>>
  BY DEF Start
<1>3. QED
  BY <1>1, <1>2, MoveStays

\* The steps before the estimate, and the wait for the receipt.
LEMMA WaitKeeps ==
    ASSUME GasInv, NEW c \in Calls,
           \/ ReadAllowance(c) \/ Preflight(c) \/ SimulateApprove(c)
           \/ AwaitApprove(c) \/ Await(c) \/ RpcFails(c)
    PROVE  GasInv'
<1>1. PICK to \in Labels : Go(c, to) /\ to \notin {"simulate", "send"}
  BY DEF ReadAllowance, Preflight, SimulateApprove, AwaitApprove, Await, RpcFails,
         Labels, Final
<1>2. UNCHANGED <<plan, gas, mempool>>
  BY DEF ReadAllowance, Preflight, SimulateApprove, AwaitApprove, Await, RpcFails
<1>3. QED
  BY <1>1, <1>2, MoveStays

LEMMA SendApproveKeeps == ASSUME GasInv, NEW c \in Calls, SendsApprove(c) PROVE GasInv'
<1>1. UNCHANGED <<plan, gas>>
  BY SendingSteps
<1>2. PICK to \in Labels : Go(c, to) /\ to \notin {"simulate", "send"}
  BY SendingSteps DEF Labels, Final
<1>3. pc' \in [Calls -> Labels] /\ Settled' /\ plan' \in Plans /\ gas' \in [Calls -> Nat]
  BY <1>1, <1>2, MoveKeeps
<1>4. CASE UNCHANGED mempool
  BY <1>1, <1>2, <1>4, MoveStays
<1>5. CASE mempool' = [mempool EXCEPT ![Request(c).from] = Append(@, Approval(c))]
  <2>1. Approval(c) \in WithGasForPushes
    BY TransactionTypes, GasFigures DEF GasInv, Places, WithGasForPushes
  <2>2. mempool' \in [Accounts -> Seq(Transactions)] /\ FeePushesHaveGas'
    BY <1>1, <1>5, <2>1, SendKeeps DEF GasInv
  <2>3. plan' = plan /\ plan \in Plans
    BY <1>1 DEF GasInv, Places
  <2>4. QED
    BY <1>3, <2>2, <2>3, GasInvHolds
<1>6. QED
  BY <1>4, <1>5, SendingSteps

LEMMA EstimateKeeps == ASSUME GasInv, NEW c \in Calls, Estimate(c) PROVE GasInv'
<1>1. CASE Go(c, "failed") /\ UNCHANGED gas
  <2>1. "failed" \in Labels /\ UNCHANGED <<plan, gas, mempool>>
    BY <1>1 DEF Estimate, Labels, Final
  <2>2. QED
    BY <1>1, <2>1, MoveStays
<1>2. CASE /\ gas' = [gas EXCEPT ![c] = IF Request(c).kind = "buy"
                                       THEN Erc20GasLimit(Estimated, Request(c).gasLimit)
                                       ELSE WithQuoteTransferHeadroom(Estimated)]
           /\ Go(c, "simulate")
  <2> DEFINE limit == IF Request(c).kind = "buy"
                      THEN Erc20GasLimit(Estimated, Request(c).gasLimit)
                      ELSE WithQuoteTransferHeadroom(Estimated)
  <2>1. Request(c).gasLimit \in Nat
    BY RequestTypes DEF GasInv, Places, Requests
  <2>2. limit \in Nat /\ limit >= TradeGas + PushGas /\ limit # 0
    BY <2>1, CallerOnlyRaises, HeadroomCovers
  <2> HIDE DEF limit
  <2>3. /\ plan' = plan /\ mempool' = mempool /\ Calls' = Calls /\ Native' = Native
        /\ \A d \in Calls : Trade(d)' = Trade(d)
    BY DEF Estimate, Calls, Native, Trade, Request
  <2>4. /\ gas' = [gas EXCEPT ![c] = limit] /\ gas \in [Calls -> Nat]
        /\ pc' = [pc EXCEPT ![c] = "simulate"] /\ pc \in [Calls -> Labels]
    BY <1>2 DEF limit, GasInv, Places, Go
  <2>5. gas' \in [Calls -> Nat] /\ pc' \in [Calls -> Labels]
    BY <2>2, <2>4 DEF Labels
  <2>6. ASSUME ~Native, NEW d \in Calls, Trade(d), pc'[d] \in {"simulate", "send"}
        PROVE  gas'[d] >= TradeGas + PushGas /\ gas'[d] # 0
    BY <2>2, <2>4, <2>6 DEF GasInv, Settled
  <2>7. Settled'
    BY <2>3, <2>6 DEF Settled
  <2>8. mempool' \in [Accounts -> Seq(Transactions)] /\ FeePushesHaveGas' /\ plan \in Plans
    BY <2>3, QueueStays DEF GasInv, Places
  <2>9. QED
    BY <2>3, <2>5, <2>7, <2>8, GasInvHolds
<1>3. QED
  BY <1>1, <1>2 DEF Estimate

LEMMA SimulateKeeps == ASSUME GasInv, NEW c \in Calls, Simulate(c) PROVE GasInv'
<1>1. pc[c] = "simulate" /\ UNCHANGED <<plan, gas, mempool>>
  BY DEF Simulate
<1>2. PICK to \in Labels : Go(c, to)
  BY DEF Simulate, Labels, Final
<1>3. ~Native /\ Trade(c) => gas[c] >= TradeGas + PushGas /\ gas[c] # 0
  BY <1>1 DEF GasInv, Settled
<1>4. QED
  BY <1>1, <1>2, <1>3, MoveStays

LEMMA SendKeepsGas == ASSUME GasInv, NEW c \in Calls, SendsMain(c) PROVE GasInv'
<1> DEFINE tx == Transaction(c, LimitSent(c))
<1>1. UNCHANGED <<plan, gas>> /\ pc[c] = "send"
  BY SendingSteps
<1>2. PICK to \in Labels : Go(c, to) /\ to \notin {"simulate", "send"}
  BY SendingSteps DEF Labels, Final
<1>3. pc' \in [Calls -> Labels] /\ Settled' /\ plan' \in Plans /\ gas' \in [Calls -> Nat]
  BY <1>1, <1>2, MoveKeeps
<1>4. CASE UNCHANGED mempool
  BY <1>1, <1>2, <1>4, MoveStays
<1>5. CASE mempool' = [mempool EXCEPT ![Request(c).from] = Append(@, tx)]
  <2>1. plan \in Plans /\ plan' = plan /\ gas \in [Calls -> Nat]
    BY <1>1 DEF GasInv, Places
  <2>2. LimitSent(c) \in Nat /\ (gas[c] # 0 => LimitSent(c) = gas[c])
    BY <2>1, LimitWhole
  <2>3. ~Native /\ Trade(c) => LimitSent(c) >= TradeGas + PushGas
    BY <1>1, <2>2 DEF GasInv, Settled
  <2>4. tx \in WithGasForPushes
    BY <2>1, <2>2, <2>3, TransactionTypes DEF Trade, WithGasForPushes
  <2> HIDE DEF tx
  <2>5. mempool' \in [Accounts -> Seq(Transactions)] /\ FeePushesHaveGas'
    BY <1>5, <2>1, <2>4, SendKeeps DEF GasInv
  <2>6. QED
    BY <1>3, <2>1, <2>5, GasInvHolds
<1>6. QED
  BY <1>4, <1>5, SendingSteps

LEMMA CallAgainKeeps == ASSUME GasInv, NEW c \in Calls, CallAgain(c) PROVE GasInv'
<1>1. ~Trade(c) /\ Go(c, "simulate") /\ UNCHANGED <<plan, gas, mempool>>
  BY DEF CallAgain, Trade
<1>2. "simulate" \in Labels
  BY DEF Labels
<1>3. QED
  BY <1>1, <1>2, MoveStays

LEMMA MineKeeps == ASSUME GasInv, NEW a \in Accounts, Mine(a) PROVE GasInv'
<1>1. /\ mempool[a] # <<>> /\ mempool' = [mempool EXCEPT ![a] = Tail(@)]
      /\ UNCHANGED <<plan, pc, gas>>
      /\ mempool \in [Accounts -> Seq(Transactions)]
  BY DEF Mine, GasInv, Places
<1>2. Sent(WithGasForPushes, mempool)
  BY <1>1, PushesSent DEF GasInv
<1>3. mempool' \in [Accounts -> Seq(Transactions)] /\ Sent(WithGasForPushes, mempool')
  BY <1>1, <1>2, Removed
<1>4. FeePushesHaveGas'
  BY <1>1, <1>3 DEF FeePushesHaveGas, Sent, WithGasForPushes, Native
<1>5. Settled' /\ Places'
  BY <1>1, <1>3 DEF Settled, Places, GasInv, Native, Calls, Trade, Request
<1>6. QED
  BY <1>4, <1>5 DEF GasInv

LEMMA GasInvStays ==
    ASSUME GasInv, UNCHANGED <<plan, pc, gas, mempool>> PROVE GasInv'
BY DEF GasInv, Places, Settled, FeePushesHaveGas, Native, Calls, Trade, Request

LEMMA InitGasInv == Init => GasInv
<1> SUFFICES ASSUME Init PROVE GasInv
  OBVIOUS
<1>1. /\ plan \in Plans /\ mempool = [a \in Accounts |-> <<>>]
      /\ pc = [c \in Calls |-> "idle"] /\ gas = [c \in Calls |-> 0]
  BY DEF Init
<1>2. Places
  BY <1>1 DEF Places, Labels
<1>3. Settled /\ FeePushesHaveGas
  BY <1>1 DEF Settled, FeePushesHaveGas
<1>4. QED
  BY <1>2, <1>3 DEF GasInv

LEMMA NextGasInv == GasInv /\ [Next]_vars => GasInv'
<1> SUFFICES ASSUME GasInv, [Next]_vars PROVE GasInv'
  OBVIOUS
<1>1. ASSUME NEW c \in Calls, Step(c) PROVE GasInv'
  BY <1>1, StartKeeps, WaitKeeps, SendApproveKeeps, EstimateKeeps, SimulateKeeps,
     SendKeepsGas DEF Step, SendsApprove, SendsMain
<1>2. ASSUME NEW c \in Calls, RpcFails(c) \/ AnswerLost(c) PROVE GasInv'
  BY <1>2, WaitKeeps, SendingSteps, SendApproveKeeps, SendKeepsGas
<1>3. ASSUME NEW c \in Calls, CallAgain(c) PROVE GasInv'
  BY <1>3, CallAgainKeeps
<1>4. ASSUME NEW a \in Accounts, Mine(a) PROVE GasInv'
  BY <1>4, MineKeeps
<1>5. CASE WorldChanges
  BY <1>5, GasInvStays DEF WorldChanges
<1>6. CASE UNCHANGED vars
  BY <1>6, GasInvStays DEF vars
<1>7. QED
  BY <1>1, <1>2, <1>3, <1>4, <1>5, <1>6 DEF Next

\* Every ERC-20 trade that is sent can pay for the fee pushes, whatever happened to
\* them between its estimate and its block.
THEOREM PushesPaid == Spec => []FeePushesHaveGas
<1>1. GasInv => FeePushesHaveGas
  BY DEF GasInv
<1>2. QED
  BY <1>1, InitGasInv, NextGasInv, PTL DEF Spec

-----------------------------------------------------------------------------
(* A buy that graduates the curve with a gas limit its caller chose, with  *)
(* room for the migration, migrates it.  The limit passes through the      *)
(* estimate and its headroom, the simulation and the sending; the          *)
(* invariant is that it never falls below the choice on the way, and that  *)
(* a transaction is the one its call asked for.                            *)

\* The transactions that ask for what their call asks for, with no less gas.
AsChosen ==
    {tx \in Transactions :
        tx.kind # "approve" =>
            /\ tx.call \in Calls
            /\ tx.kind = Request(tx.call).kind
            /\ tx.kind = "buy" => tx.gas >= Request(tx.call).gasLimit}

Kept ==
    \A c \in Calls :
        Request(c).kind = "buy" /\ gas[c] # 0 => gas[c] >= Request(c).gasLimit

\* The records the steps change have the fields they change.
Fielded(s) == {"graduated", "migrated"} \subseteq DOMAIN s

Filed ==
    /\ DOMAIN receipts = Calls
    /\ \A c \in Calls : {"approve", "main"} \subseteq DOMAIN receipts[c]

ChosenInv ==
    /\ GasInv
    /\ Kept
    /\ Sent(AsChosen, mempool)
    /\ Fielded(chain)
    /\ Filed

-----------------------------------------------------------------------------
(* What a graduating transaction does.                                     *)

LEMMA PayFields ==
    ASSUME NEW s, Fielded(s), NEW e, NEW a, NEW n
    PROVE  LET t == Pay(s, e, a, n)
           IN  Fielded(t) /\ t.graduated = s.graduated /\ t.migrated = s.migrated
<1>1. CASE a \in e.blocked
  BY <1>1 DEF Pay, Fielded
<1>2. CASE a \notin e.blocked
  BY <1>2 DEF Pay, Fielded
<1>3. QED
  BY <1>1, <1>2

LEMMA ForwardFields ==
    ASSUME NEW s, Fielded(s)
    PROVE  Fielded(Forward(s)) /\ Forward(s).graduated = s.graduated /\ Forward(s).migrated
BY DEF Forward, Fielded

LEMMA BuyGraduates ==
    ASSUME NEW s, Fielded(s), NEW e, NEW native, NEW tx
    PROVE  LET t == BuyOutcome(s, e, native, tx).chain
           IN  /\ Fielded(t)
               /\ t.graduated /\ ~s.graduated /\ e.migratorUp
                  /\ tx.gas >= GasNeeded(native, e) + InstantMigrationGas => t.migrated
<1> DEFINE q == QuoteBuy(Curve, s.reserve, s.sold, tx.amount)
           migrates == MigratesAtOnce(e, native, tx, q)
           filled == BuyFilled(s, native, tx, q)
           settled == BuySettled(s, e, native, tx, q)
           t == BuyOutcome(s, e, native, tx).chain
<1>1. CASE BuyRefused(s, e, native, tx, q)
  BY <1>1 DEF BuyOutcome, BuyAtQuote, Reverted
<1>2. CASE ~BuyRefused(s, e, native, tx, q)
  <2>1. t = IF migrates THEN Forward(settled) ELSE settled
    BY <1>2 DEF BuyOutcome, BuyAtQuote, Mined
  <2> HIDE DEF q
  <2>2. Fielded(filled) /\ filled.graduated = q.graduates
    BY DEF Fielded, BuyFilled
  <2> HIDE DEF filled
  <2>3. Fielded(settled) /\ settled.graduated = q.graduates
    BY <2>2, PayFields DEF BuySettled, filled
  <2> HIDE DEF settled
  <2>4. Fielded(t) /\ t.graduated = q.graduates /\ (migrates => t.migrated)
    BY <2>1, <2>3, ForwardFields
  <2>5. QED
    BY <2>4 DEF MigratesAtOnce
<1>3. QED
  BY <1>1, <1>2

LEMMA SellFields ==
    ASSUME NEW s, Fielded(s), NEW e, NEW native, NEW tx
    PROVE  LET t == SellOutcome(s, e, native, tx).chain
           IN  Fielded(t) /\ t.graduated = s.graduated
<1> DEFINE q == QuoteSell(Curve, s.reserve, s.sold, tx.amount)
           filled == SellFilled(s, tx, q)
           t == SellOutcome(s, e, native, tx).chain
<1>1. t = IF SellRefused(s, e, native, tx, q) THEN s ELSE Pay(filled, e, tx.from, q.quoteOut)
  BY DEF SellOutcome, SellAtQuote, Reverted, Mined
<1> HIDE DEF q
<1>2. Fielded(filled) /\ filled.graduated = s.graduated
  BY DEF Fielded, SellFilled
<1> HIDE DEF filled
<1>3. QED
  BY <1>1, <1>2, PayFields

LEMMA OtherFields ==
    ASSUME NEW s, Fielded(s), NEW e, NEW native, NEW tx \in Transactions,
           tx.kind \notin {"buy", "sell"}
    PROVE  LET t == Outcome(s, e, native, tx).chain
           IN  Fielded(t) /\ t.graduated = s.graduated
<1>1. CASE tx.kind = "migrate"
  BY <1>1, ForwardFields DEF Outcome, MigrateOutcome, Reverted, Mined
<1>2. CASE tx.kind = "withdraw"
  BY <1>2 DEF Outcome, WithdrawOutcome, Reverted, Mined, Fielded
<1>3. CASE tx.kind = "approve"
  BY <1>3 DEF Outcome, ApproveOutcome, Reverted, Mined, Fielded
<1>4. QED
  BY <1>1, <1>2, <1>3 DEF Transactions

-----------------------------------------------------------------------------
(* The steps.                                                              *)

LEMMA MineMigrates ==
    ASSUME ChosenInv, NEW a \in Accounts, Mine(a)
    PROVE  /\ Sent(AsChosen, mempool') /\ Fielded(chain') /\ Filed'
           /\ \A c \in Calls :
                /\ chain'.graduated /\ ~chain.graduated
                /\ ~receipts[c].main.mined /\ receipts'[c].main.mined
                /\ Request(c).kind = "buy"
                /\ Request(c).gasLimit >= TradeGas + PushGas + InstantMigrationGas
                /\ world.migratorUp
                => chain'.migrated
<1> DEFINE tx == Head(mempool[a])
<1>1. /\ mempool[a] # <<>> /\ mempool \in [Accounts -> Seq(Transactions)]
      /\ mempool' = [mempool EXCEPT ![a] = Tail(@)]
      /\ chain' = Outcome(chain, world, Native, tx).chain
      /\ Sent(AsChosen, mempool) /\ Fielded(chain) /\ Filed /\ plan' = plan
  BY DEF Mine, ChosenInv, GasInv, Places
<1>2. mempool[a] \in Seq(Transactions)
  BY <1>1
<1>3. tx = mempool[a][1] /\ 1 \in DOMAIN mempool[a]
  BY <1>1, <1>2
<1>4. tx \in AsChosen /\ tx \in Transactions
  BY <1>1, <1>3 DEF Sent, AsChosen
<1>5. Sent(AsChosen, mempool')
  BY <1>1, Removed
<1> DEFINE receipt == [mined |-> TRUE, ok |-> Outcome(chain, world, Native, tx).ok,
                       events |-> Outcome(chain, world, Native, tx).events]
<1>6. receipts' = IF tx.kind = "approve"
                  THEN [receipts EXCEPT ![tx.call].approve = receipt]
                  ELSE [receipts EXCEPT ![tx.call].main = receipt]
  BY DEF Mine
<1> HIDE DEF tx, receipt
<1>7. Filed'
  <2>1. Calls' = Calls
    BY <1>1 DEF Calls
  <2>2. QED
    BY <1>1, <1>6, <2>1 DEF Filed
<1>8. CASE tx.kind = "buy"
  <2>1. chain' = BuyOutcome(chain, world, Native, tx).chain
    BY <1>1, <1>8 DEF Outcome
  <2>2. Fielded(chain')
    BY <1>1, <2>1, BuyGraduates
  <2>3. ASSUME NEW c \in Calls, chain'.graduated, ~chain.graduated,
               ~receipts[c].main.mined, receipts'[c].main.mined,
               Request(c).gasLimit >= TradeGas + PushGas + InstantMigrationGas,
               world.migratorUp
        PROVE  chain'.migrated
    <3>1. tx.call = c
      BY <1>1, <1>6, <1>8, <2>3 DEF Filed
    <3>2. tx.gas >= Request(c).gasLimit /\ tx.gas \in Nat
      BY <1>4, <1>8, <3>1 DEF AsChosen, Transactions
    <3>3. Request(c).gasLimit \in Nat
      BY RequestTypes DEF ChosenInv, GasInv, Places, Requests
    <3>4. /\ TradeGas \in Nat /\ PushGas \in Nat /\ InstantMigrationGas \in Nat
          /\ GasNeeded(Native, world) \in Nat
          /\ GasNeeded(Native, world) <= TradeGas + PushGas
      BY ChainAssumption DEF GasNeeded
    <3>5. tx.gas >= GasNeeded(Native, world) + InstantMigrationGas
      BY <2>3, <3>2, <3>3, <3>4
    <3>6. QED
      BY <1>1, <2>1, <2>3, <3>5, BuyGraduates
  <2>4. QED
    BY <1>5, <1>7, <2>2, <2>3
<1>9. CASE tx.kind # "buy"
  <2>1. Fielded(chain') /\ chain'.graduated = chain.graduated
    <3>1. CASE tx.kind = "sell"
      BY <1>1, <3>1, SellFields DEF Outcome
    <3>2. CASE tx.kind # "sell"
      BY <1>1, <1>4, <1>9, <3>2, OtherFields
    <3>3. QED
      BY <3>1, <3>2
  <2>2. QED
    BY <1>5, <1>7, <2>1
<1>10. QED
  BY <1>8, <1>9

LEMMA AsChosenStays ==
    ASSUME plan' = plan
    PROVE  AsChosen' = AsChosen /\ Calls' = Calls /\ \A c \in Calls : Request(c)' = Request(c)
BY DEF AsChosen, Calls, Request

\* The steps that neither settle a limit nor send a transaction.
LEMMA QuietSteps ==
    ASSUME ChosenInv, NEW c \in Calls,
           \/ Start(c) \/ ReadAllowance(c) \/ Preflight(c) \/ SimulateApprove(c)
           \/ AwaitApprove(c) \/ Simulate(c) \/ Await(c) \/ RpcFails(c) \/ CallAgain(c)
    PROVE  (Kept /\ Sent(AsChosen, mempool) /\ Filed)' /\ UNCHANGED chain
<1>1. UNCHANGED <<plan, gas, mempool, chain>>
  BY DEF Start, ReadAllowance, Preflight, SimulateApprove, AwaitApprove, Simulate,
         Await, RpcFails, CallAgain
<1>2. UNCHANGED receipts \/ receipts' = [receipts EXCEPT ![c].main = NoReceipt]
  BY DEF Start, ReadAllowance, Preflight, SimulateApprove, AwaitApprove, Simulate,
         Await, RpcFails, CallAgain
<1>3. Filed'
  BY <1>1, <1>2, AsChosenStays DEF ChosenInv, Filed
<1>4. Kept' /\ Sent(AsChosen, mempool)'
  BY <1>1, AsChosenStays DEF ChosenInv, Kept, Sent
<1>5. QED
  BY <1>1, <1>3, <1>4

LEMMA EstimateKept ==
    ASSUME ChosenInv, NEW c \in Calls, Estimate(c)
    PROVE  (Kept /\ Sent(AsChosen, mempool) /\ Filed)' /\ UNCHANGED chain
<1>1. UNCHANGED <<plan, mempool, chain, receipts>> /\ gas \in [Calls -> Nat] /\ Kept
  BY DEF Estimate, ChosenInv, GasInv, Places
<1>2. Request(c).gasLimit \in Nat
  BY RequestTypes DEF ChosenInv, GasInv, Places, Requests
<1>3. Erc20GasLimit(Estimated, Request(c).gasLimit) >= Request(c).gasLimit
  <2> DEFINE safe == WithQuoteTransferHeadroom(Estimated)
  <2>1. safe \in Nat
    BY HeadroomCovers
  <2>2. Erc20GasLimit(Estimated, Request(c).gasLimit)
            = IF Request(c).gasLimit > safe THEN Request(c).gasLimit ELSE safe
    BY DEF Erc20GasLimit
  <2> HIDE DEF safe
  <2>3. QED
    BY <1>2, <2>1, <2>2
<1>4. \/ UNCHANGED gas
      \/ gas' = [gas EXCEPT ![c] = IF Request(c).kind = "buy"
                                   THEN Erc20GasLimit(Estimated, Request(c).gasLimit)
                                   ELSE WithQuoteTransferHeadroom(Estimated)]
  BY DEF Estimate
<1>5. Kept'
  BY <1>1, <1>3, <1>4, AsChosenStays DEF Kept
<1>6. Sent(AsChosen, mempool)' /\ Filed'
  BY <1>1, AsChosenStays DEF ChosenInv, Sent, Filed
<1>7. QED
  BY <1>1, <1>5, <1>6

LEMMA SendingKept ==
    ASSUME ChosenInv, NEW c \in Calls, SendsApprove(c) \/ SendsMain(c)
    PROVE  (Kept /\ Sent(AsChosen, mempool) /\ Filed)' /\ UNCHANGED chain
<1>1. UNCHANGED <<plan, gas, receipts, chain>> /\ plan \in Plans
  BY SendingSteps DEF ChosenInv, GasInv, Places
<1>2. /\ Request(c).from \in Accounts /\ gas \in [Calls -> Nat]
      /\ mempool \in [Accounts -> Seq(Transactions)] /\ Sent(AsChosen, mempool)
  BY <1>1, RequestTypes DEF ChosenInv, GasInv, Places, Requests
<1>3. Kept' /\ Filed'
  BY <1>1, AsChosenStays DEF ChosenInv, Kept, Filed
<1>4. \/ UNCHANGED mempool
      \/ \E tx \in AsChosen : mempool' = [mempool EXCEPT ![Request(c).from] = Append(@, tx)]
  <2>1. Approval(c) \in AsChosen
    BY <1>1, TransactionTypes DEF AsChosen
  <2>2. Transaction(c, LimitSent(c)) \in AsChosen
    <3>1. /\ LimitSent(c) \in Nat
          /\ Request(c).kind = "buy" => LimitSent(c) >= Request(c).gasLimit
      BY <1>1, <1>2, LimitWhole DEF ChosenInv, Kept
    <3>2. Transaction(c, LimitSent(c)).call = c
      BY DEF Transaction
    <3>3. QED
      BY <1>1, <3>1, <3>2, TransactionTypes DEF AsChosen
  <2>3. QED
    BY <2>1, <2>2, SendingSteps
<1>5. Sent(AsChosen, mempool)'
  <2>1. CASE UNCHANGED mempool
    BY <1>1, <1>2, <2>1, AsChosenStays DEF Sent
  <2>2. CASE \E tx \in AsChosen :
                 mempool' = [mempool EXCEPT ![Request(c).from] = Append(@, tx)]
    <3>1. PICK tx \in AsChosen :
              mempool' = [mempool EXCEPT ![Request(c).from] = Append(@, tx)]
      BY <2>2
    <3>2. tx \in Transactions
      BY DEF AsChosen
    <3>3. Sent(AsChosen, mempool')
      BY <1>2, <3>1, <3>2, Appended
    <3>4. QED
      BY <1>1, <3>3, AsChosenStays DEF Sent
  <2>3. QED
    BY <1>4, <2>1, <2>2
<1>6. QED
  BY <1>1, <1>3, <1>5

LEMMA InitChosen == Init => ChosenInv
<1> SUFFICES ASSUME Init PROVE ChosenInv
  OBVIOUS
<1>1. /\ chain = Genesis /\ mempool = [a \in Accounts |-> <<>>]
      /\ receipts = [c \in Calls |-> [approve |-> NoReceipt, main |-> NoReceipt]]
      /\ gas = [c \in Calls |-> 0]
  BY DEF Init
<1>2. Kept /\ Sent(AsChosen, mempool) /\ Fielded(chain) /\ Filed
  BY <1>1 DEF Kept, Sent, Fielded, Filed, Genesis
<1>3. QED
  BY <1>2, InitGasInv DEF ChosenInv

\* The step that ChosenGasMigrates is about, for one call.
Migrates(c) ==
    /\ chain'.graduated /\ ~chain.graduated
    /\ ~receipts[c].main.mined /\ receipts'[c].main.mined
    /\ Request(c).kind = "buy"
    /\ Request(c).gasLimit >= TradeGas + PushGas + InstantMigrationGas
    /\ world.migratorUp
    => chain'.migrated

LEMMA NextChosen ==
    ChosenInv /\ [Next]_vars => ChosenInv' /\ \A c \in Calls : Migrates(c)
<1> SUFFICES ASSUME ChosenInv, [Next]_vars
             PROVE  ChosenInv' /\ \A c \in Calls : Migrates(c)
  OBVIOUS
<1>1. GasInv'
  BY NextGasInv DEF ChosenInv
<1>2. ASSUME (Kept /\ Sent(AsChosen, mempool) /\ Filed)', UNCHANGED chain
      PROVE  ChosenInv' /\ \A c \in Calls : Migrates(c)
  BY <1>1, <1>2 DEF ChosenInv, Fielded, Migrates
<1>3. ASSUME NEW c \in Calls, Step(c) \/ RpcFails(c) \/ AnswerLost(c) \/ CallAgain(c)
      PROVE  (Kept /\ Sent(AsChosen, mempool) /\ Filed)' /\ UNCHANGED chain
  BY <1>3, QuietSteps, EstimateKept, SendingKept, SendingSteps DEF Step, SendsApprove, SendsMain
<1>4. CASE WorldChanges \/ UNCHANGED vars
  <2>1. UNCHANGED <<plan, gas, mempool, chain, receipts>>
    BY <1>4 DEF WorldChanges, vars
  <2>2. (Kept /\ Sent(AsChosen, mempool) /\ Filed)'
    BY <2>1, AsChosenStays DEF ChosenInv, Kept, Sent, Filed
  <2>3. QED
    BY <1>2, <2>1, <2>2
<1>5. ASSUME NEW a \in Accounts, Mine(a)
      PROVE  ChosenInv' /\ \A c \in Calls : Migrates(c)
  <2>1. /\ Sent(AsChosen, mempool') /\ Fielded(chain') /\ Filed'
        /\ \A c \in Calls : Migrates(c)
    BY <1>5, MineMigrates DEF Migrates
  <2>2. plan' = plan /\ gas' = gas
    BY <1>5 DEF Mine
  <2>3. Kept' /\ Sent(AsChosen, mempool)'
    BY <2>1, <2>2, AsChosenStays DEF ChosenInv, Kept, Sent
  <2>4. QED
    BY <1>1, <2>1, <2>3 DEF ChosenInv
<1>6. QED
  BY <1>2, <1>3, <1>4, <1>5 DEF Next

\* The buy whose caller left room for the migration migrates the curve it graduates.
THEOREM ChosenGasSuffices == Spec => ChosenGasMigrates
<1>1. ChosenInv /\ [Next]_vars => [\A c \in Calls : Migrates(c)]_vars
  BY NextChosen
<1>2. QED
  BY <1>1, InitChosen, NextChosen, PTL DEF Spec, ChosenGasMigrates, Migrates

-----------------------------------------------------------------------------
(* The figures of a quote are whole where the source does not refuse.      *)

LEMMA FeeWhole == ASSUME NEW a \in Int, NEW bps \in Int PROVE FeeUp(a, bps) \in Int
<1>1. a * bps \in Int
  OBVIOUS
<1> DEFINE n == a * bps
<1>2. \A m \in Int : (m + 9999) \div 10000 \in Int
  OBVIOUS
<1>3. FeeUp(a, bps) = (n + 9999) \div 10000
  BY DEF FeeUp, BpsDenominator
<1> HIDE DEF n
<1>4. QED
  BY <1>1, <1>2, <1>3 DEF n

LEMMA CurveWhole ==
    /\ Curve.r0 \in Nat /\ Curve.y0 \in Nat /\ Curve.supply \in Nat
    /\ Curve.target \in Nat /\ Curve.feeBps \in Nat
BY ChainAssumption DEF CurveRecord

LEMMA ReserveWhole ==
    ASSUME NEW y \in Int, y > 0 PROVE UsdcReserveAt(Curve.r0, Curve.y0, y) \in Nat
<1>1. y \in Nat \ {0}
  OBVIOUS
<1>2. QED
  BY <1>1, CurveWhole, MulDivUpCovers DEF UsdcReserveAt

LEMMA PositionWhole ==
    ASSUME NEW r \in Int, NEW s \in Int, ~PositionReverts(Curve, r, s)
    PROVE  Curve.y0 - s \in Int /\ Curve.y0 - s > 0
BY CurveWhole DEF PositionReverts

LEMMA CapWhole ==
    ASSUME NEW r \in Int, NEW s \in Int, NEW d, ~BuyReverts(Curve, r, s, d)
    PROVE  MaxNetIn(Curve, r, s) \in Int
<1> DEFINE left == Remaining(Curve, s)
           y == Curve.y0 - s
<1>1. y \in Int /\ y > 0
  BY PositionWhole DEF BuyReverts
<1>2. left \in Nat
  BY CurveWhole DEF Remaining, Monus
<1>3. Headroom(Curve, r) \in Nat
  BY CurveWhole DEF Headroom, Monus
<1>4. left # 0 => left < y
  BY <1>1, <1>2 DEF BuyReverts
<1> HIDE DEF left, y
<1>5. CASE left = 0
  BY <1>5 DEF MaxNetIn, left
<1>6. CASE left # 0
  <2>1. y - left \in Nat \ {0} /\ y \in Nat \ {0}
    BY <1>1, <1>2, <1>4, <1>6
  <2>2. MulDivUp(Curve.r0, Curve.y0, y - left) \in Nat
    BY <2>1, CurveWhole, MulDivUpCovers
  <2>3. UsdcReserveAt(Curve.r0, Curve.y0, y) \in Nat
    BY <1>1, ReserveWhole
  <2>4. UsdcInForTokensOut(Curve.r0, Curve.y0, y, left) \in Int
    BY <2>2, <2>3 DEF UsdcInForTokensOut
  <2>5. MaxNetIn(Curve, r, s)
            = Least(Headroom(Curve, r), UsdcInForTokensOut(Curve.r0, Curve.y0, y, left))
    BY <1>6 DEF MaxNetIn, left, y
  <2>6. QED
    BY <1>3, <2>4, <2>5 DEF Least
<1>7. QED
  BY <1>5, <1>6

LEMMA GrossWhole ==
    ASSUME NEW n \in Int, NEW bps \in Nat, bps < BpsDenominator
    PROVE  GrossForNetUp(n, bps) \in Int
<1> DEFINE d == BpsDenominator - bps
           m == n * BpsDenominator + (BpsDenominator - bps - 1)
<1>1. d \in Int /\ d > 0 /\ m \in Int
  BY DEF BpsDenominator
<1>2. GrossForNetUp(n, bps) = m \div d
  BY DEF GrossForNetUp
<1> HIDE DEF d, m
<1>3. m \div d \in Int
  BY <1>1
<1>4. QED
  BY <1>2, <1>3

LEMMA BuyWhole ==
    ASSUME NEW r \in Int, NEW s \in Int, NEW d \in Nat, ~BuyReverts(Curve, r, s, d)
    PROVE  LET q == QuoteBuy(Curve, r, s, d)
           IN  /\ q.spent \in Int /\ q.fee \in Int
               /\ q.newReserve \in Int /\ q.newSold \in Int
<1> DEFINE q == QuoteBuy(Curve, r, s, d)
           cap == MaxNetIn(Curve, r, s)
           asked == d - FeeUp(d, Curve.feeBps)
           net == IF asked > cap THEN cap ELSE asked
           gross == IF asked > cap THEN GrossForNetUp(cap, Curve.feeBps) ELSE d
<1>1. cap \in Int
  BY CapWhole
<1>2. asked \in Int
  <2>1. d \in Int /\ Curve.feeBps \in Int
    BY CurveWhole
  <2>2. FeeUp(d, Curve.feeBps) \in Int
    BY <2>1, FeeWhole
  <2>3. QED
    BY <2>1, <2>2
<1>3. asked > cap => Curve.feeBps < BpsDenominator
  BY CurveWhole DEF BuyReverts, BpsDenominator
<1>4. q.spent = gross /\ q.fee = gross - net /\ q.newReserve = r + net
      /\ q.newSold = s + q.tokensOut
  BY DEF QuoteBuy
<1>5. q.tokensOut \in 0 .. U256Max
  BY DEF BuyReverts, BuyOverflows, Fits
<1> HIDE DEF q, cap, asked
<1>6. gross \in Int
  BY <1>1, <1>3, CurveWhole, GrossWhole
<1>7. net \in Int
  BY <1>1, <1>2
<1> HIDE DEF gross, net
<1>8. QED
  BY <1>4, <1>5, <1>6, <1>7, U256Assumption DEF q

LEMMA SellWhole ==
    ASSUME NEW r \in Int, NEW s \in Int, NEW t \in Nat, ~SellReverts(Curve, r, s, t)
    PROVE  LET q == QuoteSell(Curve, r, s, t)
           IN  /\ t <= s
               /\ q.gross \in Int /\ q.fee \in Int /\ q.quoteOut = q.gross - q.fee
               /\ q.newReserve \in Int /\ q.newSold \in Int
<1> DEFINE q == QuoteSell(Curve, r, s, t)
           y == Curve.y0 - s
           gross == UsdcOutForTokensIn(Curve.r0, Curve.y0, y, t)
<1>1. y \in Int /\ y > 0
  BY PositionWhole DEF SellReverts
<1>2. y \in Nat \ {0} /\ y + t \in Nat \ {0}
  BY <1>1
<1>3. UsdcReserveAt(Curve.r0, Curve.y0, y) \in Nat
  BY <1>1, ReserveWhole
<1>4. MulDivUp(Curve.r0, Curve.y0, y + t) \in Nat
  BY <1>2, CurveWhole, MulDivUpCovers
<1>5. gross \in Int
  BY <1>3, <1>4 DEF UsdcOutForTokensIn
<1>6. /\ q.gross = gross /\ q.fee = FeeUp(gross, Curve.feeBps)
      /\ q.quoteOut = q.gross - q.fee
      /\ q.newReserve = r - gross /\ q.newSold = s - t
  BY DEF QuoteSell
<1>7. t <= s
  BY DEF SellReverts
<1> HIDE DEF q, y, gross
<1>8. FeeUp(gross, Curve.feeBps) \in Int
  <2>1. Curve.feeBps \in Int
    BY CurveWhole
  <2>2. QED
    BY <1>5, <2>1, FeeWhole
<1>9. q.gross \in Int /\ q.fee \in Int /\ q.newReserve \in Int /\ q.newSold \in Int
  BY <1>5, <1>6, <1>8
<1>10. QED
  BY <1>6, <1>7, <1>9 DEF q

-----------------------------------------------------------------------------
(* What the calls report is what they did: a ledger over all the accounts.  *)

(* Totals over finite sets.  A total is a recursive function's value, so    *)
(* that it exists, that any member may be taken out of it, and that it      *)
(* changes by what one entry changes by, are each the absence of a least    *)
(* set for which they fail.                                                 *)

Pick(s) == CHOOSE x \in s : TRUE

SumsOf(f, S, g) ==
    g = [s \in SUBSET S |-> IF s = {} THEN 0 ELSE f[Pick(s)] + g[s \ {Pick(s)}]]

LEMMA TotalIs == ASSUME NEW f, NEW S PROVE Total(f, S) = (CHOOSE g : SumsOf(f, S, g))[S]
BY DEF Total, MapThenSumSet, MapThenFoldSet, SumsOf, Pick

LEMMA LeastSet ==
    ASSUME NEW S, IsFiniteSet(S), NEW B \in SUBSET SUBSET S, B # {}
    PROVE  \E T \in B : \A U \in SUBSET T : U \in B => U = T
<1>1. IsWellFoundedOn(StrictSubsetOrdering(S), SUBSET S)
  BY FS_StrictSubsetOrderingWellFounded, FS_FiniteSubsetsOfFinite
<1>2. PICK T \in B : \A U \in B : ~(<<U, T>> \in StrictSubsetOrdering(S))
  BY <1>1, WFMin
<1>3. QED
  BY <1>2 DEF StrictSubsetOrdering

LEMMA PickIn == ASSUME NEW s, s # {} PROVE Pick(s) \in s
BY DEF Pick

LEMMA SumsAgree ==
    ASSUME NEW f, NEW S, NEW T, IsFiniteSet(S), NEW g, NEW h,
           SumsOf(f, S, g), SumsOf(f, T, h), NEW w \in SUBSET S, w \in SUBSET T
    PROVE  g[w] = h[w]
<1> DEFINE Bad == {s \in SUBSET S : s \in SUBSET T /\ g[s] # h[s]}
<1>1. Bad \in SUBSET SUBSET S
  OBVIOUS
<1> HIDE DEF Bad
<1>2. ASSUME Bad # {} PROVE FALSE
  <2>2. PICK b \in Bad : \A u \in SUBSET b : u \in Bad => u = b
    BY <1>1, <1>2, LeastSet
  <2>3. b \in SUBSET S /\ b \in SUBSET T /\ g[b] # h[b]
    BY DEF Bad
  <2>4. b # {}
    BY <2>3 DEF SumsOf
  <2>5. Pick(b) \in b
    BY <2>4, PickIn
  <2> DEFINE u == b \ {Pick(b)}
  <2>6. u \in SUBSET S /\ u \in SUBSET T /\ u # b
    BY <2>3, <2>5
  <2>7. g[u] = h[u]
    BY <2>2, <2>6 DEF Bad
  <2>8. g[b] = f[Pick(b)] + g[u] /\ h[b] = f[Pick(b)] + h[u]
    BY <2>3, <2>4 DEF SumsOf
  <2>9. QED
    BY <2>3, <2>7, <2>8
<1>3. QED
  BY <1>2 DEF Bad

LEMMA SumsExist ==
    ASSUME NEW f, NEW S, IsFiniteSet(S)
    PROVE  \E g : SumsOf(f, S, g)
<1> DEFINE Bad == {s \in SUBSET S : ~\E g : SumsOf(f, s, g)}
<1>1. Bad \in SUBSET SUBSET S
  OBVIOUS
<1> HIDE DEF Bad
<1>2. ASSUME Bad # {} PROVE FALSE
  <2>2. PICK b \in Bad : \A u \in SUBSET b : u \in Bad => u = b
    BY <1>1, <1>2, LeastSet
  <2> DEFINE F(u) == CHOOSE g : SumsOf(f, u, g)
             V(s) == IF s = {} THEN 0 ELSE f[Pick(s)] + F(s \ {Pick(s)})[s \ {Pick(s)}]
             G == [s \in SUBSET b |-> V(s)]
  <2>3. ASSUME NEW u \in SUBSET b, u # b PROVE SumsOf(f, u, F(u))
    <3>1. \E g : SumsOf(f, u, g)
      BY <2>2, <2>3 DEF Bad
    <3>2. QED
      BY <3>1
  <2>4. ASSUME NEW u \in SUBSET b, u # b PROVE V(u) = F(u)[u]
    <3>1. SumsOf(f, u, F(u))
      BY <2>3, <2>4
    <3> HIDE DEF F
    <3>2. CASE u = {}
      BY <3>1, <3>2 DEF SumsOf
    <3>3. CASE u # {}
      <4> DEFINE v == u \ {Pick(u)}
      <4>1. Pick(u) \in u
        BY <3>3, PickIn
      <4>2. v \in SUBSET b /\ v # b /\ v \in SUBSET u
        BY <4>1
      <4>3. SumsOf(f, v, F(v))
        BY <2>3, <4>2
      <4>4. IsFiniteSet(v)
        BY <2>2, FS_Subset, IsFiniteSet(S) DEF Bad
      <4> HIDE DEF v
      <4>5. F(u)[v] = F(v)[v]
        BY <3>1, <4>2, <4>3, <4>4, SumsAgree
      <4>6. F(u)[u] = f[Pick(u)] + F(u)[v]
        BY <3>1, <3>3 DEF SumsOf, v
      <4>7. QED
        BY <3>3, <4>5, <4>6 DEF v
    <3>4. QED
      BY <3>2, <3>3
  <2> HIDE DEF F
  <2>5. ASSUME NEW s \in SUBSET b, s # {}
        PROVE  G[s] = f[Pick(s)] + G[s \ {Pick(s)}]
    <3> DEFINE u == s \ {Pick(s)}
    <3>1. Pick(s) \in s
      BY <2>5, PickIn
    <3>2. u \in SUBSET b /\ u # b
      BY <3>1
    <3>3. V(s) = f[Pick(s)] + F(u)[u]
      BY <2>5
    <3> HIDE DEF V
    <3>4. G[u] = V(u) /\ G[s] = V(s)
      BY <3>2
    <3>5. V(u) = F(u)[u]
      BY <2>4, <3>2
    <3>6. QED
      BY <3>3, <3>4, <3>5
  <2>6. G[{}] = 0
    OBVIOUS
  <2> DEFINE H == [s \in SUBSET b |-> IF s = {} THEN 0 ELSE f[Pick(s)] + G[s \ {Pick(s)}]]
  <2>7. \A s \in SUBSET b : G[s] = H[s]
    BY <2>5, <2>6
  <2>8. G = H
    BY <2>7
  <2>9. SumsOf(f, b, G)
    BY <2>8 DEF SumsOf
  <2>10. QED
    BY <2>2, <2>9 DEF Bad
<1>3. QED
  BY <1>2 DEF Bad

LEMMA TotalUnfolds ==
    ASSUME NEW f, NEW S, IsFiniteSet(S)
    PROVE  Total(f, S) = IF S = {} THEN 0 ELSE f[Pick(S)] + Total(f, S \ {Pick(S)})
<1> DEFINE F(u) == CHOOSE g : SumsOf(f, u, g)
<1>1. SumsOf(f, S, F(S))
  BY SumsExist
<1>2. Total(f, S) = F(S)[S]
  BY TotalIs
<1>3. CASE S = {}
  <2> HIDE DEF F
  <2>1. QED
    BY <1>1, <1>2, <1>3 DEF SumsOf
<1>4. CASE S # {}
  <2> DEFINE u == S \ {Pick(S)}
  <2>1. IsFiniteSet(u)
    BY FS_Subset
  <2>2. SumsOf(f, u, F(u))
    BY <2>1, SumsExist
  <2>3. Total(f, u) = F(u)[u]
    BY TotalIs
  <2> HIDE DEF F
  <2>4. F(S)[u] = F(u)[u]
    BY <1>1, <2>1, <2>2, SumsAgree
  <2>5. F(S)[S] = f[Pick(S)] + F(S)[u]
    BY <1>1, <1>4 DEF SumsOf
  <2>6. QED
    BY <1>2, <1>4, <2>3, <2>4, <2>5
<1>5. QED
  BY <1>3, <1>4

LEMMA TotalWhole ==
    ASSUME NEW S, IsFiniteSet(S), NEW f, \A x \in S : f[x] \in Int
    PROVE  Total(f, S) \in Int
<1> DEFINE Bad == {s \in SUBSET S : Total(f, s) \notin Int}
<1>1. Bad \in SUBSET SUBSET S
  OBVIOUS
<1> HIDE DEF Bad
<1>2. ASSUME Bad # {} PROVE FALSE
  <2>1. PICK b \in Bad : \A u \in SUBSET b : u \in Bad => u = b
    BY <1>1, <1>2, LeastSet
  <2>2. b \in SUBSET S /\ IsFiniteSet(b) /\ Total(f, b) \notin Int
    BY FS_Subset DEF Bad
  <2>3. b # {}
    <3>1. ASSUME b = {} PROVE FALSE
      <4>1. Total(f, b) = 0
        BY <2>2, <3>1, TotalUnfolds
      <4>2. QED
        BY <2>2, <4>1
    <3>2. QED
      BY <3>1
  <2>4. Pick(b) \in b
    BY <2>3, PickIn
  <2> DEFINE u == b \ {Pick(b)}
  <2>5. Total(f, u) \in Int
    BY <2>1, <2>2, <2>4 DEF Bad
  <2>6. Total(f, b) = f[Pick(b)] + Total(f, u)
    BY <2>2, <2>3, TotalUnfolds
  <2> HIDE DEF u
  <2>7. f[Pick(b)] \in Int
    BY <2>2, <2>4
  <2>8. QED
    BY <2>2, <2>5, <2>6, <2>7
<1>3. QED
  BY <1>2 DEF Bad

\* Any member may be taken out.
LEMMA TotalWithout ==
    ASSUME NEW S, IsFiniteSet(S), NEW f, \A x \in S : f[x] \in Int, NEW a \in S
    PROVE  Total(f, S) = f[a] + Total(f, S \ {a})
<1> DEFINE Bad == {s \in SUBSET S : \E x \in s : Total(f, s) # f[x] + Total(f, s \ {x})}
<1>1. Bad \in SUBSET SUBSET S
  OBVIOUS
<1> HIDE DEF Bad
<1>2. ASSUME Bad # {} PROVE FALSE
  <2>1. PICK b \in Bad : \A u \in SUBSET b : u \in Bad => u = b
    BY <1>1, <1>2, LeastSet
  <2>2. PICK x \in b : Total(f, b) # f[x] + Total(f, b \ {x})
    BY DEF Bad
  <2>3. b \in SUBSET S /\ IsFiniteSet(b)
    BY FS_Subset DEF Bad
  <2> DEFINE p == Pick(b)
             u == b \ {p}
             v == b \ {x}
             w == (b \ {p}) \ {x}
  <2>4. p \in b
    BY PickIn
  <2>5. Total(f, b) = f[p] + Total(f, u)
    BY <2>3, TotalUnfolds
  <2>6. p # x
    BY <2>2, <2>5
  <2>7. u \in SUBSET S /\ u \in SUBSET b /\ u # b /\ x \in u
    BY <2>3, <2>4, <2>6
  <2>8. v \in SUBSET S /\ v \in SUBSET b /\ v # b /\ p \in v
    BY <2>2, <2>3, <2>4, <2>6
  <2>9. u \notin Bad /\ v \notin Bad
    BY <2>1, <2>7, <2>8
  <2>10. Total(f, u) = f[x] + Total(f, w)
    BY <2>7, <2>9 DEF Bad
  <2>11. Total(f, v) = f[p] + Total(f, w)
    <3>1. v \ {p} = w
      OBVIOUS
    <3>2. QED
      BY <2>8, <2>9, <3>1 DEF Bad
  <2>12. f[p] \in Int /\ f[x] \in Int /\ Total(f, w) \in Int
    <3>1. w \in SUBSET S
      BY <2>3
    <3>2. IsFiniteSet(w) /\ \A y \in w : f[y] \in Int
      BY <3>1, FS_Subset
    <3> HIDE DEF w
    <3>3. Total(f, w) \in Int
      BY <3>2, TotalWhole
    <3>4. QED
      BY <2>3, <2>4, <3>3
  <2> HIDE DEF u, v, w, p
  <2>13. QED
    BY <2>2, <2>5, <2>10, <2>11, <2>12 DEF v
<1>3. QED
  BY <1>2 DEF Bad

LEMMA TotalSame ==
    ASSUME NEW S, IsFiniteSet(S), NEW f, NEW g, \A x \in S : f[x] = g[x]
    PROVE  Total(f, S) = Total(g, S)
<1> DEFINE Bad == {s \in SUBSET S : Total(f, s) # Total(g, s)}
<1>1. Bad \in SUBSET SUBSET S
  OBVIOUS
<1> HIDE DEF Bad
<1>2. ASSUME Bad # {} PROVE FALSE
  <2>1. PICK b \in Bad : \A u \in SUBSET b : u \in Bad => u = b
    BY <1>1, <1>2, LeastSet
  <2>2. b \in SUBSET S /\ IsFiniteSet(b) /\ Total(f, b) # Total(g, b)
    BY FS_Subset DEF Bad
  <2>3. b # {}
    BY <2>2, TotalUnfolds
  <2>4. Pick(b) \in b
    BY <2>3, PickIn
  <2> DEFINE u == b \ {Pick(b)}
  <2>5. Total(f, u) = Total(g, u)
    BY <2>1, <2>2, <2>4 DEF Bad
  <2>6. Total(f, b) = f[Pick(b)] + Total(f, u) /\ Total(g, b) = g[Pick(b)] + Total(g, u)
    BY <2>2, <2>3, TotalUnfolds
  <2>7. QED
    BY <2>2, <2>4, <2>5, <2>6
<1>3. QED
  BY <1>2 DEF Bad

\* Changing one entry changes the total by as much.
LEMMA TotalChanged ==
    ASSUME NEW S, IsFiniteSet(S), NEW f, NEW g, NEW a,
           \A x \in S : f[x] \in Int /\ g[x] \in Int, \A x \in S \ {a} : f[x] = g[x]
    PROVE  Total(g, S) = Total(f, S) + (IF a \in S THEN g[a] - f[a] ELSE 0)
<1>1. CASE a \in S
  <2> DEFINE T == S \ {a}
  <2>1. IsFiniteSet(T)
    BY FS_Subset
  <2>2. Total(f, S) = f[a] + Total(f, T)
    BY <1>1, TotalWithout
  <2>3. Total(g, S) = g[a] + Total(g, T)
    BY <1>1, TotalWithout
  <2>4. Total(f, T) = Total(g, T)
    BY <2>1, TotalSame
  <2>5. Total(f, T) \in Int
    BY <2>1, TotalWhole
  <2> HIDE DEF T
  <2>6. QED
    BY <1>1, <2>2, <2>3, <2>4, <2>5
<1>2. CASE a \notin S
  <2>1. Total(g, S) = Total(f, S) /\ Total(f, S) \in Int
    BY <1>2, TotalSame, TotalWhole
  <2>2. QED
    BY <1>2, <2>1
<1>3. QED
  BY <1>1, <1>2

LEMMA TotalOfSame ==
    ASSUME NEW S, IsFiniteSet(S), NEW n \in Int, NEW f, \A x \in S : f[x] = n
    PROVE  Total(f, S) = n * Cardinality(S)
<1> DEFINE Bad == {s \in SUBSET S : Total(f, s) # n * Cardinality(s)}
<1>1. Bad \in SUBSET SUBSET S
  OBVIOUS
<1> HIDE DEF Bad
<1>2. ASSUME Bad # {} PROVE FALSE
  <2>1. PICK b \in Bad : \A u \in SUBSET b : u \in Bad => u = b
    BY <1>1, <1>2, LeastSet
  <2>2. b \in SUBSET S /\ IsFiniteSet(b) /\ Total(f, b) # n * Cardinality(b)
    BY FS_Subset DEF Bad
  <2>3. b # {}
    <3>1. ASSUME b = {} PROVE FALSE
      <4>1. Total(f, b) = 0 /\ Cardinality(b) = 0
        BY <2>2, <3>1, TotalUnfolds, FS_EmptySet
      <4>2. QED
        BY <2>2, <4>1
    <3>2. QED
      BY <3>1
  <2>4. Pick(b) \in b
    BY <2>3, PickIn
  <2> DEFINE u == b \ {Pick(b)}
  <2>5. Total(f, u) = n * Cardinality(u)
    BY <2>1, <2>2, <2>4 DEF Bad
  <2>6. Total(f, b) = n + Total(f, u)
    BY <2>2, <2>3, <2>4, TotalUnfolds
  <2>7. Cardinality(u) = Cardinality(b) - 1 /\ Cardinality(b) \in Nat /\ Cardinality(u) \in Nat
    BY <2>2, <2>4, FS_RemoveElement, FS_CardinalityType
  <2> HIDE DEF u
  <2>8. n * Cardinality(b) = n + n * Cardinality(u)
    <3> DEFINE k == Cardinality(u)
    <3>1. k \in Nat /\ Cardinality(b) = k + 1
      BY <2>7
    <3> HIDE DEF k
    <3>2. n * (k + 1) = n + n * k
      BY <3>1
    <3>3. QED
      BY <3>1, <3>2 DEF k
  <2>9. QED
    BY <2>2, <2>5, <2>6, <2>8
<1>3. QED
  BY <1>2 DEF Bad

\* Only what is not nothing counts.
LEMMA TotalWithin ==
    ASSUME NEW S, IsFiniteSet(S), NEW f, \A x \in S : f[x] \in Int,
           NEW T \in SUBSET S, \A x \in S \ T : f[x] = 0
    PROVE  Total(f, S) = Total(f, T)
<1> DEFINE Bad == {s \in SUBSET S : Total(f, s) # Total(f, s \cap T)}
<1>1. Bad \in SUBSET SUBSET S
  OBVIOUS
<1> HIDE DEF Bad
<1>2. ASSUME Bad # {} PROVE FALSE
  <2>1. PICK b \in Bad : \A u \in SUBSET b : u \in Bad => u = b
    BY <1>1, <1>2, LeastSet
  <2>2. b \in SUBSET S /\ IsFiniteSet(b) /\ Total(f, b) # Total(f, b \cap T)
    BY FS_Subset DEF Bad
  <2>3. PICK x \in b : x \notin T
    <3>1. b # b \cap T
      BY <2>2
    <3>2. QED
      BY <3>1
  <2> DEFINE u == b \ {x}
  <2>4. Total(f, u) = Total(f, u \cap T) /\ u \cap T = b \cap T
    BY <2>1, <2>2, <2>3 DEF Bad
  <2>5. Total(f, b) = f[x] + Total(f, u)
    BY <2>2, TotalWithout
  <2>6. f[x] = 0
    BY <2>2, <2>3
  <2>7. Total(f, u) \in Int
    <3>1. IsFiniteSet(u) /\ u \subseteq S
      BY <2>2, FS_Subset
    <3>2. QED
      BY <3>1, TotalWhole
  <2>8. Total(f, u) = Total(f, b \cap T)
    BY <2>4
  <2> HIDE DEF u
  <2>9. QED
    BY <2>2, <2>5, <2>6, <2>7, <2>8
<1>3. S \cap T = T
  OBVIOUS
<1>4. QED
  BY <1>2, <1>3 DEF Bad

LEMMA TotalOfBoth ==
    ASSUME NEW S, IsFiniteSet(S), NEW f, NEW g, \A x \in S : f[x] \in Int /\ g[x] \in Int
    PROVE  Total(f, S) + Total(g, S) = Total([x \in S |-> f[x] + g[x]], S)
<1> DEFINE h == [x \in S |-> f[x] + g[x]]
           Bad == {s \in SUBSET S : Total(f, s) + Total(g, s) # Total(h, s)}
<1>1. Bad \in SUBSET SUBSET S
  OBVIOUS
<1>2. \A x \in S : h[x] = f[x] + g[x] /\ h[x] \in Int
  OBVIOUS
<1> HIDE DEF Bad, h
<1>3. ASSUME Bad # {} PROVE FALSE
  <2>1. PICK b \in Bad : \A u \in SUBSET b : u \in Bad => u = b
    BY <1>1, <1>3, LeastSet
  <2>2. b \in SUBSET S /\ IsFiniteSet(b) /\ Total(f, b) + Total(g, b) # Total(h, b)
    BY FS_Subset DEF Bad
  <2>3. PICK x \in b : TRUE
    <3>1. ASSUME b = {} PROVE FALSE
      <4>1. Total(f, b) = 0 /\ Total(g, b) = 0 /\ Total(h, b) = 0
        BY <2>2, <3>1, TotalUnfolds
      <4>2. QED
        BY <2>2, <4>1
    <3>2. QED
      BY <3>1
  <2> DEFINE u == b \ {x}
  <2>4. Total(f, u) + Total(g, u) = Total(h, u)
    BY <2>1, <2>2, <2>3 DEF Bad
  <2>5. \A y \in b : f[y] \in Int /\ g[y] \in Int /\ h[y] \in Int
    BY <1>2, <2>2
  <2>6. /\ Total(f, b) = f[x] + Total(f, u) /\ Total(g, b) = g[x] + Total(g, u)
        /\ Total(h, b) = h[x] + Total(h, u)
    BY <2>2, <2>5, TotalWithout
  <2>7. Total(f, u) \in Int /\ Total(g, u) \in Int
    <3>1. IsFiniteSet(u) /\ u \subseteq b
      BY <2>2, FS_Subset
    <3>2. QED
      BY <2>5, <3>1, TotalWhole
  <2> HIDE DEF u
  <2>8. f[x] \in Int /\ g[x] \in Int /\ h[x] = f[x] + g[x]
    BY <1>2, <2>2
  <2>9. QED
    BY <2>2, <2>4, <2>6, <2>7, <2>8
<1>4. QED
  BY <1>3 DEF Bad, h

-----------------------------------------------------------------------------
(* What a mined transaction does to the figures of the chain.              *)

\* The chain has all its figures, each of them whole.
Figures(s) ==
    /\ {"reserve", "sold", "graduated", "migrated", "custody", "fees", "forwarded",
        "balance", "tokens", "allowance", "pending"} \subseteq DOMAIN s
    /\ s.reserve \in Int /\ s.sold \in Int
    /\ s.custody \in Int /\ s.fees \in Int /\ s.forwarded \in Int
    /\ s.balance \in [Accounts -> Int] /\ s.pending \in [Accounts -> Int]
    /\ s.tokens \in [Accounts -> Int] /\ s.allowance \in [Accounts -> Int]

Held(s) == s.custody + s.fees + s.forwarded
Worth(s) == [x \in Accounts |-> s.balance[x] + s.pending[x]]

\* What a receipt's events say its transaction paid, bought and withdrew.
Paid(kind, e) == IF kind = "buy" THEN e.quote ELSE IF kind = "sell" THEN 0 - e.quote ELSE 0
Bought(kind, e) == IF kind = "buy" THEN e.tokens ELSE IF kind = "sell" THEN 0 - e.tokens ELSE 0
Withdrawn(kind, e) == IF kind = "withdraw" THEN e.quote ELSE 0

\* The figures of t are those of s but for what the events of tx say.
Accounted(s, t, native, tx, ok, e) ==
    /\ Figures(t)
    /\ e.tokens \in Int /\ e.quote \in Int
    /\ t.sold = s.sold + Bought(tx.kind, e)
    /\ Held(t) = Held(s) + Paid(tx.kind, e)
    /\ \A x \in Accounts :
         /\ t.tokens[x] = s.tokens[x] + (IF x = tx.from THEN Bought(tx.kind, e) ELSE 0)
         /\ Worth(t)[x] = Worth(s)[x]
                - (IF x = tx.from THEN Paid(tx.kind, e) + Withdrawn(tx.kind, e) ELSE 0)
                + (IF x = tx.to THEN Withdrawn(tx.kind, e) ELSE 0)
         /\ t.allowance[x] =
              IF x = tx.from /\ tx.kind = "approve" /\ ok THEN tx.amount
              ELSE s.allowance[x]
                     - (IF x = tx.from /\ tx.kind = "buy" /\ ~native THEN e.quote ELSE 0)
    /\ ok /\ tx.kind = "buy" /\ ~native => e.quote <= s.allowance[tx.from]

\* A receipt says of a trade what the curve did.
Told(native, tx, ok, e) ==
    /\ ~ok => e = NoEvents
    /\ ok /\ tx.kind \in {"buy", "sell"} => e.trade
    /\ ok /\ tx.kind = "buy" => /\ e.quote <= tx.amount
                                /\ e.refund = IF native THEN tx.amount - e.quote ELSE 0
    /\ ok /\ tx.kind = "sell" => e.tokens = tx.amount
\* All but the quote of one account, which grows by n, is the same in t as in s.
Credited(s, t, a, n) ==
    /\ Figures(t)
    /\ t.sold = s.sold /\ t.tokens = s.tokens /\ t.allowance = s.allowance
    /\ t.reserve = s.reserve /\ t.graduated = s.graduated
    /\ Held(t) = Held(s)
    /\ \A x \in Accounts : Worth(t)[x] = Worth(s)[x] + (IF x = a THEN n ELSE 0)

LEMMA PayCredits ==
    ASSUME NEW s, Figures(s), NEW e, NEW a \in Accounts, NEW n \in Int
    PROVE  Credited(s, Pay(s, e, a, n), a, n)
<1> DEFINE t == Pay(s, e, a, n)
<1>1. CASE a \in e.blocked
  <2>1. t = [s EXCEPT !.pending[a] = @ + n]
    BY <1>1 DEF Pay
  <2> HIDE DEF t
  <2>2. /\ t.balance = s.balance /\ t.pending = [s.pending EXCEPT ![a] = @ + n]
        /\ t.custody = s.custody /\ t.fees = s.fees /\ t.forwarded = s.forwarded
        /\ t.sold = s.sold /\ t.tokens = s.tokens /\ t.allowance = s.allowance
        /\ t.reserve = s.reserve /\ t.graduated = s.graduated
        /\ DOMAIN t = DOMAIN s
    BY <2>1 DEF Figures
  <2>3. Figures(t)
    BY <2>2 DEF Figures
  <2>4. \A x \in Accounts : Worth(t)[x] = Worth(s)[x] + (IF x = a THEN n ELSE 0)
    BY <2>2 DEF Worth, Figures
  <2>5. QED
    BY <2>2, <2>3, <2>4 DEF Credited, Held, t
<1>2. CASE a \notin e.blocked
  <2>1. t = [s EXCEPT !.balance[a] = @ + n]
    BY <1>2 DEF Pay
  <2> HIDE DEF t
  <2>2. /\ t.pending = s.pending /\ t.balance = [s.balance EXCEPT ![a] = @ + n]
        /\ t.custody = s.custody /\ t.fees = s.fees /\ t.forwarded = s.forwarded
        /\ t.sold = s.sold /\ t.tokens = s.tokens /\ t.allowance = s.allowance
        /\ t.reserve = s.reserve /\ t.graduated = s.graduated
        /\ DOMAIN t = DOMAIN s
    BY <2>1 DEF Figures
  <2>3. Figures(t)
    BY <2>2 DEF Figures
  <2>4. \A x \in Accounts : Worth(t)[x] = Worth(s)[x] + (IF x = a THEN n ELSE 0)
    BY <2>2 DEF Worth, Figures
  <2>5. QED
    BY <2>2, <2>3, <2>4 DEF Credited, Held, t
<1>3. QED
  BY <1>1, <1>2

LEMMA ForwardCredits ==
    ASSUME NEW s, Figures(s), NEW a PROVE Credited(s, Forward(s), a, 0)
<1> DEFINE t == Forward(s)
<1>1. t = [s EXCEPT !.migrated = TRUE, !.forwarded = @ + s.custody, !.custody = 0]
  BY DEF Forward
<1> HIDE DEF t
<1>2. /\ t.balance = s.balance /\ t.pending = s.pending /\ t.custody = 0
      /\ t.fees = s.fees /\ t.forwarded = s.forwarded + s.custody
      /\ t.sold = s.sold /\ t.tokens = s.tokens /\ t.allowance = s.allowance
      /\ t.reserve = s.reserve /\ t.graduated = s.graduated
      /\ DOMAIN t = DOMAIN s
  BY <1>1 DEF Figures
<1>3. Figures(t)
  BY <1>2 DEF Figures
<1>4. Held(t) = Held(s)
  BY <1>2 DEF Held, Figures
<1>5. \A x \in Accounts : Worth(t)[x] = Worth(s)[x] + (IF x = a THEN 0 ELSE 0)
  BY <1>2 DEF Worth, Figures
<1>6. QED
  BY <1>2, <1>3, <1>4, <1>5 DEF Credited, t

LEMMA CreditedStill == ASSUME NEW s, Figures(s), NEW a PROVE Credited(s, s, a, 0)
<1>1. \A x \in Accounts : Worth(s)[x] = Worth(s)[x] + (IF x = a THEN 0 ELSE 0)
  BY DEF Worth, Figures
<1>2. QED
  BY <1>1 DEF Credited

LEMMA CreditedTwice ==
    ASSUME NEW s, NEW t, NEW u, NEW a \in Accounts, NEW n \in Int, Figures(s),
           Credited(s, t, a, n), Credited(t, u, a, 0)
    PROVE  Credited(s, u, a, n)
<1>1. \A x \in Accounts : Worth(s)[x] \in Int
  BY DEF Worth, Figures
<1>2. \A x \in Accounts : Worth(u)[x] = Worth(s)[x] + (IF x = a THEN n ELSE 0)
  <2> SUFFICES ASSUME NEW x \in Accounts
               PROVE  Worth(u)[x] = Worth(s)[x] + (IF x = a THEN n ELSE 0)
    OBVIOUS
  <2>1. /\ Worth(u)[x] = Worth(t)[x] + (IF x = a THEN 0 ELSE 0)
        /\ Worth(t)[x] = Worth(s)[x] + (IF x = a THEN n ELSE 0)
    BY DEF Credited
  <2>2. QED
    BY <1>1, <2>1
<1>3. QED
  BY <1>2 DEF Credited

LEMMA RefusedAccounted ==
    ASSUME NEW s, Figures(s), NEW native, NEW tx \in Transactions
    PROVE  Accounted(s, s, native, tx, FALSE, NoEvents) /\ Told(native, tx, FALSE, NoEvents)
<1>1. /\ Paid(tx.kind, NoEvents) = 0 /\ Bought(tx.kind, NoEvents) = 0
      /\ Withdrawn(tx.kind, NoEvents) = 0
      /\ NoEvents.tokens = 0 /\ NoEvents.quote = 0
  BY DEF Paid, Bought, Withdrawn, NoEvents
<1>2. /\ s.sold \in Int /\ Held(s) \in Int
      /\ \A x \in Accounts :
            s.tokens[x] \in Int /\ Worth(s)[x] \in Int /\ s.allowance[x] \in Int
  BY DEF Figures, Held, Worth
<1>3. QED
  BY <1>1, <1>2 DEF Accounted, Told
\* What the curve takes of a buy besides what it gives back.
LEMMA BuyFigures ==
    ASSUME NEW s, Figures(s), NEW tx \in Transactions, NEW q,
           q = QuoteBuy(Curve, s.reserve, s.sold, tx.amount),
           ~BuyReverts(Curve, s.reserve, s.sold, tx.amount)
    PROVE  /\ q.spent \in Int /\ q.fee \in Int /\ q.newReserve \in Int
           /\ q.tokensOut \in Int /\ q.newSold = s.sold + q.tokensOut
           /\ q.refund = tx.amount - q.spent /\ q.spent <= tx.amount
<1>1. tx.amount \in Nat /\ s.reserve \in Int /\ s.sold \in Int
  BY DEF Figures, Transactions
<1>2. q.spent \in Int /\ q.fee \in Int /\ q.newReserve \in Int
  BY <1>1, BuyWhole
<1>3. q.newSold = s.sold + q.tokensOut /\ q.refund = tx.amount - q.spent
  BY DEF QuoteBuy
<1>4. q.tokensOut \in 0 .. U256Max /\ q.refund \in 0 .. U256Max
  BY DEF BuyReverts, BuyOverflows, Fits
<1>5. QED
  BY <1>1, <1>2, <1>3, <1>4, U256Assumption

LEMMA BuyFillAccounts ==
    ASSUME NEW s, Figures(s), NEW native \in BOOLEAN, NEW tx \in Transactions, NEW q,
           q.spent \in Int, q.fee \in Int, q.newReserve \in Int,
           q.tokensOut \in Int, q.newSold = s.sold + q.tokensOut
    PROVE  LET t == BuyFilled(s, native, tx, q)
               taken == Taken(native, tx, q)
           IN  /\ Figures(t) /\ taken \in Int
               /\ t.sold = s.sold + q.tokensOut
               /\ Held(t) = Held(s) + q.spent
               /\ \A x \in Accounts :
                    /\ t.tokens[x] = s.tokens[x] + (IF x = tx.from THEN q.tokensOut ELSE 0)
                    /\ Worth(t)[x] = Worth(s)[x] - (IF x = tx.from THEN taken ELSE 0)
                    /\ t.allowance[x] = s.allowance[x]
                           - (IF x = tx.from /\ ~native THEN q.spent ELSE 0)
<1> DEFINE t == BuyFilled(s, native, tx, q)
           taken == Taken(native, tx, q)
           f == tx.from
<1>1. f \in Accounts /\ tx.amount \in Int
  BY DEF Transactions
<1>2. taken \in Int
  BY <1>1 DEF Taken
<1>3. t = [s EXCEPT !.reserve = q.newReserve, !.sold = q.newSold,
                    !.graduated = q.graduates,
                    !.custody = @ + (q.spent - q.fee), !.fees = @ + q.fee,
                    !.balance[f] = @ - taken,
                    !.allowance[f] = IF native THEN @ ELSE @ - q.spent,
                    !.tokens[f] = @ + q.tokensOut]
  BY DEF BuyFilled
<1> HIDE DEF t, taken, f
<1>4. /\ t.reserve = q.newReserve /\ t.sold = q.newSold
      /\ t.custody = s.custody + (q.spent - q.fee) /\ t.fees = s.fees + q.fee
      /\ t.forwarded = s.forwarded /\ t.pending = s.pending
      /\ DOMAIN t = DOMAIN s
  BY <1>3 DEF Figures
<1>5. t.balance = [s.balance EXCEPT ![f] = @ - taken]
  BY <1>3 DEF Figures
<1>6. t.allowance = [s.allowance EXCEPT ![f] = IF native THEN @ ELSE @ - q.spent]
  BY <1>3 DEF Figures
<1>7. t.tokens = [s.tokens EXCEPT ![f] = @ + q.tokensOut]
  BY <1>3 DEF Figures
<1>8. Held(t) = Held(s) + q.spent
  BY <1>4 DEF Held, Figures
<1>9. Figures(t)
  BY <1>1, <1>2, <1>4, <1>5, <1>6, <1>7 DEF Figures
<1>10. ASSUME NEW x \in Accounts
       PROVE  /\ t.tokens[x] = s.tokens[x] + (IF x = f THEN q.tokensOut ELSE 0)
              /\ Worth(t)[x] = Worth(s)[x] - (IF x = f THEN taken ELSE 0)
              /\ t.allowance[x] = s.allowance[x] - (IF x = f /\ ~native THEN q.spent ELSE 0)
  <2>1. t.tokens[x] = s.tokens[x] + (IF x = f THEN q.tokensOut ELSE 0)
    BY <1>1, <1>7 DEF Figures
  <2>2. Worth(t)[x] = Worth(s)[x] - (IF x = f THEN taken ELSE 0)
    BY <1>1, <1>2, <1>4, <1>5 DEF Figures, Worth
  <2>3. t.allowance[x] = s.allowance[x] - (IF x = f /\ ~native THEN q.spent ELSE 0)
    BY <1>1, <1>6 DEF Figures
  <2>4. QED
    BY <2>1, <2>2, <2>3
<1>11. QED
  BY <1>2, <1>4, <1>8, <1>9, <1>10 DEF t, taken, f

LEMMA BuyAccounted ==
    ASSUME NEW s, Figures(s), NEW e, NEW native \in BOOLEAN, NEW tx \in Transactions,
           tx.kind = "buy"
    PROVE  LET o == BuyOutcome(s, e, native, tx)
           IN  /\ o.ok \in BOOLEAN
               /\ Accounted(s, o.chain, native, tx, o.ok, o.events)
               /\ Told(native, tx, o.ok, o.events)
<1> DEFINE q == QuoteBuy(Curve, s.reserve, s.sold, tx.amount)
           filled == BuyFilled(s, native, tx, q)
           settled == BuySettled(s, e, native, tx, q)
           migrates == MigratesAtOnce(e, native, tx, q)
           t == IF migrates THEN Forward(settled) ELSE settled
           v == [ trade |-> TRUE, tokens |-> q.tokensOut, quote |-> q.spent,
                  fee |-> q.fee, refund |-> IF native THEN q.refund ELSE 0,
                  graduated |-> q.graduates, migrated |-> migrates ]
           o == BuyOutcome(s, e, native, tx)
<1>1. CASE BuyRefused(s, e, native, tx, q)
  <2>1. o = [ok |-> FALSE, chain |-> s, events |-> NoEvents]
    BY <1>1 DEF BuyOutcome, BuyAtQuote, Reverted
  <2> HIDE DEF o
  <2>2. o.ok = FALSE /\ o.chain = s /\ o.events = NoEvents
    BY <2>1
  <2>3. QED
    BY <2>2, RefusedAccounted, Zenon DEF o
<1>2. CASE ~BuyRefused(s, e, native, tx, q)
  <2>1. o = [ok |-> TRUE, chain |-> t, events |-> v]
    BY <1>2 DEF BuyOutcome, BuyAtQuote, Mined
  <2>2. /\ ~BuyReverts(Curve, s.reserve, s.sold, tx.amount)
        /\ native \/ q.spent <= s.allowance[tx.from]
    <3>1. /\ ~BuyReverts(Curve, s.reserve, s.sold, tx.amount)
          /\ native \/ ~(s.allowance[tx.from] < q.spent)
      BY <1>2 DEF BuyRefused, BuyUnpaid
    <3>2. q.spent \in Int
      BY <3>1, BuyFigures
    <3>3. s.allowance[tx.from] \in Int
      BY DEF Figures, Transactions
    <3> HIDE DEF q
    <3>4. QED
      BY <3>1, <3>2, <3>3
  <2>3. /\ q.spent \in Int /\ q.fee \in Int /\ q.newReserve \in Int
        /\ q.tokensOut \in Int /\ q.newSold = s.sold + q.tokensOut
        /\ q.refund = tx.amount - q.spent /\ q.spent <= tx.amount
    BY <2>2, BuyFigures
  <2>4. tx.from \in Accounts /\ tx.amount \in Int
    BY DEF Transactions
  <2> HIDE DEF q
  <2>5. /\ Figures(filled) /\ Taken(native, tx, q) \in Int
        /\ filled.sold = s.sold + q.tokensOut
        /\ Held(filled) = Held(s) + q.spent
        /\ \A x \in Accounts :
             /\ filled.tokens[x] = s.tokens[x] + (IF x = tx.from THEN q.tokensOut ELSE 0)
             /\ Worth(filled)[x]
                    = Worth(s)[x] - (IF x = tx.from THEN Taken(native, tx, q) ELSE 0)
             /\ filled.allowance[x]
                    = s.allowance[x] - (IF x = tx.from /\ ~native THEN q.spent ELSE 0)
    BY <2>3, BuyFillAccounts
  <2> DEFINE back == IF native THEN q.refund ELSE 0
  <2>6. Credited(filled, settled, tx.from, back)
    <3>1. CASE native
      <4>1. settled = Pay(filled, e, tx.from, q.refund) /\ back = q.refund
        BY <3>1 DEF BuySettled
      <4>2. q.refund \in Int
        BY <2>3, <2>4
      <4>3. QED
        BY <2>4, <2>5, <4>1, <4>2, PayCredits
    <3>2. CASE ~native
      BY <2>5, <3>2, CreditedStill DEF BuySettled
    <3>3. QED
      BY <3>1, <3>2
  <2>7. Taken(native, tx, q) - back = q.spent /\ back \in Int
    BY <2>3, <2>4 DEF Taken
  <2> HIDE DEF filled, settled, migrates, back
  <2>8. Credited(filled, t, tx.from, back)
    <3>1. Figures(settled)
      BY <2>6 DEF Credited
    <3>2. CASE migrates
      BY <2>4, <2>5, <2>6, <2>7, <3>1, <3>2, ForwardCredits, CreditedTwice
    <3>3. CASE ~migrates
      BY <2>6, <3>3
    <3>4. QED
      BY <3>2, <3>3
  <2> HIDE DEF t
  <2>9. /\ v.trade /\ v.tokens = q.tokensOut /\ v.quote = q.spent
        /\ v.refund = IF native THEN tx.amount - q.spent ELSE 0
    BY <2>3
  <2>10. Told(native, tx, TRUE, v)
    BY <2>3, <2>9 DEF Told
  <2> HIDE DEF v
  <2>11. Accounted(s, t, native, tx, TRUE, v)
    <3>1. /\ Paid(tx.kind, v) = q.spent /\ Bought(tx.kind, v) = q.tokensOut
          /\ Withdrawn(tx.kind, v) = 0
      BY <2>9 DEF Paid, Bought, Withdrawn
    <3>2. /\ Figures(t) /\ v.tokens \in Int /\ v.quote \in Int
          /\ t.sold = s.sold + q.tokensOut /\ Held(t) = Held(s) + q.spent
      BY <2>3, <2>5, <2>8, <2>9 DEF Credited
    <3>3. ASSUME NEW x \in Accounts
          PROVE  /\ t.tokens[x] = s.tokens[x] + (IF x = tx.from THEN q.tokensOut ELSE 0)
                 /\ Worth(t)[x] = Worth(s)[x]
                        - (IF x = tx.from THEN q.spent + 0 ELSE 0)
                        + (IF x = tx.to THEN 0 ELSE 0)
                 /\ t.allowance[x] = s.allowance[x]
                        - (IF x = tx.from /\ ~native THEN q.spent ELSE 0)
      <4>1. /\ t.tokens[x] = filled.tokens[x] /\ t.allowance[x] = filled.allowance[x]
            /\ Worth(t)[x] = Worth(filled)[x] + (IF x = tx.from THEN back ELSE 0)
        BY <2>8 DEF Credited
      <4>2. Worth(s)[x] \in Int
        BY DEF Figures, Worth
      <4>3. Worth(t)[x] = Worth(s)[x] - (IF x = tx.from THEN q.spent + 0 ELSE 0)
                              + (IF x = tx.to THEN 0 ELSE 0)
        BY <2>3, <2>5, <2>7, <4>1, <4>2
      <4>4. QED
        BY <2>5, <4>1, <4>3
    <3>4. QED
      BY <2>2, <2>9, <3>1, <3>2, <3>3 DEF Accounted
  <2> HIDE DEF o
  <2>12. o.ok = TRUE /\ o.chain = t /\ o.events = v
    BY <2>1
  <2>13. QED
    BY <2>10, <2>11, <2>12, Zenon DEF o
<1>3. QED
  BY <1>1, <1>2
LEMMA SellAccounted ==
    ASSUME NEW s, Figures(s), NEW e, NEW native \in BOOLEAN, NEW tx \in Transactions,
           tx.kind = "sell"
    PROVE  LET o == SellOutcome(s, e, native, tx)
           IN  /\ o.ok \in BOOLEAN
               /\ Accounted(s, o.chain, native, tx, o.ok, o.events)
               /\ Told(native, tx, o.ok, o.events)
<1> DEFINE q == QuoteSell(Curve, s.reserve, s.sold, tx.amount)
           filled == SellFilled(s, tx, q)
           t == Pay(filled, e, tx.from, q.quoteOut)
           v == [NoEvents EXCEPT !.trade = TRUE, !.tokens = tx.amount,
                                 !.quote = q.quoteOut, !.fee = q.fee]
           o == SellOutcome(s, e, native, tx)
<1>1. CASE SellRefused(s, e, native, tx, q)
  <2>1. o = [ok |-> FALSE, chain |-> s, events |-> NoEvents]
    BY <1>1 DEF SellOutcome, SellAtQuote, Reverted
  <2> HIDE DEF o
  <2>2. o.ok = FALSE /\ o.chain = s /\ o.events = NoEvents
    BY <2>1
  <2>3. QED
    BY <2>2, RefusedAccounted, Zenon DEF o
<1>2. CASE ~SellRefused(s, e, native, tx, q)
  <2>1. o = [ok |-> TRUE, chain |-> t, events |-> v]
    BY <1>2 DEF SellOutcome, SellAtQuote, Mined
  <2>2. /\ s.reserve \in Int /\ s.sold \in Int /\ tx.amount \in Nat /\ tx.from \in Accounts
        /\ s.custody \in Int /\ s.fees \in Int /\ s.forwarded \in Int
    BY DEF Figures, Transactions
  <2>3. ~SellReverts(Curve, s.reserve, s.sold, tx.amount)
    BY <1>2 DEF SellRefused, SellUnfilled
  <2>4. /\ q.gross \in Int /\ q.fee \in Int /\ q.quoteOut = q.gross - q.fee
        /\ q.newReserve \in Int /\ q.newSold \in Int
    BY <2>2, <2>3, SellWhole
  <2>5. q.newSold = s.sold - tx.amount
    BY DEF QuoteSell
  <2> HIDE DEF q
  <2>6. /\ filled.reserve = q.newReserve /\ filled.sold = q.newSold
        /\ filled.custody = s.custody - q.gross /\ filled.fees = s.fees + q.fee
        /\ filled.forwarded = s.forwarded /\ filled.pending = s.pending
        /\ filled.balance = s.balance /\ filled.allowance = s.allowance
        /\ filled.tokens = [s.tokens EXCEPT ![tx.from] = @ - tx.amount]
        /\ DOMAIN filled = DOMAIN s
    BY DEF SellFilled, Figures
  <2> HIDE DEF filled
  <2>7. Figures(filled)
    BY <2>2, <2>4, <2>6 DEF Figures
  <2>8. q.quoteOut \in Int
    BY <2>4
  <2>9. Credited(filled, t, tx.from, q.quoteOut)
    BY <2>2, <2>7, <2>8, PayCredits
  <2> HIDE DEF t
  <2>10. v.trade /\ v.tokens = tx.amount /\ v.quote = q.quoteOut
    BY DEF NoEvents
  <2>11. Told(native, tx, TRUE, v)
    BY <2>10 DEF Told
  <2> HIDE DEF v
  <2>12. Accounted(s, t, native, tx, TRUE, v)
    <3>1. /\ Paid(tx.kind, v) = 0 - q.quoteOut /\ Bought(tx.kind, v) = 0 - tx.amount
          /\ Withdrawn(tx.kind, v) = 0
      BY <2>10 DEF Paid, Bought, Withdrawn
    <3>2. /\ Figures(t) /\ v.tokens \in Int /\ v.quote \in Int
          /\ t.sold = s.sold + (0 - tx.amount)
      BY <2>2, <2>4, <2>5, <2>6, <2>9, <2>10 DEF Credited
    <3>3. Held(t) = Held(s) + (0 - q.quoteOut)
      BY <2>2, <2>4, <2>6, <2>9 DEF Credited, Held
    <3>4. ASSUME NEW x \in Accounts
          PROVE  /\ t.tokens[x] = s.tokens[x] + (IF x = tx.from THEN 0 - tx.amount ELSE 0)
                 /\ Worth(t)[x] = Worth(s)[x]
                        - (IF x = tx.from THEN (0 - q.quoteOut) + 0 ELSE 0)
                        + (IF x = tx.to THEN 0 ELSE 0)
                 /\ t.allowance[x] = s.allowance[x]
      <4>1. /\ t.tokens[x] = filled.tokens[x] /\ t.allowance[x] = filled.allowance[x]
            /\ Worth(t)[x] = Worth(filled)[x] + (IF x = tx.from THEN q.quoteOut ELSE 0)
        BY <2>9 DEF Credited
      <4>2. Worth(s)[x] \in Int /\ Worth(filled)[x] = Worth(s)[x] /\ s.tokens[x] \in Int
        BY <2>6 DEF Figures, Worth
      <4>3. t.tokens[x] = s.tokens[x] + (IF x = tx.from THEN 0 - tx.amount ELSE 0)
        BY <2>2, <2>6, <4>1, <4>2 DEF Figures
      <4>4. QED
        BY <2>6, <2>8, <4>1, <4>2, <4>3
    <3>5. \A x \in Accounts : s.allowance[x] = s.allowance[x] - 0
      BY DEF Figures
    <3>6. QED
      BY <3>1, <3>2, <3>3, <3>4, <3>5 DEF Accounted
  <2> HIDE DEF o
  <2>13. o.ok = TRUE /\ o.chain = t /\ o.events = v
    BY <2>1
  <2>14. QED
    BY <2>11, <2>12, <2>13, Zenon DEF o
<1>3. QED
  BY <1>1, <1>2

LEMMA WithdrawAccounted ==
    ASSUME NEW s, Figures(s), NEW e, NEW native \in BOOLEAN, NEW tx \in Transactions,
           tx.kind = "withdraw"
    PROVE  LET o == WithdrawOutcome(s, e, tx)
           IN  /\ o.ok \in BOOLEAN
               /\ Accounted(s, o.chain, native, tx, o.ok, o.events)
               /\ Told(native, tx, o.ok, o.events)
<1> DEFINE n == s.pending[tx.from]
           t == [s EXCEPT !.pending[tx.from] = 0, !.balance[tx.to] = @ + n]
           v == [NoEvents EXCEPT !.quote = n]
           o == WithdrawOutcome(s, e, tx)
<1>1. CASE s.pending[tx.from] = 0 \/ tx.to \in e.blocked
  <2>1. o = [ok |-> FALSE, chain |-> s, events |-> NoEvents]
    BY <1>1 DEF WithdrawOutcome, Reverted
  <2> HIDE DEF o
  <2>2. o.ok = FALSE /\ o.chain = s /\ o.events = NoEvents
    BY <2>1
  <2>3. QED
    BY <2>2, RefusedAccounted, Zenon DEF o
<1>2. CASE ~(s.pending[tx.from] = 0 \/ tx.to \in e.blocked)
  <2>1. o = [ok |-> TRUE, chain |-> t, events |-> v]
    BY <1>2 DEF WithdrawOutcome, Mined
  <2>2. tx.from \in Accounts /\ tx.to \in Accounts /\ n \in Int
    BY DEF Figures, Transactions
  <2>3. n = s.pending[tx.from]
    OBVIOUS
  <2> HIDE DEF n
  <2>4. /\ t.sold = s.sold /\ t.reserve = s.reserve
        /\ t.custody = s.custody /\ t.fees = s.fees /\ t.forwarded = s.forwarded
        /\ t.tokens = s.tokens /\ t.allowance = s.allowance
        /\ t.pending = [s.pending EXCEPT ![tx.from] = 0]
        /\ t.balance = [s.balance EXCEPT ![tx.to] = @ + n]
        /\ DOMAIN t = DOMAIN s
    BY DEF Figures
  <2> HIDE DEF t
  <2>5. Figures(t)
    BY <2>2, <2>4 DEF Figures
  <2>6. v.quote = n /\ v.tokens = 0
    BY DEF NoEvents
  <2>7. Told(native, tx, TRUE, v)
    BY DEF Told
  <2> HIDE DEF v
  <2>8. Accounted(s, t, native, tx, TRUE, v)
    <3>1. Paid(tx.kind, v) = 0 /\ Bought(tx.kind, v) = 0 /\ Withdrawn(tx.kind, v) = n
      BY <2>6 DEF Paid, Bought, Withdrawn
    <3>2. t.sold = s.sold + 0 /\ Held(t) = Held(s) + 0 /\ v.tokens \in Int /\ v.quote \in Int
      BY <2>2, <2>4, <2>6 DEF Figures, Held
    <3>3. ASSUME NEW x \in Accounts
          PROVE  /\ t.tokens[x] = s.tokens[x] + (IF x = tx.from THEN 0 ELSE 0)
                 /\ Worth(t)[x] = Worth(s)[x] - (IF x = tx.from THEN 0 + n ELSE 0)
                                      + (IF x = tx.to THEN n ELSE 0)
                 /\ t.allowance[x] = s.allowance[x] - 0
      BY <2>2, <2>3, <2>4 DEF Figures, Worth
    <3>4. QED
      BY <2>5, <3>1, <3>2, <3>3 DEF Accounted
  <2> HIDE DEF o
  <2>9. o.ok = TRUE /\ o.chain = t /\ o.events = v
    BY <2>1
  <2>10. QED
    BY <2>7, <2>8, <2>9, Zenon DEF o
<1>3. QED
  BY <1>1, <1>2

LEMMA MigrateAccounted ==
    ASSUME NEW s, Figures(s), NEW e, NEW native \in BOOLEAN, NEW tx \in Transactions,
           tx.kind = "migrate"
    PROVE  LET o == MigrateOutcome(s, e)
           IN  /\ o.ok \in BOOLEAN
               /\ Accounted(s, o.chain, native, tx, o.ok, o.events)
               /\ Told(native, tx, o.ok, o.events)
<1> DEFINE t == Forward(s)
           v == [NoEvents EXCEPT !.migrated = TRUE, !.quote = s.custody]
           o == MigrateOutcome(s, e)
<1>1. CASE ~s.graduated \/ s.migrated \/ ~e.migratorUp
  <2>1. o = [ok |-> FALSE, chain |-> s, events |-> NoEvents]
    BY <1>1 DEF MigrateOutcome, Reverted
  <2> HIDE DEF o
  <2>2. o.ok = FALSE /\ o.chain = s /\ o.events = NoEvents
    BY <2>1
  <2>3. QED
    BY <2>2, RefusedAccounted, Zenon DEF o
<1>2. CASE ~(~s.graduated \/ s.migrated \/ ~e.migratorUp)
  <2>1. o = [ok |-> TRUE, chain |-> t, events |-> v]
    BY <1>2 DEF MigrateOutcome, Mined
  <2>2. Credited(s, t, tx.from, 0)
    BY ForwardCredits
  <2>3. v.quote = s.custody /\ v.tokens = 0 /\ s.custody \in Int
    BY DEF NoEvents, Figures
  <2>4. Told(native, tx, TRUE, v)
    BY DEF Told
  <2> HIDE DEF t, v
  <2>5. Accounted(s, t, native, tx, TRUE, v)
    <3>1. Paid(tx.kind, v) = 0 /\ Bought(tx.kind, v) = 0 /\ Withdrawn(tx.kind, v) = 0
      BY DEF Paid, Bought, Withdrawn
    <3>2. t.sold = s.sold + 0 /\ Held(t) = Held(s) + 0 /\ Figures(t)
      BY <2>2 DEF Figures, Held, Credited
    <3>3. ASSUME NEW x \in Accounts
          PROVE  /\ t.tokens[x] = s.tokens[x] + (IF x = tx.from THEN 0 ELSE 0)
                 /\ Worth(t)[x] = Worth(s)[x] - (IF x = tx.from THEN 0 + 0 ELSE 0)
                                      + (IF x = tx.to THEN 0 ELSE 0)
                 /\ t.allowance[x] = s.allowance[x] - 0
      <4>1. Worth(s)[x] \in Int /\ s.tokens[x] \in Int /\ s.allowance[x] \in Int
        BY DEF Figures, Worth
      <4>2. Worth(t)[x] = Worth(s)[x] + (IF x = tx.from THEN 0 ELSE 0)
        BY <2>2 DEF Credited
      <4>3. QED
        BY <2>2, <4>1, <4>2 DEF Credited
    <3>4. QED
      BY <2>3, <3>1, <3>2, <3>3 DEF Accounted
  <2> HIDE DEF o
  <2>6. o.ok = TRUE /\ o.chain = t /\ o.events = v
    BY <2>1
  <2>7. QED
    BY <2>4, <2>5, <2>6, Zenon DEF o
<1>3. QED
  BY <1>1, <1>2

LEMMA ApproveAccounted ==
    ASSUME NEW s, Figures(s), NEW e, NEW native \in BOOLEAN, NEW tx \in Transactions,
           tx.kind = "approve"
    PROVE  LET o == ApproveOutcome(s, e, tx)
           IN  /\ o.ok \in BOOLEAN
               /\ Accounted(s, o.chain, native, tx, o.ok, o.events)
               /\ Told(native, tx, o.ok, o.events)
<1> DEFINE t == [s EXCEPT !.allowance[tx.from] = tx.amount]
           o == ApproveOutcome(s, e, tx)
<1>1. CASE tx.from \in e.blocked
  <2>1. o = [ok |-> FALSE, chain |-> s, events |-> NoEvents]
    BY <1>1 DEF ApproveOutcome, Reverted
  <2> HIDE DEF o
  <2>2. o.ok = FALSE /\ o.chain = s /\ o.events = NoEvents
    BY <2>1
  <2>3. QED
    BY <2>2, RefusedAccounted, Zenon DEF o
<1>2. CASE tx.from \notin e.blocked
  <2>1. o = [ok |-> TRUE, chain |-> t, events |-> NoEvents]
    BY <1>2 DEF ApproveOutcome, Mined
  <2>2. tx.from \in Accounts /\ tx.amount \in Int
    BY DEF Transactions
  <2>3. /\ t.sold = s.sold /\ t.reserve = s.reserve
        /\ t.custody = s.custody /\ t.fees = s.fees /\ t.forwarded = s.forwarded
        /\ t.tokens = s.tokens /\ t.pending = s.pending /\ t.balance = s.balance
        /\ t.allowance = [s.allowance EXCEPT ![tx.from] = tx.amount]
        /\ DOMAIN t = DOMAIN s
    BY DEF Figures
  <2> HIDE DEF t
  <2>4. Figures(t)
    BY <2>2, <2>3 DEF Figures
  <2>5. Told(native, tx, TRUE, NoEvents)
    BY DEF Told
  <2>6. Accounted(s, t, native, tx, TRUE, NoEvents)
    <3>1. /\ Paid(tx.kind, NoEvents) = 0 /\ Bought(tx.kind, NoEvents) = 0
          /\ Withdrawn(tx.kind, NoEvents) = 0
          /\ NoEvents.tokens = 0 /\ NoEvents.quote = 0
      BY DEF Paid, Bought, Withdrawn, NoEvents
    <3>2. t.sold = s.sold + 0 /\ Held(t) = Held(s) + 0
      BY <2>3 DEF Figures, Held
    <3>3. ASSUME NEW x \in Accounts
          PROVE  /\ t.tokens[x] = s.tokens[x] + (IF x = tx.from THEN 0 ELSE 0)
                 /\ Worth(t)[x] = Worth(s)[x] - (IF x = tx.from THEN 0 + 0 ELSE 0)
                                      + (IF x = tx.to THEN 0 ELSE 0)
                 /\ t.allowance[x] = IF x = tx.from THEN tx.amount ELSE s.allowance[x] - 0
      BY <2>2, <2>3 DEF Figures, Worth
    <3>4. QED
      BY <2>4, <3>1, <3>2, <3>3 DEF Accounted
  <2> HIDE DEF o
  <2>7. o.ok = TRUE /\ o.chain = t /\ o.events = NoEvents
    BY <2>1
  <2>8. QED
    BY <2>5, <2>6, <2>7, Zenon DEF o
<1>3. QED
  BY <1>1, <1>2

\* Every transaction that is mined is accounted for by its receipt.
LEMMA OutcomeAccounted ==
    ASSUME NEW s, Figures(s), NEW e, NEW native \in BOOLEAN, NEW tx \in Transactions
    PROVE  LET o == Outcome(s, e, native, tx)
           IN  /\ o.ok \in BOOLEAN
               /\ Accounted(s, o.chain, native, tx, o.ok, o.events)
               /\ Told(native, tx, o.ok, o.events)
<1>1. CASE tx.kind = "buy"
  <2>1. Outcome(s, e, native, tx) = BuyOutcome(s, e, native, tx)
    BY <1>1 DEF Outcome
  <2>2. QED
    BY <1>1, <2>1, BuyAccounted, Zenon
<1>2. CASE tx.kind = "sell"
  <2>1. Outcome(s, e, native, tx) = SellOutcome(s, e, native, tx)
    BY <1>2 DEF Outcome
  <2>2. QED
    BY <1>2, <2>1, SellAccounted, Zenon
<1>3. CASE tx.kind = "migrate"
  <2>1. Outcome(s, e, native, tx) = MigrateOutcome(s, e)
    BY <1>3 DEF Outcome
  <2>2. QED
    BY <1>3, <2>1, MigrateAccounted, Zenon
<1>4. CASE tx.kind = "withdraw"
  <2>1. Outcome(s, e, native, tx) = WithdrawOutcome(s, e, tx)
    BY <1>4 DEF Outcome
  <2>2. QED
    BY <1>4, <2>1, WithdrawAccounted, Zenon
<1>5. CASE tx.kind = "approve"
  <2>1. Outcome(s, e, native, tx) = ApproveOutcome(s, e, tx)
    BY <1>5 DEF Outcome
  <2>2. QED
    BY <1>5, <2>1, ApproveAccounted, Zenon
<1>6. QED
  BY <1>1, <1>2, <1>3, <1>4, <1>5 DEF Transactions
-----------------------------------------------------------------------------
(* What a transaction does to the migration: its events say whether it     *)
(* migrated the curve, which only a curve that was not migrated allows.    *)

MigratedAs(s, t, kind, e) ==
    /\ e.migrated => /\ ~s.migrated /\ t.migrated /\ kind \in {"buy", "migrate"}
                     /\ kind = "migrate" => t.forwarded = s.forwarded + e.quote
    /\ ~e.migrated => /\ t.migrated = s.migrated /\ t.forwarded = s.forwarded
                      /\ kind = "migrate" => e.quote = 0
    /\ t.migrated => t.graduated

\* Nothing of the migration is different in t.
AsMigrated(s, t) ==
    t.graduated = s.graduated /\ t.migrated = s.migrated /\ t.forwarded = s.forwarded

LEMMA RefusedAsMigrated ==
    ASSUME NEW s, s.migrated => s.graduated, NEW kind
    PROVE  MigratedAs(s, s, kind, NoEvents)
BY DEF MigratedAs, NoEvents

LEMMA PayAsMigrated ==
    ASSUME NEW s, Figures(s), NEW e, NEW a, NEW n
    PROVE  AsMigrated(s, Pay(s, e, a, n))
<1>1. CASE a \in e.blocked
  BY <1>1 DEF Pay, Figures, AsMigrated
<1>2. CASE a \notin e.blocked
  BY <1>2 DEF Pay, Figures, AsMigrated
<1>3. QED
  BY <1>1, <1>2

LEMMA ForwardMigrates ==
    ASSUME NEW s, Figures(s)
    PROVE  /\ Forward(s).migrated /\ Forward(s).graduated = s.graduated
           /\ Forward(s).forwarded = s.forwarded + s.custody
BY DEF Forward, Figures

LEMMA BuyMigratedAs ==
    ASSUME NEW s, Figures(s), NEW e, NEW native \in BOOLEAN, NEW tx \in Transactions,
           tx.kind = "buy", s.migrated => s.graduated
    PROVE  LET o == BuyOutcome(s, e, native, tx)
           IN  MigratedAs(s, o.chain, tx.kind, o.events)
<1> DEFINE q == QuoteBuy(Curve, s.reserve, s.sold, tx.amount)
           filled == BuyFilled(s, native, tx, q)
           settled == BuySettled(s, e, native, tx, q)
           migrates == MigratesAtOnce(e, native, tx, q)
           t == IF migrates THEN Forward(settled) ELSE settled
           v == [ trade |-> TRUE, tokens |-> q.tokensOut, quote |-> q.spent,
                  fee |-> q.fee, refund |-> IF native THEN q.refund ELSE 0,
                  graduated |-> q.graduates, migrated |-> migrates ]
           o == BuyOutcome(s, e, native, tx)
<1>1. CASE BuyRefused(s, e, native, tx, q)
  <2>1. o = [ok |-> FALSE, chain |-> s, events |-> NoEvents]
    BY <1>1 DEF BuyOutcome, BuyAtQuote, Reverted
  <2> HIDE DEF o
  <2>2. o.chain = s /\ o.events = NoEvents
    BY <2>1
  <2>3. QED
    BY <2>2, RefusedAsMigrated, Zenon DEF o
<1>2. CASE ~BuyRefused(s, e, native, tx, q)
  <2>1. o = [ok |-> TRUE, chain |-> t, events |-> v]
    BY <1>2 DEF BuyOutcome, BuyAtQuote, Mined
  <2>2. ~BuyReverts(Curve, s.reserve, s.sold, tx.amount) /\ ~s.graduated
    BY <1>2 DEF BuyRefused
  <2>3. /\ q.spent \in Int /\ q.fee \in Int /\ q.newReserve \in Int
        /\ q.tokensOut \in Int /\ q.newSold = s.sold + q.tokensOut
    BY <2>2, BuyFigures
  <2> HIDE DEF q
  <2>4. Figures(filled)
    BY <2>3, BuyFillAccounts
  <2>5. /\ filled.graduated = q.graduates /\ filled.migrated = s.migrated
        /\ filled.forwarded = s.forwarded
    BY DEF BuyFilled, Figures
  <2> HIDE DEF filled
  <2>6. Figures(settled) /\ AsMigrated(filled, settled)
    <3>1. CASE native
      <4>1. settled = Pay(filled, e, tx.from, q.refund)
        BY <3>1 DEF BuySettled, filled
      <4>2. q.refund \in Int /\ tx.from \in Accounts
        BY <2>2, BuyFigures DEF q, Transactions
      <4>3. QED
        BY <2>4, <4>1, <4>2, PayCredits, PayAsMigrated DEF Credited
    <3>2. CASE ~native
      BY <2>4, <3>2 DEF BuySettled, AsMigrated, filled
    <3>3. QED
      BY <3>1, <3>2
  <2>7. migrates => q.graduates
    BY DEF MigratesAtOnce
  <2>8. v.migrated = migrates
    OBVIOUS
  <2> HIDE DEF settled, migrates
  <2>9. MigratedAs(s, t, tx.kind, v)
    <3>1. CASE migrates
      <4>1. t.migrated /\ t.graduated = q.graduates
        BY <2>5, <2>6, <3>1, ForwardMigrates DEF AsMigrated
      <4> HIDE DEF t, v
      <4>2. QED
        BY <2>2, <2>7, <2>8, <3>1, <4>1 DEF MigratedAs
    <3>2. CASE ~migrates
      <4>1. t.migrated = s.migrated /\ t.forwarded = s.forwarded
        BY <2>5, <2>6, <3>2 DEF AsMigrated
      <4> HIDE DEF t, v
      <4>2. QED
        BY <2>2, <2>8, <3>2, <4>1 DEF MigratedAs
    <3>3. QED
      BY <3>1, <3>2
  <2> HIDE DEF o, t, v
  <2>10. o.chain = t /\ o.events = v
    BY <2>1
  <2>11. QED
    BY <2>9, <2>10, Zenon DEF o
<1>3. QED
  BY <1>1, <1>2

LEMMA SellMigratedAs ==
    ASSUME NEW s, Figures(s), NEW e, NEW native \in BOOLEAN, NEW tx \in Transactions,
           tx.kind = "sell", s.migrated => s.graduated
    PROVE  LET o == SellOutcome(s, e, native, tx)
           IN  MigratedAs(s, o.chain, tx.kind, o.events)
<1> DEFINE q == QuoteSell(Curve, s.reserve, s.sold, tx.amount)
           filled == SellFilled(s, tx, q)
           t == Pay(filled, e, tx.from, q.quoteOut)
           v == [NoEvents EXCEPT !.trade = TRUE, !.tokens = tx.amount,
                                 !.quote = q.quoteOut, !.fee = q.fee]
           o == SellOutcome(s, e, native, tx)
<1>1. CASE SellRefused(s, e, native, tx, q)
  <2>1. o = [ok |-> FALSE, chain |-> s, events |-> NoEvents]
    BY <1>1 DEF SellOutcome, SellAtQuote, Reverted
  <2> HIDE DEF o
  <2>2. o.chain = s /\ o.events = NoEvents
    BY <2>1
  <2>3. QED
    BY <2>2, RefusedAsMigrated, Zenon DEF o
<1>2. CASE ~SellRefused(s, e, native, tx, q)
  <2>1. o = [ok |-> TRUE, chain |-> t, events |-> v]
    BY <1>2 DEF SellOutcome, SellAtQuote, Mined
  <2>2. ~s.graduated
    BY <1>2 DEF SellRefused
  <2> HIDE DEF q
  <2>3. filled.migrated = s.migrated /\ filled.forwarded = s.forwarded
    BY DEF SellFilled, Figures
  <2>4. {"balance", "pending", "migrated", "forwarded"} \subseteq DOMAIN filled
    BY DEF SellFilled, Figures
  <2> HIDE DEF filled
  <2>5. t.migrated = s.migrated /\ t.forwarded = s.forwarded
    BY <2>3, <2>4 DEF Pay
  <2>6. ~v.migrated
    BY DEF NoEvents
  <2> HIDE DEF o, t, v
  <2>7. MigratedAs(s, t, tx.kind, v)
    BY <2>2, <2>5, <2>6 DEF MigratedAs
  <2>8. o.chain = t /\ o.events = v
    BY <2>1
  <2>9. QED
    BY <2>7, <2>8, Zenon DEF o
<1>3. QED
  BY <1>1, <1>2

\* Every transaction that is mined migrates the curve exactly if its events say so.
LEMMA OutcomeMigratedAs ==
    ASSUME NEW s, Figures(s), NEW e, NEW native \in BOOLEAN, NEW tx \in Transactions,
           s.migrated => s.graduated
    PROVE  LET o == Outcome(s, e, native, tx)
           IN  MigratedAs(s, o.chain, tx.kind, o.events)
<1> DEFINE o == Outcome(s, e, native, tx)
<1>1. CASE tx.kind = "buy"
  <2>1. Outcome(s, e, native, tx) = BuyOutcome(s, e, native, tx)
    BY <1>1 DEF Outcome
  <2>2. QED
    BY <1>1, <2>1, BuyMigratedAs, Zenon
<1>2. CASE tx.kind = "sell"
  <2>1. Outcome(s, e, native, tx) = SellOutcome(s, e, native, tx)
    BY <1>2 DEF Outcome
  <2>2. QED
    BY <1>2, <2>1, SellMigratedAs, Zenon
<1>3. CASE o.chain = s /\ o.events = NoEvents
  BY <1>3, RefusedAsMigrated, Zenon
<1>4. CASE tx.kind = "migrate" /\ ~(o.chain = s /\ o.events = NoEvents)
  <2> DEFINE v == [NoEvents EXCEPT !.migrated = TRUE, !.quote = s.custody]
  <2>1. ~(~s.graduated \/ s.migrated \/ ~e.migratorUp)
    BY <1>4 DEF Outcome, MigrateOutcome, Reverted
  <2>2. o = [ok |-> TRUE, chain |-> Forward(s), events |-> v]
    BY <1>4, <2>1 DEF Outcome, MigrateOutcome, Mined
  <2>3. v.migrated /\ v.quote = s.custody
    BY DEF NoEvents
  <2> HIDE DEF o, v
  <2>4. o.chain = Forward(s) /\ o.events = v
    BY <2>2
  <2>5. MigratedAs(s, Forward(s), tx.kind, v)
    BY <1>4, <2>1, <2>3, ForwardMigrates DEF MigratedAs
  <2>6. QED
    BY <2>4, <2>5, Zenon DEF o
<1>5. CASE tx.kind \in {"withdraw", "approve"} /\ ~(o.chain = s /\ o.events = NoEvents)
  <2>1. AsMigrated(s, o.chain) /\ ~o.events.migrated
    <3>1. CASE tx.kind = "withdraw"
      BY <1>5, <3>1 DEF Outcome, WithdrawOutcome, Reverted, Mined, NoEvents, Figures, AsMigrated
    <3>2. CASE tx.kind = "approve"
      BY <1>5, <3>2 DEF Outcome, ApproveOutcome, Reverted, Mined, NoEvents, Figures, AsMigrated
    <3>3. QED
      BY <1>5, <3>1, <3>2
  <2> HIDE DEF o
  <2>2. MigratedAs(s, o.chain, tx.kind, o.events)
    BY <1>5, <2>1 DEF AsMigrated, MigratedAs
  <2>3. QED
    BY <2>2, Zenon DEF o
<1>6. QED
  BY <1>1, <1>2, <1>3, <1>4, <1>5 DEF Transactions
-----------------------------------------------------------------------------
(* Each call's approve, and what it is after, is sent at most once; it is  *)
(* on its way or answered, not both; and its answer is what it did.  This  *)
(* is so of either client, whose labels are taken together here.           *)

\* The transactions that are what their call asks for.
AsAsked ==
    {tx \in Transactions :
        /\ tx.call \in Calls /\ tx.from = Request(tx.call).from
        /\ tx.kind = "approve" =>
               Request(tx.call).kind = "buy" /\ tx.amount = Request(tx.call).amount
        /\ tx.kind # "approve" =>
               /\ tx.kind = Request(tx.call).kind /\ tx.amount = Request(tx.call).amount
               /\ tx.to = Request(tx.call).to}

\* Both are the approve, or both the transaction, of one call.
SameSlot ==
    {p \in Transactions \X Transactions :
        p[1].call = p[2].call /\ (p[1].kind = "approve" <=> p[2].kind = "approve")}

ApproveOnWay(queue, c) ==
    \E a \in Accounts : \E i \in DOMAIN queue[a] :
        queue[a][i].call = c /\ queue[a][i].kind = "approve"

MainOnWay(queue, c) ==
    \E a \in Accounts : \E i \in DOMAIN queue[a] :
        queue[a][i].call = c /\ queue[a][i].kind # "approve"

\* Where a call asks for its allowance, where it has not sent its approve yet, and
\* where it has not sent what it is after.
Approvals ==
    {"allowance", "preflight", "simulateApprove", "sendApprove", "fillApprove", "awaitApprove"}
Unapproved ==
    {"idle", "allowance", "preflight", "simulateApprove", "sendApprove", "fillApprove"}
AllLabels == Labels \cup CrateLabels
Unsent == AllLabels \ ({"await"} \cup Final)

LEMMA AllPlaces ==
    /\ Final = {"done", "failed", "lost"}
    /\ AllLabels = {"idle", "allowance", "preflight", "simulateApprove", "sendApprove",
                    "awaitApprove", "estimate", "simulate", "send", "await", "fillApprove",
                    "fill", "done", "failed", "lost"}
    /\ Unsent = {"idle", "allowance", "preflight", "simulateApprove", "sendApprove",
                 "awaitApprove", "estimate", "simulate", "send", "fillApprove", "fill"}
BY DEF Final, AllLabels, Labels, CrateLabels, Filling, Unsent

Answer(c, m) ==
    /\ m.mined /\ m.ok \in BOOLEAN
    /\ m.events.tokens \in Int /\ m.events.quote \in Int
    /\ Told(Native, Request(c), m.ok, m.events)

Reported(c, e, res) ==
    /\ Request(c).kind = "buy" => /\ res.tokens = e.tokens /\ res.quote = e.quote
                                  /\ res.refund = Request(c).amount - e.quote
    /\ Request(c).kind = "sell" => res.quote = e.quote

ApproveFits(c, p, queue, r) ==
    /\ p \in Approvals => Request(c).kind = "buy"
    /\ p \in Unapproved => ~ApproveOnWay(queue, c) /\ r.approve = NoReceipt
    /\ ApproveOnWay(queue, c) => r.approve = NoReceipt

MainFits(c, p, queue, r) ==
    /\ p \in Unsent => ~MainOnWay(queue, c) /\ r.main = NoReceipt
    /\ MainOnWay(queue, c) => r.main = NoReceipt
    /\ r.main = NoReceipt \/ Answer(c, r.main)

TellFits(c, p, queue, r, res) ==
    /\ p = "failed" => ~MainOnWay(queue, c) /\ ~r.main.ok
    /\ p = "done" => /\ r.main.mined /\ Reported(c, r.main.events, res)
                     /\ Trade(c) => r.main.ok
    /\ p # "done" => res = NoResult

CallFits(c, p, queue, r, res) ==
    /\ p \in AllLabels
    /\ ApproveFits(c, p, queue, r)
    /\ MainFits(c, p, queue, r)
    /\ TellFits(c, p, queue, r, res)

Once ==
    /\ plan \in Plans /\ Figures(chain) /\ Filed
    /\ DOMAIN pc = Calls /\ DOMAIN result = Calls /\ DOMAIN mempool = Accounts
    /\ Sent(AsAsked, mempool)
    /\ Lone(mempool, Accounts, SameSlot)
    /\ \A c \in Calls : CallFits(c, pc[c], mempool, receipts[c], result[c])

LEMMA RequestSame == ASSUME plan' = plan PROVE
    /\ Calls' = Calls /\ Native' = Native /\ AsAsked' = AsAsked
    /\ \A c \in Calls : Request(c)' = Request(c)
BY DEF Calls, Native, AsAsked, Request

LEMMA FitsSame ==
    ASSUME plan' = plan, NEW c \in Calls,
           CallFits(c, pc'[c], mempool', receipts'[c], result'[c])
    PROVE  CallFits(c, pc[c], mempool, receipts[c], result[c])'
<1>1. Request(c)' = Request(c) /\ Native' = Native
  BY RequestSame
<1>2. ApproveFits(c, pc[c], mempool, receipts[c])'
  BY <1>1, Zenon DEF CallFits, ApproveFits, ApproveOnWay
<1>3. MainFits(c, pc[c], mempool, receipts[c])'
  BY <1>1, Zenon DEF CallFits, MainFits, Answer, Told, MainOnWay
<1>4. TellFits(c, pc[c], mempool, receipts[c], result[c])'
  BY <1>1, Zenon DEF CallFits, TellFits, Reported, MainOnWay, Trade
<1>5. QED
  BY <1>2, <1>3, <1>4 DEF CallFits

\* What is on its way in now was on its way in queue, but for the transaction tx.
OnWayBut(now, queue, tx) ==
    \A d \in Calls :
        /\ ApproveOnWay(now, d) => ApproveOnWay(queue, d) \/ (tx.call = d /\ tx.kind = "approve")
        /\ MainOnWay(now, d) => MainOnWay(queue, d) \/ (tx.call = d /\ tx.kind # "approve")

OnWayStill(now, queue) ==
    \A d \in Calls : /\ ApproveOnWay(now, d) => ApproveOnWay(queue, d)
                     /\ MainOnWay(now, d) => MainOnWay(queue, d)

\* What is said of a call still holds when less of it is on its way.
LEMMA FitsStill ==
    ASSUME NEW c, NEW p, NEW queue, NEW now, NEW r, NEW res,
           CallFits(c, p, queue, r, res),
           ApproveOnWay(now, c) => ApproveOnWay(queue, c),
           MainOnWay(now, c) => MainOnWay(queue, c)
    PROVE  CallFits(c, p, now, r, res)
<1>1. ApproveFits(c, p, now, r)
  BY DEF CallFits, ApproveFits
<1>2. MainFits(c, p, now, r)
  BY DEF CallFits, MainFits
<1>3. TellFits(c, p, now, r, res)
  BY DEF CallFits, TellFits
<1>4. QED
  BY <1>1, <1>2, <1>3 DEF CallFits

\* The parts of the invariant, put together after a step.
LEMMA OnceHolds ==
    ASSUME Once, plan' = plan, Figures(chain'), Filed',
           DOMAIN pc' = Calls, DOMAIN result' = Calls, DOMAIN mempool' = Accounts,
           Sent(AsAsked, mempool'), Lone(mempool', Accounts, SameSlot),
           \A c \in Calls : CallFits(c, pc'[c], mempool', receipts'[c], result'[c])
    PROVE  Once'
<1>1. Calls' = Calls /\ AsAsked' = AsAsked /\ SameSlot' = SameSlot
  BY RequestSame DEF SameSlot
<1>2. \A c \in Calls : CallFits(c, pc[c], mempool, receipts[c], result[c])'
  BY FitsSame
<1>3. Sent(AsAsked, mempool)' /\ Lone(mempool, Accounts, SameSlot)'
  BY <1>1 DEF Sent, Lone
<1>4. /\ (DOMAIN result = Calls)' /\ (DOMAIN pc = Calls)'
      /\ (DOMAIN mempool = Accounts)' /\ (plan \in Plans)'
  BY <1>1 DEF Once
<1>5. Figures(chain)'
  BY DEF Figures
<1>6. QED
  BY <1>1, <1>2, <1>3, <1>4, <1>5 DEF Once

LEMMA OnceStays ==
    ASSUME Once, UNCHANGED <<plan, chain, mempool, receipts, pc, result>>
    PROVE  Once'
<1>1. /\ Figures(chain') /\ Filed'
      /\ DOMAIN pc' = Calls /\ DOMAIN result' = Calls /\ DOMAIN mempool' = Accounts
      /\ Sent(AsAsked, mempool') /\ Lone(mempool', Accounts, SameSlot)
      /\ \A c \in Calls : CallFits(c, pc'[c], mempool', receipts'[c], result'[c])
  BY DEF Once, Filed, Calls
<1>2. QED
  BY <1>1, OnceHolds

\* The same for a step of one call that sends nothing.
LEMMA MoveHolds ==
    ASSUME Once, NEW c \in Calls, NEW to, Go(c, to),
           UNCHANGED <<plan, chain, mempool>>, Filed', DOMAIN result' = Calls,
           \A d \in Calls \ {c} : receipts'[d] = receipts[d] /\ result'[d] = result[d],
           CallFits(c, to, mempool, receipts'[c], result'[c])
    PROVE  Once'
<1>1. pc' = [pc EXCEPT ![c] = to] /\ DOMAIN pc = Calls
  BY DEF Once, Go
<1>2. ASSUME NEW d \in Calls
      PROVE  CallFits(d, pc'[d], mempool', receipts'[d], result'[d])
  <2>1. CASE d = c
    BY <1>1, <2>1
  <2>2. CASE d # c
    <3>1. CallFits(d, pc[d], mempool, receipts[d], result[d])
      BY DEF Once
    <3>2. /\ pc'[d] = pc[d] /\ receipts'[d] = receipts[d] /\ result'[d] = result[d]
          /\ mempool' = mempool
      BY <1>1, <2>2
    <3>3. QED
      BY <3>1, <3>2
  <2>3. QED
    BY <2>1, <2>2
<1>3. /\ Sent(AsAsked, mempool') /\ Lone(mempool', Accounts, SameSlot)
      /\ DOMAIN mempool' = Accounts /\ DOMAIN pc' = Calls /\ Figures(chain')
  BY <1>1 DEF Once
<1>4. QED
  BY <1>2, <1>3, OnceHolds

\* A call that ends without an answer, or goes on: what it has sent stays sent.
LEMMA GivesUpHolds ==
    ASSUME Once, NEW c \in Calls, NEW to \in AllLabels \ {"done"}, Go(c, to),
           pc[c] # "done",
           UNCHANGED <<plan, chain, mempool, receipts, result>>,
           to \in Approvals => Request(c).kind = "buy",
           to \in Unapproved => pc[c] \in Unapproved,
           pc[c] \in Unsent \/ to = "lost"
    PROVE  Once'
<1>1. CallFits(c, pc[c], mempool, receipts[c], result[c])
  BY DEF Once
<1>2. ApproveFits(c, to, mempool, receipts[c])
  BY <1>1 DEF CallFits, ApproveFits
<1>3. MainFits(c, to, mempool, receipts[c])
  BY <1>1, AllPlaces DEF CallFits, MainFits
<1>4. TellFits(c, to, mempool, receipts[c], result[c])
  <2>1. result[c] = NoResult
    BY <1>1 DEF CallFits, TellFits
  <2>2. pc[c] \in Unsent => ~MainOnWay(mempool, c) /\ ~receipts[c].main.ok
    BY <1>1 DEF CallFits, MainFits, NoReceipt
  <2>3. QED
    BY <2>1, <2>2 DEF TellFits
<1>5. CallFits(c, to, mempool, receipts[c], result[c])
  BY <1>2, <1>3, <1>4 DEF CallFits
<1>6. Filed' /\ DOMAIN result' = Calls
  BY DEF Once, Filed, Calls
<1>7. QED
  BY <1>5, <1>6, MoveHolds

\* A call has sent its approve, or what it is after, of which nothing was on its way.
LEMMA SentHolds ==
    ASSUME Once, NEW c \in Calls, NEW to, Go(c, to), NEW tx \in AsAsked, tx.call = c,
           UNCHANGED <<plan, chain, receipts, result>>,
           DOMAIN mempool' = Accounts, Sent(AsAsked, mempool'),
           Lone(mempool', Accounts, SameSlot), OnWayBut(mempool', mempool, tx),
           pc[c] \in Unsent,
           tx.kind = "approve" =>
               pc[c] \in Unapproved /\ to \in {"awaitApprove", "failed"},
           tx.kind # "approve" => to \in {"await", "lost"}
    PROVE  Once'
<1>1. /\ pc' = [pc EXCEPT ![c] = to] /\ DOMAIN pc = Calls
      /\ CallFits(c, pc[c], mempool, receipts[c], result[c])
  BY DEF Once, Go
<1>2. /\ ~MainOnWay(mempool, c) /\ receipts[c].main = NoReceipt /\ result[c] = NoResult
      /\ pc[c] \in Unapproved => ~ApproveOnWay(mempool, c) /\ receipts[c].approve = NoReceipt
      /\ ApproveOnWay(mempool, c) => receipts[c].approve = NoReceipt
  BY <1>1, AllPlaces DEF CallFits, ApproveFits, MainFits, TellFits
<1>3. tx.kind = "approve" => Request(c).kind = "buy"
  BY DEF AsAsked
<1>4. /\ ApproveOnWay(mempool', c) => ApproveOnWay(mempool, c) \/ tx.kind = "approve"
      /\ MainOnWay(mempool', c) => tx.kind # "approve"
  BY <1>2 DEF OnWayBut
<1>5. CallFits(c, to, mempool', receipts[c], result[c])
  <2>1. ApproveFits(c, to, mempool', receipts[c])
    BY <1>2, <1>3, <1>4 DEF ApproveFits, Approvals, Unapproved
  <2>2. MainFits(c, to, mempool', receipts[c])
    BY <1>2, <1>4, AllPlaces DEF MainFits
  <2>3. TellFits(c, to, mempool', receipts[c], result[c])
    BY <1>2, <1>4 DEF TellFits, NoReceipt
  <2>4. to \in AllLabels
    BY AllPlaces
  <2>5. QED
    BY <2>1, <2>2, <2>3, <2>4 DEF CallFits
<1>6. ASSUME NEW d \in Calls
      PROVE  CallFits(d, pc'[d], mempool', receipts'[d], result'[d])
  <2>1. CASE d = c
    BY <1>1, <1>5, <2>1
  <2>2. CASE d # c
    <3>1. CallFits(d, pc[d], mempool, receipts[d], result[d])
      BY DEF Once
    <3>2. pc'[d] = pc[d]
      BY <1>1, <2>2
    <3>3. /\ ApproveOnWay(mempool', d) => ApproveOnWay(mempool, d)
          /\ MainOnWay(mempool', d) => MainOnWay(mempool, d)
      BY <2>2 DEF OnWayBut
    <3>4. CallFits(d, pc[d], mempool', receipts[d], result[d])
      BY <3>1, <3>3, FitsStill
    <3>5. QED
      BY <3>2, <3>4
  <2>3. QED
    BY <2>1, <2>2
<1>7. Filed' /\ DOMAIN result' = Calls /\ DOMAIN pc' = Calls /\ Figures(chain')
  BY <1>1 DEF Once, Filed, Calls
<1>8. QED
  BY <1>6, <1>7, OnceHolds

\* Nothing like a transaction its call has not sent is on its way.
LEMMA NoneLike ==
    ASSUME NEW tx \in Transactions,
           tx.kind = "approve" => ~ApproveOnWay(mempool, tx.call),
           tx.kind # "approve" => ~MainOnWay(mempool, tx.call)
    PROVE  \A a \in Accounts : \A i \in DOMAIN mempool[a] :
               <<mempool[a][i], tx>> \notin SameSlot /\ <<tx, mempool[a][i]>> \notin SameSlot
<1> SUFFICES ASSUME NEW a \in Accounts, NEW i \in DOMAIN mempool[a]
             PROVE  <<mempool[a][i], tx>> \notin SameSlot /\ <<tx, mempool[a][i]>> \notin SameSlot
  OBVIOUS
<1> DEFINE other == mempool[a][i]
<1>1. ASSUME other.call = tx.call, other.kind = "approve" <=> tx.kind = "approve"
      PROVE  FALSE
  BY <1>1 DEF ApproveOnWay, MainOnWay
<1> HIDE DEF other
<1>2. QED
  BY <1>1 DEF SameSlot, other

\* What a call has not sent is not on its way.
LEMMA UnsentIsNot ==
    ASSUME Once, NEW c \in Calls, pc[c] \in Unsent
    PROVE  /\ ~MainOnWay(mempool, c)
           /\ pc[c] \in Unapproved => ~ApproveOnWay(mempool, c)
BY DEF Once, CallFits, ApproveFits, MainFits

\* A call that has its receipt throws, if its transaction failed, or tells of it.
LEMMA ThrowHolds ==
    ASSUME Once, NEW c \in Calls, pc[c] = "await", receipts[c].main.mined, Go(c, "failed"),
           UNCHANGED <<plan, chain, mempool, receipts, result>>, ~receipts[c].main.ok
    PROVE  Once'
<1>1. CallFits(c, pc[c], mempool, receipts[c], result[c])
  BY DEF Once
<1>2. ~MainOnWay(mempool, c) /\ result[c] = NoResult
  BY <1>1 DEF CallFits, MainFits, TellFits, NoReceipt
<1>3. CallFits(c, "failed", mempool, receipts[c], result[c])
  BY <1>1, <1>2, AllPlaces DEF CallFits, ApproveFits, MainFits, TellFits, Approvals, Unapproved
<1>4. Filed' /\ DOMAIN result' = Calls
  BY DEF Once, Filed, Calls
<1>5. QED
  BY <1>3, <1>4, MoveHolds

LEMMA ReturnHolds ==
    ASSUME Once, NEW c \in Calls, pc[c] = "await", receipts[c].main.mined, Go(c, "done"),
           UNCHANGED <<plan, chain, mempool, receipts>>, NEW report,
           result' = [result EXCEPT ![c] = report],
           Reported(c, receipts[c].main.events, report), Trade(c) => receipts[c].main.ok
    PROVE  Once'
<1>1. CallFits(c, pc[c], mempool, receipts[c], result[c]) /\ DOMAIN result = Calls
  BY DEF Once
<1>2. /\ result'[c] = report /\ DOMAIN result' = Calls
      /\ \A d \in Calls \ {c} : result'[d] = result[d]
  BY <1>1
<1>3. CallFits(c, "done", mempool, receipts[c], report)
  BY <1>1, AllPlaces DEF CallFits, ApproveFits, MainFits, TellFits, Approvals, Unapproved
<1>4. Filed'
  BY DEF Once, Filed, Calls
<1>5. QED
  BY <1>2, <1>3, <1>4, MoveHolds

\* The receipts after the transaction tx is mined with that outcome and those events.
Receives(tx, ok, e) ==
    receipts' = IF tx.kind = "approve"
                THEN [receipts EXCEPT ![tx.call].approve =
                          [mined |-> TRUE, ok |-> ok, events |-> e]]
                ELSE [receipts EXCEPT ![tx.call].main =
                          [mined |-> TRUE, ok |-> ok, events |-> e]]

LEMMA ReceiptsAfter ==
    ASSUME Filed, NEW tx, tx.call \in Calls, NEW ok, NEW e, Receives(tx, ok, e), plan' = plan
    PROVE  /\ Filed'
           /\ \A d \in Calls \ {tx.call} : receipts'[d] = receipts[d]
           /\ tx.kind = "approve" => receipts'[tx.call].main = receipts[tx.call].main
           /\ tx.kind = "approve" =>
                  receipts'[tx.call].approve = [mined |-> TRUE, ok |-> ok, events |-> e]
           /\ tx.kind # "approve" => receipts'[tx.call].approve = receipts[tx.call].approve
           /\ tx.kind # "approve" =>
                  receipts'[tx.call].main = [mined |-> TRUE, ok |-> ok, events |-> e]
<1>1. /\ DOMAIN receipts' = Calls /\ Calls' = Calls
      /\ \A d \in Calls \ {tx.call} : receipts'[d] = receipts[d]
  BY DEF Receives, Filed, Calls
<1>2. CASE tx.kind = "approve"
  <2>1. receipts'[tx.call] = [receipts[tx.call] EXCEPT !.approve =
                                  [mined |-> TRUE, ok |-> ok, events |-> e]]
    BY <1>2 DEF Receives, Filed
  <2>2. /\ DOMAIN receipts'[tx.call] = DOMAIN receipts[tx.call]
        /\ receipts'[tx.call].main = receipts[tx.call].main
        /\ receipts'[tx.call].approve = [mined |-> TRUE, ok |-> ok, events |-> e]
    BY <2>1 DEF Filed
  <2>3. QED
    BY <1>1, <1>2, <2>2 DEF Filed
<1>3. CASE tx.kind # "approve"
  <2>1. receipts'[tx.call] = [receipts[tx.call] EXCEPT !.main =
                                  [mined |-> TRUE, ok |-> ok, events |-> e]]
    BY <1>3 DEF Receives, Filed
  <2>2. /\ DOMAIN receipts'[tx.call] = DOMAIN receipts[tx.call]
        /\ receipts'[tx.call].approve = receipts[tx.call].approve
        /\ receipts'[tx.call].main = [mined |-> TRUE, ok |-> ok, events |-> e]
    BY <2>1 DEF Filed
  <2>3. QED
    BY <1>1, <1>3, <2>2 DEF Filed
<1>4. QED
  BY <1>2, <1>3

\* Where the transaction that is mined stood: its call had no answer to it, is
\* waiting for it or has been lost, and there is no other like it.
FirstOf(tx, queue) ==
    /\ tx.kind = "approve" => /\ receipts[tx.call].approve = NoReceipt
                              /\ ~ApproveOnWay(queue, tx.call)
                              /\ pc[tx.call] \notin Unapproved
    /\ tx.kind # "approve" => /\ receipts[tx.call].main = NoReceipt
                              /\ ~MainOnWay(queue, tx.call)
                              /\ pc[tx.call] \in {"await", "lost"}

LEMMA FirstIsLone ==
    ASSUME Once, NEW tx \in AsAsked,
           \E a \in Accounts : \E i \in DOMAIN mempool[a] : tx = mempool[a][i],
           Sent(AsAsked, mempool'),
           \A b \in Accounts : \A j \in DOMAIN mempool'[b] : <<tx, mempool'[b][j]>> \notin SameSlot
    PROVE  FirstOf(tx, mempool')
<1>1. tx.call \in Calls /\ tx \in Transactions
  BY DEF AsAsked
<1>2. CallFits(tx.call, pc[tx.call], mempool, receipts[tx.call], result[tx.call])
  BY <1>1 DEF Once
<1>3. /\ tx.kind = "approve" => ApproveOnWay(mempool, tx.call)
      /\ tx.kind # "approve" => MainOnWay(mempool, tx.call)
  BY DEF ApproveOnWay, MainOnWay
<1>4. ASSUME NEW b \in Accounts, NEW j \in DOMAIN mempool'[b],
             mempool'[b][j].call = tx.call,
             mempool'[b][j].kind = "approve" <=> tx.kind = "approve"
      PROVE  FALSE
  <2>1. mempool'[b][j] \in Transactions /\ <<tx, mempool'[b][j]>> \notin SameSlot
    BY DEF AsAsked, Sent
  <2>2. QED
    BY <1>1, <1>4, <2>1 DEF SameSlot
<1>5. CASE tx.kind = "approve"
  <2>1. ~ApproveOnWay(mempool', tx.call)
    BY <1>4, <1>5 DEF ApproveOnWay
  <2>2. QED
    BY <1>2, <1>3, <1>5, <2>1 DEF CallFits, ApproveFits, FirstOf
<1>6. CASE tx.kind # "approve"
  <2>1. ~MainOnWay(mempool', tx.call)
    BY <1>4, <1>6 DEF MainOnWay
  <2>2. receipts[tx.call].main = NoReceipt /\ pc[tx.call] \in AllLabels \ Unsent
    BY <1>2, <1>3, <1>6 DEF CallFits, MainFits
  <2>3. pc[tx.call] # "done" /\ pc[tx.call] # "failed"
    BY <1>2, <1>3, <1>6, <2>2 DEF CallFits, TellFits, NoReceipt
  <2>4. pc[tx.call] \in {"await", "lost"}
    BY <2>2, <2>3, AllPlaces
  <2>5. QED
    BY <1>6, <2>1, <2>2, <2>4 DEF FirstOf
<1>7. QED
  BY <1>5, <1>6

\* The transaction tx is mined, with that outcome and those events.
Answers(tx, ok, e) ==
    /\ tx \in AsAsked /\ ok \in BOOLEAN
    /\ Accounted(chain, chain', Native, tx, ok, e)
    /\ Told(Native, tx, ok, e)
    /\ (chain.migrated => chain.graduated) => MigratedAs(chain, chain', tx.kind, e)
    /\ Receives(tx, ok, e)

LEMMA AnswerHolds ==
    ASSUME Once, UNCHANGED <<plan, pc, result>>, DOMAIN mempool' = Accounts,
           NEW tx, NEW ok, NEW e, Answers(tx, ok, e), FirstOf(tx, mempool'),
           Sent(AsAsked, mempool'), Lone(mempool', Accounts, SameSlot),
           OnWayStill(mempool', mempool)
    PROVE  Once'
<1>1. /\ tx \in AsAsked /\ tx.call \in Calls /\ ok \in BOOLEAN /\ Receives(tx, ok, e)
      /\ Told(Native, tx, ok, e) /\ Figures(chain') /\ e.tokens \in Int /\ e.quote \in Int
  BY DEF Answers, Accounted, AsAsked
<1>2. /\ Filed'
      /\ \A d \in Calls \ {tx.call} : receipts'[d] = receipts[d]
      /\ tx.kind = "approve" => receipts'[tx.call].main = receipts[tx.call].main
      /\ tx.kind # "approve" => receipts'[tx.call].approve = receipts[tx.call].approve
      /\ tx.kind # "approve" =>
             receipts'[tx.call].main = [mined |-> TRUE, ok |-> ok, events |-> e]
  BY <1>1, ReceiptsAfter DEF Once
<1>3. ASSUME NEW d \in Calls
      PROVE  CallFits(d, pc[d], mempool', receipts[d], result[d])
  <2>1. CallFits(d, pc[d], mempool, receipts[d], result[d])
    BY DEF Once
  <2>2. /\ ApproveOnWay(mempool', d) => ApproveOnWay(mempool, d)
        /\ MainOnWay(mempool', d) => MainOnWay(mempool, d)
    BY DEF OnWayStill
  <2>3. QED
    BY <2>1, <2>2, FitsStill
<1>4. CallFits(tx.call, pc[tx.call], mempool', receipts'[tx.call], result[tx.call])
  <2> DEFINE c == tx.call
             r == receipts'[tx.call]
  <2>1. CallFits(c, pc[c], mempool', receipts[c], result[c])
    BY <1>1, <1>3
  <2>2. CASE tx.kind = "approve"
    <3>1. ApproveFits(c, pc[c], mempool', r)
      BY <2>1, <2>2 DEF CallFits, ApproveFits, FirstOf
    <3>2. MainFits(c, pc[c], mempool', r)
      BY <1>2, <2>1, <2>2 DEF CallFits, MainFits
    <3>3. TellFits(c, pc[c], mempool', r, result[c])
      BY <1>2, <2>1, <2>2 DEF CallFits, TellFits
    <3>4. QED
      BY <2>1, <3>1, <3>2, <3>3 DEF CallFits
  <2>3. CASE tx.kind # "approve"
    <3>1. /\ r.approve = receipts[c].approve
          /\ r.main = [mined |-> TRUE, ok |-> ok, events |-> e]
      BY <1>2, <2>3
    <3>2. tx.kind = Request(c).kind /\ tx.amount = Request(c).amount
      BY <1>1, <2>3 DEF AsAsked
    <3> DEFINE m == r.main
    <3>3. m.mined = TRUE /\ m.ok = ok /\ m.events = e
      BY <3>1
    <3> HIDE DEF m
    <3>4. Told(Native, Request(c), ok, e)
      BY <1>1, <3>2 DEF Told
    <3>5. Answer(c, m)
      BY <1>1, <3>3, <3>4, Zenon DEF Answer
    <3>6. pc[c] \in {"await", "lost"} /\ ~MainOnWay(mempool', c)
      BY <2>3 DEF FirstOf
    <3>7. ApproveFits(c, pc[c], mempool', r)
      BY <2>1, <3>1 DEF CallFits, ApproveFits
    <3>8. MainFits(c, pc[c], mempool', r)
      BY <3>5, <3>6, AllPlaces DEF MainFits, m
    <3>9. TellFits(c, pc[c], mempool', r, result[c])
      BY <2>1, <3>6 DEF CallFits, TellFits
    <3>10. QED
      BY <2>1, <3>7, <3>8, <3>9 DEF CallFits
  <2>4. QED
    BY <2>2, <2>3
<1>5. ASSUME NEW d \in Calls
      PROVE  CallFits(d, pc'[d], mempool', receipts'[d], result'[d])
  <2>1. pc'[d] = pc[d] /\ result'[d] = result[d]
    OBVIOUS
  <2>2. CASE d = tx.call
    BY <1>4, <2>1, <2>2
  <2>3. CASE d # tx.call
    <3>1. receipts'[d] = receipts[d]
      BY <1>2, <2>3
    <3>2. QED
      BY <1>3, <2>1, <3>1
  <2>4. QED
    BY <2>2, <2>3
<1>6. DOMAIN pc' = Calls /\ DOMAIN result' = Calls
  BY DEF Once
<1>7. QED
  BY <1>1, <1>2, <1>5, <1>6, OnceHolds

LEMMA InitOnce == Init => Once
<1> SUFFICES ASSUME Init PROVE Once
  OBVIOUS
<1>1. /\ mempool = [a \in Accounts |-> <<>>]
      /\ receipts = [c \in Calls |-> [approve |-> NoReceipt, main |-> NoReceipt]]
      /\ pc = [c \in Calls |-> "idle"] /\ result = [c \in Calls |-> NoResult]
      /\ plan \in Plans /\ chain = Genesis
  BY DEF Init
<1>2. Figures(chain)
  <2>1. Curve.r0 \in Nat /\ Funds \in Nat
    BY CurveWhole, ChainAssumption
  <2>2. QED
    BY <1>1, <2>1 DEF Figures, Genesis
<1>3. Sent(AsAsked, mempool) /\ Lone(mempool, Accounts, SameSlot) /\ Filed
  BY <1>1 DEF Sent, Lone, Filed
<1>4. ASSUME NEW c \in Calls
      PROVE  CallFits(c, pc[c], mempool, receipts[c], result[c])
  <2>1. ~ApproveOnWay(mempool, c) /\ ~MainOnWay(mempool, c)
    BY <1>1 DEF ApproveOnWay, MainOnWay
  <2>2. /\ pc[c] = "idle" /\ receipts[c].approve = NoReceipt
        /\ receipts[c].main = NoReceipt /\ result[c] = NoResult
    BY <1>1
  <2>3. ApproveFits(c, pc[c], mempool, receipts[c])
    BY <2>1, <2>2 DEF ApproveFits, Approvals
  <2>4. MainFits(c, pc[c], mempool, receipts[c])
    BY <2>1, <2>2 DEF MainFits
  <2>5. TellFits(c, pc[c], mempool, receipts[c], result[c])
    BY <2>2 DEF TellFits
  <2>6. QED
    BY <2>2, <2>3, <2>4, <2>5, AllPlaces DEF CallFits
<1>5. QED
  BY <1>1, <1>2, <1>3, <1>4 DEF Once

\* A call whose transaction is on its way ends by its receipt, or is lost, but does
\* not throw as one that failed.
LEMMA OnceThrows == ASSUME Once PROVE ThrowsMeanNoTrade
<1> SUFFICES ASSUME NEW c \in Calls, pc[c] = "failed"
             PROVE  /\ ~receipts[c].main.ok
                    /\ \A a \in Accounts : \A i \in DOMAIN mempool[a] :
                           mempool[a][i].call = c => mempool[a][i].kind = "approve"
  BY DEF ThrowsMeanNoTrade
<1>1. ~MainOnWay(mempool, c) /\ ~receipts[c].main.ok
  BY DEF Once, CallFits, TellFits
<1>2. QED
  BY <1>1 DEF MainOnWay
-----------------------------------------------------------------------------
(* The calls of the TypeScript client send what they send once.            *)

OnceInv == GasInv /\ Once

LEMMA OnceTypes ==
    ASSUME OnceInv
    PROVE  /\ plan \in Plans /\ pc \in [Calls -> Labels] /\ gas \in [Calls -> Nat]
           /\ mempool \in [Accounts -> Seq(Transactions)] /\ Once /\ Filed /\ Figures(chain)
BY DEF OnceInv, GasInv, Places, Once

\* What is on its way after a transaction is added, and after one is removed.
LEMMA OnWayAppended ==
    ASSUME NEW queue \in [Accounts -> Seq(Transactions)], NEW f \in Accounts,
           NEW tx \in Transactions
    PROVE  OnWayBut([queue EXCEPT ![f] = Append(@, tx)], queue, tx)
<1> DEFINE longer == [queue EXCEPT ![f] = Append(@, tx)]
<1>1. \A a \in Accounts : \A i \in DOMAIN longer[a] :
         \/ i \in DOMAIN queue[a] /\ longer[a][i] = queue[a][i]
         \/ longer[a][i] = tx
  BY PlaceAppended
<1> HIDE DEF longer
<1>2. ASSUME NEW c \in Calls, ApproveOnWay(longer, c)
      PROVE  ApproveOnWay(queue, c) \/ (tx.call = c /\ tx.kind = "approve")
  BY <1>1, <1>2 DEF ApproveOnWay
<1>3. ASSUME NEW c \in Calls, MainOnWay(longer, c)
      PROVE  MainOnWay(queue, c) \/ (tx.call = c /\ tx.kind # "approve")
  BY <1>1, <1>3 DEF MainOnWay
<1>4. QED
  BY <1>2, <1>3 DEF longer, OnWayBut

LEMMA OnWayRemoved ==
    ASSUME NEW queue \in [Accounts -> Seq(Transactions)], NEW f \in Accounts,
           queue[f] # <<>>
    PROVE  OnWayStill([queue EXCEPT ![f] = Tail(@)], queue)
<1> DEFINE shorter == [queue EXCEPT ![f] = Tail(@)]
<1>1. \A a \in Accounts : \A i \in DOMAIN shorter[a] :
         \E j \in DOMAIN queue[a] : shorter[a][i] = queue[a][j]
  BY PlaceRemoved
<1> HIDE DEF shorter
<1>2. \A c \in Calls : ApproveOnWay(shorter, c) => ApproveOnWay(queue, c)
  BY <1>1 DEF ApproveOnWay
<1>3. \A c \in Calls : MainOnWay(shorter, c) => MainOnWay(queue, c)
  BY <1>1 DEF MainOnWay
<1>4. QED
  BY <1>2, <1>3 DEF shorter, OnWayStill

\* The steps before the sending that send nothing, and those that get no answer.
LEMMA QuietHolds ==
    ASSUME OnceInv, NEW c \in Calls,
           \/ Start(c) \/ ReadAllowance(c) \/ Preflight(c) \/ SimulateApprove(c)
           \/ AwaitApprove(c) \/ Estimate(c) \/ Simulate(c) \/ RpcFails(c)
           \/ (SendsApprove(c) \/ SendsMain(c)) /\ UNCHANGED mempool /\ Go(c, "failed")
    PROVE  Once'
<1>1. CallFits(c, pc[c], mempool, receipts[c], result[c]) /\ Once
  BY DEF OnceInv, Once
<1>2. Request(c).kind \in {"buy", "sell", "migrate", "withdraw"} /\ Request(c).amount \in Nat
  BY OnceTypes, RequestTypes DEF Requests
<1> DEFINE Goes(to) ==
             /\ Go(c, to) /\ pc[c] # "done"
             /\ to \in Approvals => Request(c).kind = "buy"
             /\ to \in Unapproved => pc[c] \in Unapproved
             /\ pc[c] \in Unsent \/ to = "lost"
<1>3. UNCHANGED <<plan, chain, receipts, result, mempool>>
  BY SendingSteps DEF Start, ReadAllowance, Preflight, SimulateApprove, AwaitApprove,
     Estimate, Simulate, RpcFails
<1>4. \E to \in AllLabels \ {"done"} : Goes(to)
  <2>1. CASE Start(c)
    <3>1. \/ Go(c, "failed") \/ Go(c, "simulate") \/ Go(c, "estimate")
          \/ Go(c, "allowance") /\ Request(c).kind = "buy"
      BY <1>2, <2>1 DEF Start
    <3>2. pc[c] = "idle"
      BY <2>1 DEF Start
    <3>3. QED
      BY <3>1, <3>2, AllPlaces DEF Approvals, Unapproved
  <2>2. CASE ReadAllowance(c) \/ Preflight(c) \/ SimulateApprove(c)
    <3>1. pc[c] \in {"allowance", "preflight", "simulateApprove"}
      BY <2>2 DEF ReadAllowance, Preflight, SimulateApprove
    <3>2. Request(c).kind = "buy"
      BY <1>1, <3>1 DEF CallFits, ApproveFits, Approvals
    <3>3. \E to \in {"estimate", "preflight", "simulateApprove", "sendApprove", "failed"} :
              Go(c, to)
      BY <2>2 DEF ReadAllowance, Preflight, SimulateApprove
    <3>4. QED
      BY <3>1, <3>2, <3>3, AllPlaces DEF Unapproved
  <2>3. CASE AwaitApprove(c) \/ Estimate(c) \/ Simulate(c)
    <3>1. pc[c] \in {"awaitApprove", "estimate", "simulate"}
      BY <2>3 DEF AwaitApprove, Estimate, Simulate
    <3>2. \E to \in {"estimate", "simulate", "send", "failed"} : Go(c, to)
      BY <2>3 DEF AwaitApprove, Estimate, Simulate
    <3>3. QED
      BY <3>1, <3>2, AllPlaces DEF Approvals, Unapproved
  <2>4. CASE (SendsApprove(c) \/ SendsMain(c)) /\ Go(c, "failed")
    <3>1. pc[c] \in {"sendApprove", "send"}
      BY <2>4, SendingSteps
    <3>2. QED
      BY <2>4, <3>1, AllPlaces DEF Approvals, Unapproved
  <2>5. CASE RpcFails(c)
    <3>1. /\ pc[c] \in AllLabels \ Final
          /\ Go(c, IF pc[c] \in {"send", "await"} THEN "lost" ELSE "failed")
      BY <1>1, <2>5 DEF RpcFails, CallFits
    <3>2. QED
      BY <3>1, AllPlaces DEF Approvals, Unapproved
  <2>6. QED
    BY <2>1, <2>2, <2>3, <2>4, <2>5
<1>5. PICK to \in AllLabels \ {"done"} : Goes(to)
  BY <1>4
<1>6. QED
  BY <1>1, <1>3, <1>5, GivesUpHolds

\* A transaction a call had not sent is sent.
LEMMA AppendHolds ==
    ASSUME OnceInv, NEW c \in Calls, NEW to, Go(c, to), NEW tx \in AsAsked, tx.call = c,
           mempool' = [mempool EXCEPT ![Request(c).from] = Append(@, tx)],
           UNCHANGED <<plan, chain, receipts, result>>, pc[c] \in Unsent,
           tx.kind = "approve" =>
               pc[c] \in Unapproved /\ to \in {"awaitApprove", "failed"},
           tx.kind # "approve" => to \in {"await", "lost"}
    PROVE  Once'
<1>1. /\ mempool \in [Accounts -> Seq(Transactions)] /\ tx \in Transactions
      /\ Request(c).from \in Accounts /\ Once
      /\ Sent(AsAsked, mempool) /\ Lone(mempool, Accounts, SameSlot)
  BY OnceTypes, RequestTypes DEF AsAsked, Requests, Once
<1>2. /\ ~MainOnWay(mempool, c)
      /\ pc[c] \in Unapproved => ~ApproveOnWay(mempool, c)
  BY <1>1, UnsentIsNot
<1>3. \A a \in Accounts : \A i \in DOMAIN mempool[a] :
          <<mempool[a][i], tx>> \notin SameSlot /\ <<tx, mempool[a][i]>> \notin SameSlot
  BY <1>1, <1>2, NoneLike
<1>4. Lone(mempool', Accounts, SameSlot)
  BY <1>1, <1>3, LoneAppended
<1>5. Sent(AsAsked, mempool') /\ mempool' \in [Accounts -> Seq(Transactions)]
  BY <1>1, Appended
<1>6. OnWayBut(mempool', mempool, tx) /\ DOMAIN mempool' = Accounts
  BY <1>1, <1>5, OnWayAppended
<1>7. QED
  BY <1>1, <1>4, <1>5, <1>6, SentHolds

LEMMA SendsApproveHolds ==
    ASSUME OnceInv, NEW c \in Calls, SendsApprove(c), ~(UNCHANGED mempool /\ Go(c, "failed"))
    PROVE  Once'
<1>1. /\ pc[c] = "sendApprove" /\ plan \in Plans
      /\ UNCHANGED <<plan, chain, receipts, result>>
      /\ mempool' = [mempool EXCEPT ![Request(c).from] = Append(@, Approval(c))]
      /\ Go(c, "awaitApprove") \/ Go(c, "failed")
  BY SendingSteps, OnceTypes
<1>2. Request(c).kind = "buy"
  BY <1>1 DEF OnceInv, Once, CallFits, ApproveFits, Approvals
<1>3. Approval(c) \in AsAsked /\ Approval(c).call = c /\ Approval(c).kind = "approve"
  <2>1. 0 \in Nat
    OBVIOUS
  <2>2. Approval(c) \in Transactions
    BY <1>1, <2>1, TransactionTypes
  <2>3. /\ Approval(c).call = c /\ Approval(c).kind = "approve"
        /\ Approval(c).from = Request(c).from /\ Approval(c).amount = Request(c).amount
    BY DEF Approval
  <2>4. QED
    BY <1>2, <2>2, <2>3 DEF AsAsked
<1>4. pc[c] \in Unsent /\ pc[c] \in Unapproved
  BY <1>1, AllPlaces DEF Unapproved
<1>5. QED
  BY <1>1, <1>3, <1>4, AppendHolds

LEMMA SendsMainHolds ==
    ASSUME OnceInv, NEW c \in Calls, SendsMain(c), ~(UNCHANGED mempool /\ Go(c, "failed"))
    PROVE  Once'
<1> DEFINE tx == Transaction(c, LimitSent(c))
<1>1. /\ pc[c] = "send" /\ plan \in Plans /\ gas \in [Calls -> Nat]
      /\ UNCHANGED <<plan, chain, receipts, result>>
      /\ mempool' = [mempool EXCEPT ![Request(c).from] = Append(@, tx)]
      /\ Go(c, "await") \/ Go(c, "lost")
  BY SendingSteps, OnceTypes
<1>2. LimitSent(c) \in Nat
  BY <1>1, LimitWhole
<1>3. tx \in Transactions /\ Request(c).kind # "approve"
  BY <1>1, <1>2, TransactionTypes, RequestTypes DEF Requests
<1>4. tx \in AsAsked /\ tx.call = c /\ tx.kind # "approve"
  BY <1>3 DEF Transaction, AsAsked
<1>5. pc[c] \in Unsent
  BY <1>1, AllPlaces
<1> HIDE DEF tx
<1>6. QED
  BY <1>1, <1>4, <1>5, AppendHolds

\* A call that ends was told what its transaction did, or its trade came to nothing.
LEMMA AwaitHolds ==
    ASSUME OnceInv, NEW c \in Calls, Await(c) PROVE Once'
<1> DEFINE main == receipts[c].main
           e == main.events
           missed == Trade(c) /\ ~e.trade
<1>1. /\ pc[c] = "await" /\ main.mined /\ Once
      /\ UNCHANGED <<plan, chain, mempool, receipts>>
      /\ missed => Go(c, "failed") /\ UNCHANGED result
      /\ ~missed => Go(c, "done") /\ result' = [result EXCEPT ![c] = Report(c)]
  BY OnceTypes DEF Await, Trade
<1>2. Answer(c, main)
  BY <1>1 DEF Once, CallFits, MainFits, NoReceipt
<1>3. CASE missed
  <2>1. ~main.ok
    BY <1>2, <1>3 DEF Answer, Told, Trade
  <2>2. QED
    BY <1>1, <1>3, <2>1, ThrowHolds
<1>4. CASE ~missed
  <2>1. Trade(c) => main.ok
    BY <1>2, <1>4 DEF Answer, Told, NoEvents, Trade
  <2>2. Reported(c, e, Report(c))
    <3>1. CASE Request(c).kind = "buy"
      <4>1. /\ e.quote \in Int /\ e.quote <= Request(c).amount
            /\ e.refund = IF Native THEN Request(c).amount - e.quote ELSE 0
        BY <1>2, <2>1, <3>1 DEF Answer, Told, Trade
      <4>2. Request(c).amount \in Nat
        BY OnceTypes, RequestTypes DEF Requests
      <4>3. /\ Report(c).tokens = e.tokens /\ Report(c).quote = e.quote
            /\ Report(c).refund = IF e.refund # 0 THEN e.refund
                                  ELSE IF Native THEN 0 ELSE Monus(Request(c).amount, e.quote)
        BY <3>1 DEF Report
      <4>4. Report(c).refund = Request(c).amount - e.quote
        BY <4>1, <4>2, <4>3 DEF Monus
      <4>5. QED
        BY <3>1, <4>3, <4>4 DEF Reported
    <3>2. CASE Request(c).kind = "sell"
      <4>1. Report(c) = [NoResult EXCEPT !.quote = e.quote]
        BY <3>2 DEF Report
      <4>2. Report(c).quote = e.quote
        BY <4>1 DEF NoResult
      <4>3. QED
        BY <3>2, <4>2 DEF Reported
    <3>3. QED
      BY <3>1, <3>2 DEF Reported
  <2>3. QED
    BY <1>1, <1>4, <2>1, <2>2, ReturnHolds
<1>5. QED
  BY <1>3, <1>4

\* Nothing of a migrate() that is called again is on its way.
LEMMA CallAgainHolds ==
    ASSUME OnceInv, NEW c \in Calls, CallAgain(c) PROVE Once'
<1>1. /\ Request(c).kind = "migrate" /\ Go(c, "simulate") /\ pc[c] \in Final
      /\ receipts' = [receipts EXCEPT ![c].main = NoReceipt]
      /\ result' = [result EXCEPT ![c] = NoResult]
      /\ UNCHANGED <<plan, chain, mempool>>
  BY DEF CallAgain
<1>2. /\ DOMAIN result = Calls /\ Filed /\ Once
      /\ CallFits(c, pc[c], mempool, receipts[c], result[c])
  BY DEF OnceInv, Once
<1>3. /\ DOMAIN result' = Calls /\ receipts'[c].approve = receipts[c].approve
      /\ receipts'[c].main = NoReceipt /\ result'[c] = NoResult
      /\ \A d \in Calls \ {c} : receipts'[d] = receipts[d] /\ result'[d] = result[d]
      /\ DOMAIN receipts' = Calls /\ DOMAIN receipts'[c] = DOMAIN receipts[c]
  BY <1>1, <1>2 DEF Filed
<1>4. Filed'
  BY <1>1, <1>2, <1>3 DEF Filed, Calls
<1>5. ~MainOnWay(mempool, c)
  BY DEF CallAgain, MainOnWay
<1>6. ApproveFits(c, "simulate", mempool, receipts'[c])
  BY <1>2, <1>3 DEF CallFits, ApproveFits, Approvals, Unapproved
<1>7. /\ MainFits(c, "simulate", mempool, receipts'[c])
      /\ TellFits(c, "simulate", mempool, receipts'[c], result'[c])
  BY <1>3, <1>5 DEF MainFits, TellFits
<1>8. CallFits(c, "simulate", mempool, receipts'[c], result'[c])
  BY <1>6, <1>7, AllPlaces DEF CallFits
<1>9. QED
  BY <1>1, <1>2, <1>3, <1>4, <1>8, MoveHolds

\* What is mined is the first of its account's transactions, and is what a call asked for.
LEMMA MineAnswers ==
    ASSUME OnceInv, NEW a \in Accounts, Mine(a)
    PROVE  \E tx, ok, e : Answers(tx, ok, e) /\ FirstOf(tx, mempool')
<1> DEFINE tx == Head(mempool[a])
           o == Outcome(chain, world, Native, tx)
<1>1. /\ mempool[a] # <<>> /\ mempool \in [Accounts -> Seq(Transactions)]
      /\ mempool' = [mempool EXCEPT ![a] = Tail(@)]
      /\ chain' = o.chain /\ plan \in Plans /\ Once /\ Figures(chain)
      /\ receipts' = IF tx.kind = "approve"
                     THEN [receipts EXCEPT ![tx.call].approve =
                               [mined |-> TRUE, ok |-> o.ok, events |-> o.events]]
                     ELSE [receipts EXCEPT ![tx.call].main =
                               [mined |-> TRUE, ok |-> o.ok, events |-> o.events]]
  BY OnceTypes DEF Mine
<1>2. mempool[a] \in Seq(Transactions)
  BY <1>1
<1>3. 1 \in DOMAIN mempool[a] /\ tx = mempool[a][1]
  BY <1>1, <1>2
<1>4. tx \in AsAsked /\ tx \in Transactions
  BY <1>1, <1>3 DEF Once, Sent, AsAsked
<1>5. /\ Sent(AsAsked, mempool')
      /\ \A b \in Accounts : \A j \in DOMAIN mempool'[b] : <<tx, mempool'[b][j]>> \notin SameSlot
  <2> DEFINE first == mempool[a][1]
  <2>1. Sent(AsAsked, mempool) /\ Lone(mempool, Accounts, SameSlot)
    BY <1>1 DEF Once
  <2>2. /\ Sent(AsAsked, mempool')
        /\ \A b \in Accounts : \A j \in DOMAIN mempool'[b] :
               <<first, mempool'[b][j]>> \notin SameSlot
    BY <1>1, <2>1, Removed, LoneRemoved
  <2>3. first = tx
    BY <1>3
  <2> HIDE DEF first, tx
  <2>4. QED
    BY <2>2, <2>3
<1>6. Native \in BOOLEAN
  BY <1>1, PlansAssumption DEF Native
<1> HIDE DEF tx
<1>7. FirstOf(tx, mempool')
  BY <1>1, <1>3, <1>4, <1>5, FirstIsLone
<1>8. /\ o.ok \in BOOLEAN
      /\ Accounted(chain, o.chain, Native, tx, o.ok, o.events)
      /\ Told(Native, tx, o.ok, o.events)
  BY <1>1, <1>4, <1>6, OutcomeAccounted
<1> HIDE DEF o
<1>9. Accounted(chain, chain', Native, tx, o.ok, o.events)
  BY <1>1, <1>8, Zenon
<1>10. (chain.migrated => chain.graduated) => MigratedAs(chain, chain', tx.kind, o.events)
  <2>1. (chain.migrated => chain.graduated) => MigratedAs(chain, o.chain, tx.kind, o.events)
    BY <1>1, <1>4, <1>6, OutcomeMigratedAs DEF o
  <2>2. QED
    BY <1>1, <2>1, Zenon
<1>11. Answers(tx, o.ok, o.events)
  BY <1>1, <1>4, <1>8, <1>9, <1>10 DEF Answers, Receives
<1>12. QED
  BY <1>7, <1>11

LEMMA MineHolds ==
    ASSUME OnceInv, NEW a \in Accounts, Mine(a) PROVE Once'
<1>1. PICK tx, ok, e : Answers(tx, ok, e) /\ FirstOf(tx, mempool')
  BY MineAnswers
<1>2. /\ UNCHANGED <<plan, pc, result>> /\ mempool[a] # <<>> /\ Once
      /\ mempool \in [Accounts -> Seq(Transactions)]
      /\ mempool' = [mempool EXCEPT ![a] = Tail(@)]
  BY OnceTypes DEF Mine
<1>3. /\ Sent(AsAsked, mempool') /\ Lone(mempool', Accounts, SameSlot)
      /\ DOMAIN mempool' = Accounts
  BY <1>2, Removed, LoneRemoved DEF Once
<1>4. OnWayStill(mempool', mempool)
  BY <1>2, OnWayRemoved
<1>5. QED
  BY <1>1, <1>2, <1>3, <1>4, AnswerHolds

LEMMA NextOnce == OnceInv /\ [Next]_vars => OnceInv'
<1> SUFFICES ASSUME OnceInv, [Next]_vars PROVE Once'
  BY NextGasInv DEF OnceInv
<1>1. ASSUME NEW c \in Calls, Step(c) \/ RpcFails(c) \/ AnswerLost(c) PROVE Once'
  <2>1. \/ Start(c) \/ ReadAllowance(c) \/ Preflight(c) \/ SimulateApprove(c)
        \/ AwaitApprove(c) \/ Estimate(c) \/ Simulate(c) \/ RpcFails(c)
        \/ SendsApprove(c) \/ SendsMain(c) \/ Await(c)
    BY <1>1, SendingSteps DEF Step, SendsApprove, SendsMain
  <2>2. QED
    BY <2>1, QuietHolds, SendsApproveHolds, SendsMainHolds, AwaitHolds
<1>2. ASSUME NEW c \in Calls, CallAgain(c) PROVE Once'
  BY <1>2, CallAgainHolds
<1>3. ASSUME NEW a \in Accounts, Mine(a) PROVE Once'
  BY <1>3, MineHolds
<1>4. CASE WorldChanges \/ UNCHANGED vars
  BY <1>4, OnceStays, OnceTypes DEF WorldChanges, vars
<1>5. QED
  BY <1>1, <1>2, <1>3, <1>4 DEF Next

LEMMA InitOnceInv == Init => OnceInv
BY InitGasInv, InitOnce DEF OnceInv

-----------------------------------------------------------------------------
(* A migration is told by the one call that made it.  The invariant is     *)
(* that exactly one receipt names a migration the chain has seen, whatever *)
(* else has been mined, and that a call that returned told of its receipt. *)

Moved(c, r) == r[c].main.events.migrated

MigrationFiled(s, r) ==
    /\ s.migrated => s.graduated /\ \E c \in Calls : Moved(c, r)
    /\ ~s.migrated => s.forwarded = 0
    /\ \A c \in Calls :
         /\ Moved(c, r) => s.migrated /\ Request(c).kind \in {"buy", "migrate"}
         /\ Request(c).kind = "migrate" =>
                r[c].main.events.quote = IF Moved(c, r) THEN s.forwarded ELSE 0
         /\ \A d \in Calls : Moved(c, r) /\ Moved(d, r) => c = d

MigrationTold ==
    \A c \in Calls :
        pc[c] = "done" =>
            /\ result[c].migrated <=> Moved(c, receipts)
            /\ Request(c).kind = "migrate" => result[c].quote = receipts[c].main.events.quote

MigrationInv == OnceInv /\ MigrationFiled(chain, receipts) /\ MigrationTold

LEMMA MigrationSame ==
    ASSUME plan' = plan, MigrationFiled(chain', receipts')
    PROVE  MigrationFiled(chain, receipts)'
<1>1. Calls' = Calls /\ \A c \in Calls : Request(c)' = Request(c)
  BY RequestSame
<1>2. QED
  BY <1>1 DEF MigrationFiled, Moved

\* A call that tells nothing new, when no receipt of one that returned changes.
LEMMA TellingStays ==
    ASSUME MigrationInv, plan' = plan,
           \A c \in Calls : pc'[c] = "done" =>
               /\ pc[c] = "done" /\ result'[c] = result[c]
               /\ receipts'[c].main = receipts[c].main
    PROVE  MigrationTold'
<1>1. Calls' = Calls /\ \A c \in Calls : Request(c)' = Request(c)
  BY RequestSame
<1>2. QED
  BY <1>1 DEF MigrationInv, MigrationTold, Moved

LEMMA MineFiles ==
    ASSUME MigrationInv, NEW a \in Accounts, Mine(a)
    PROVE  MigrationFiled(chain', receipts') /\ MigrationTold'
<1>1. PICK tx, ok, e : Answers(tx, ok, e) /\ FirstOf(tx, mempool')
  BY MineAnswers DEF MigrationInv
<1> DEFINE c == tx.call
<1>2. /\ UNCHANGED <<plan, pc, result>> /\ Filed /\ MigrationFiled(chain, receipts)
      /\ c \in Calls /\ Receives(tx, ok, e)
      /\ tx.kind # "approve" => tx.kind = Request(c).kind
      /\ MigratedAs(chain, chain', tx.kind, e)
  BY <1>1, OnceTypes DEF Mine, MigrationInv, MigrationFiled, Answers, AsAsked
<1>3. /\ \A d \in Calls \ {c} : receipts'[d] = receipts[d]
      /\ tx.kind = "approve" => receipts'[c].main = receipts[c].main
      /\ tx.kind # "approve" => receipts'[c].main = [mined |-> TRUE, ok |-> ok, events |-> e]
  BY <1>2, ReceiptsAfter
<1>4. tx.kind # "approve" => receipts[c].main = NoReceipt /\ pc[c] # "done"
  BY <1>1 DEF FirstOf
<1>5. MigrationTold'
  <2>1. ASSUME NEW d \in Calls, pc'[d] = "done"
        PROVE  receipts'[d].main = receipts[d].main
    BY <1>2, <1>3, <1>4, <2>1
  <2>2. QED
    BY <1>2, <2>1, TellingStays
<1> HIDE DEF c
<1>6. CASE tx.kind = "approve"
  <2>1. \A d \in Calls : receipts'[d].main = receipts[d].main
    BY <1>2, <1>3, <1>6
  <2>2. ~e.migrated
    BY <1>2, <1>6 DEF MigratedAs
  <2>3. chain'.migrated = chain.migrated /\ chain'.forwarded = chain.forwarded
    BY <1>2, <2>2 DEF MigratedAs
  <2>4. QED
    BY <1>2, <1>5, <2>1, <2>3 DEF MigrationFiled, Moved, MigratedAs
<1>7. CASE tx.kind # "approve"
  <2> DEFINE m == receipts'[c].main
  <2>1. m.events = e
    BY <1>3, <1>7
  <2> HIDE DEF m
  <2>2. Moved(c, receipts') <=> e.migrated
    BY <2>1 DEF Moved, m
  <2>3. ~Moved(c, receipts)
    BY <1>4, <1>7 DEF Moved, NoReceipt, NoEvents
  <2>4. \A d \in Calls \ {c} : receipts'[d].main = receipts[d].main
    BY <1>3
  <2>5. \A d \in Calls \ {c} : Moved(d, receipts') <=> Moved(d, receipts)
    BY <2>4 DEF Moved
  <2>6. CASE e.migrated
    <3>1. /\ ~chain.migrated /\ chain'.migrated /\ chain'.graduated
          /\ Request(c).kind \in {"buy", "migrate"} /\ chain.forwarded = 0
          /\ Request(c).kind = "migrate" => chain'.forwarded = 0 + e.quote
      BY <1>2, <1>7, <2>6 DEF MigratedAs, MigrationFiled
    <3>2. \A d \in Calls \ {c} : ~Moved(d, receipts')
      BY <1>2, <2>5, <3>1 DEF MigrationFiled
    <3>3. e.quote \in Int
      BY <1>1 DEF Answers, Accounted
    <3>4. Request(c).kind = "migrate" =>
              receipts'[c].main.events.quote = chain'.forwarded
      BY <2>1, <3>1, <3>3 DEF m
    <3>5. ASSUME NEW d \in Calls, d # c, Request(d).kind = "migrate"
          PROVE  receipts'[d].main.events.quote = 0
      BY <1>2, <2>3, <2>4, <2>5, <3>2, <3>5 DEF MigrationFiled
    <3>6. QED
      BY <1>2, <1>5, <2>2, <2>6, <3>1, <3>2, <3>4, <3>5 DEF MigrationFiled
  <2>7. CASE ~e.migrated
    <3>1. /\ chain'.migrated = chain.migrated /\ chain'.forwarded = chain.forwarded
          /\ chain'.migrated => chain'.graduated
          /\ Request(c).kind = "migrate" => e.quote = 0
      BY <1>2, <1>7, <2>7 DEF MigratedAs
    <3>2. \A d \in Calls : Moved(d, receipts') <=> Moved(d, receipts)
      BY <2>2, <2>3, <2>5, <2>7
    <3>3. ASSUME NEW d \in Calls, Request(d).kind = "migrate"
          PROVE  receipts'[d].main.events.quote =
                     IF Moved(d, receipts') THEN chain'.forwarded ELSE 0
      <4>1. CASE d = c
        BY <2>1, <2>2, <2>7, <3>1, <3>3, <4>1 DEF m
      <4>2. CASE d # c
        BY <1>2, <2>4, <3>1, <3>2, <3>3, <4>2 DEF MigrationFiled
      <4>3. QED
        BY <4>1, <4>2
    <3>4. QED
      BY <1>2, <1>5, <3>1, <3>2, <3>3 DEF MigrationFiled
  <2>8. QED
    BY <2>6, <2>7
<1>8. QED
  BY <1>6, <1>7

\* Only a curve that is not migrated is migrated again, so that no receipt is lost
\* that tells of a migration.
LEMMA AgainFiles ==
    ASSUME MigrationInv, NEW c \in Calls, CallAgain(c)
    PROVE  MigrationFiled(chain', receipts') /\ MigrationTold'
<1>1. /\ ~chain.migrated /\ UNCHANGED <<plan, chain>> /\ Filed /\ DOMAIN result = Calls
      /\ pc' = [pc EXCEPT ![c] = "simulate"] /\ DOMAIN pc = Calls
      /\ receipts' = [receipts EXCEPT ![c].main = NoReceipt]
      /\ result' = [result EXCEPT ![c] = NoResult]
      /\ MigrationFiled(chain, receipts)
  BY OnceTypes DEF CallAgain, Go, MigrationInv, Once
<1>2. /\ receipts'[c].main = NoReceipt
      /\ \A d \in Calls \ {c} : receipts'[d].main = receipts[d].main
      /\ \A d \in Calls \ {c} : pc'[d] = pc[d] /\ result'[d] = result[d]
      /\ pc'[c] = "simulate"
  BY <1>1 DEF Filed
<1>3. ~Moved(c, receipts') /\ receipts'[c].main.events.quote = 0
  BY <1>2 DEF Moved, NoReceipt, NoEvents
<1>4. \A d \in Calls \ {c} : Moved(d, receipts') <=> Moved(d, receipts)
  BY <1>2 DEF Moved
<1>5. MigrationFiled(chain', receipts')
  BY <1>1, <1>2, <1>3, <1>4 DEF MigrationFiled
<1>6. MigrationTold'
  BY <1>1, <1>2, TellingStays
<1>7. QED
  BY <1>5, <1>6

LEMMA AwaitTells ==
    ASSUME MigrationInv, NEW c \in Calls, Await(c) PROVE MigrationTold'
<1> DEFINE e == receipts[c].main.events
           missed == Request(c).kind \in {"buy", "sell"} /\ ~e.trade
<1>1. /\ UNCHANGED <<plan, receipts>> /\ DOMAIN pc = Calls /\ DOMAIN result = Calls
      /\ missed => Go(c, "failed") /\ UNCHANGED result
      /\ ~missed => Go(c, "done") /\ result' = [result EXCEPT ![c] = Report(c)]
      /\ plan \in Plans /\ MigrationFiled(chain, receipts)
  BY OnceTypes DEF Await, MigrationInv, Once
<1>2. CASE missed
  <2>1. \A d \in Calls : pc'[d] = "done" => pc[d] = "done"
    BY <1>1, <1>2 DEF Go
  <2>2. QED
    BY <1>1, <1>2, <2>1, TellingStays
<1>3. CASE ~missed
  <2>1. /\ pc'[c] = "done" /\ result'[c] = Report(c)
        /\ \A d \in Calls \ {c} : pc'[d] = pc[d] /\ result'[d] = result[d]
    BY <1>1, <1>3 DEF Go
  <2>2. Request(c).kind \in {"buy", "sell", "migrate", "withdraw"}
    BY <1>1, RequestTypes DEF Requests
  <2>3. /\ Report(c).migrated <=> Moved(c, receipts)
        /\ Request(c).kind = "migrate" => Report(c).quote = e.quote
    <3>1. CASE Request(c).kind = "buy"
      <4>1. Report(c).migrated = e.migrated
        BY <3>1 DEF Report
      <4>2. QED
        BY <3>1, <4>1 DEF Moved
    <3>2. CASE Request(c).kind = "migrate"
      <4>1. Report(c) = [NoResult EXCEPT !.quote = e.quote, !.migrated = e.migrated]
        BY <3>2 DEF Report
      <4>2. Report(c).migrated = e.migrated /\ Report(c).quote = e.quote
        BY <4>1 DEF NoResult
      <4>3. QED
        BY <4>2 DEF Moved
    <3>3. CASE Request(c).kind \in {"sell", "withdraw"}
      <4>1. \/ Report(c) = [NoResult EXCEPT !.quote = e.quote]
            \/ Report(c) = [NoResult EXCEPT !.quote = foreseen[c]]
        BY <3>3 DEF Report
      <4>2. ~Report(c).migrated
        BY <4>1 DEF NoResult
      <4>3. ~Moved(c, receipts)
        BY <1>1, <3>3 DEF MigrationFiled
      <4>4. QED
        BY <3>3, <4>2, <4>3
    <3>4. QED
      BY <2>2, <3>1, <3>2, <3>3
  <2>4. Calls' = Calls /\ \A d \in Calls : Request(d)' = Request(d)
    BY <1>1, RequestSame
  <2>5. ASSUME NEW d \in Calls, pc'[d] = "done"
        PROVE  /\ result'[d].migrated <=> Moved(d, receipts')
               /\ Request(d).kind = "migrate" =>
                      result'[d].quote = receipts'[d].main.events.quote
    <3>1. CASE d = c
      BY <1>1, <2>1, <2>3, <3>1
    <3>2. CASE d # c
      BY <1>1, <2>1, <2>5, <3>2 DEF MigrationInv, MigrationTold
    <3>3. QED
      BY <3>1, <3>2
  <2>6. QED
    BY <2>4, <2>5 DEF MigrationTold, Moved
<1>4. QED
  BY <1>2, <1>3

LEMMA InitMigration == Init => MigrationInv
<1> SUFFICES ASSUME Init PROVE MigrationInv
  OBVIOUS
<1>1. /\ chain = Genesis /\ pc = [c \in Calls |-> "idle"]
      /\ receipts = [c \in Calls |-> [approve |-> NoReceipt, main |-> NoReceipt]]
  BY DEF Init
<1>2. ~chain.migrated /\ chain.forwarded = 0
  BY <1>1 DEF Genesis
<1>3. \A c \in Calls : ~Moved(c, receipts) /\ receipts[c].main.events.quote = 0
  BY <1>1 DEF Moved, NoReceipt, NoEvents
<1>4. MigrationFiled(chain, receipts) /\ MigrationTold
  BY <1>1, <1>2, <1>3 DEF MigrationFiled, MigrationTold
<1>5. QED
  BY <1>4, InitOnceInv DEF MigrationInv

LEMMA NextMigration == MigrationInv /\ [Next]_vars => MigrationInv'
<1> SUFFICES ASSUME MigrationInv, [Next]_vars
             PROVE  plan' = plan /\ MigrationFiled(chain', receipts') /\ MigrationTold'
  BY MigrationSame, NextOnce DEF MigrationInv
<1>1. MigrationFiled(chain, receipts) /\ DOMAIN pc = Calls
  BY OnceTypes DEF MigrationInv, Once
<1>2. ASSUME UNCHANGED <<plan, chain, receipts>>, MigrationTold'
      PROVE  plan' = plan /\ MigrationFiled(chain', receipts') /\ MigrationTold'
  BY <1>1, <1>2
<1>3. ASSUME NEW c \in Calls, Step(c) \/ RpcFails(c) \/ AnswerLost(c)
      PROVE  UNCHANGED <<plan, chain, receipts>> /\ MigrationTold'
  <2>1. CASE Await(c)
    BY <2>1, AwaitTells DEF Await
  <2>2. CASE ~Await(c)
    <3>1. UNCHANGED <<plan, chain, receipts, result>>
      BY <1>3, <2>2 DEF Step, Start, ReadAllowance, Preflight, SimulateApprove, SendApprove,
         AwaitApprove, Estimate, Simulate, Send, RpcFails, AnswerLost
    <3>2. \E to \in AllLabels \ {"done"} : Go(c, to)
      <4>1. \E to \in {"allowance", "preflight", "simulateApprove", "sendApprove",
                       "awaitApprove", "estimate", "simulate", "send", "await",
                       "failed", "lost"} : Go(c, to)
        BY <1>3, <2>2 DEF Step, Start, ReadAllowance, Preflight, SimulateApprove, SendApprove,
           AwaitApprove, Estimate, Simulate, Send, RpcFails, AnswerLost
      <4>2. QED
        BY <4>1, AllPlaces
    <3>3. \A d \in Calls : pc'[d] = "done" => pc[d] = "done"
      BY <1>1, <3>2 DEF Go
    <3>4. QED
      BY <3>1, <3>3, TellingStays
  <2>3. QED
    BY <2>1, <2>2
<1>4. ASSUME NEW c \in Calls, CallAgain(c)
      PROVE  plan' = plan /\ MigrationFiled(chain', receipts') /\ MigrationTold'
  BY <1>4, AgainFiles DEF CallAgain
<1>5. ASSUME NEW a \in Accounts, Mine(a)
      PROVE  plan' = plan /\ MigrationFiled(chain', receipts') /\ MigrationTold'
  BY <1>5, MineFiles DEF Mine
<1>6. CASE WorldChanges \/ UNCHANGED vars
  <2>1. UNCHANGED <<plan, chain, receipts, pc, result>>
    BY <1>6 DEF WorldChanges, vars
  <2>2. QED
    BY <1>2, <2>1, TellingStays
<1>7. QED
  BY <1>2, <1>3, <1>4, <1>5, <1>6 DEF Next

\* What the calls told of migrations is what the receipts name.
LEMMA MigrationTells == ASSUME MigrationInv PROVE MigrationsTold
<1>1. ASSUME NEW c \in Calls
      PROVE  /\ CallFits(c, pc[c], mempool, receipts[c], result[c])
             /\ result[c].migrated => pc[c] = "done" /\ Moved(c, receipts)
  <2>1. CallFits(c, pc[c], mempool, receipts[c], result[c])
    BY DEF MigrationInv, OnceInv, Once
  <2>2. pc[c] # "done" => result[c] = NoResult
    BY <2>1 DEF CallFits, TellFits
  <2>3. QED
    BY <2>1, <2>2 DEF MigrationInv, MigrationTold, NoResult
<1>2. ASSUME NEW c \in Calls, Moved(c, receipts)
      PROVE  result[c].migrated \/ pc[c] \in {"await", "lost"}
  <2>1. receipts[c].main # NoReceipt /\ receipts[c].main.events # NoEvents
    BY <1>2 DEF Moved, NoReceipt, NoEvents
  <2>2. pc[c] \in AllLabels \ Unsent /\ Answer(c, receipts[c].main)
    BY <1>1, <2>1 DEF CallFits, MainFits
  <2>3. pc[c] # "failed"
    BY <1>1, <2>1, <2>2 DEF CallFits, TellFits, Answer, Told
  <2>4. pc[c] = "done" => result[c].migrated
    BY <1>2 DEF MigrationInv, MigrationTold
  <2>5. QED
    BY <2>2, <2>3, <2>4, AllPlaces
<1>3. MigrationFiled(chain, receipts) /\ MigrationTold
  BY DEF MigrationInv
<1>4. ASSUME NEW c \in Calls
      PROVE  /\ result[c].migrated => chain.migrated
             /\ pc[c] = "done" /\ Request(c).kind = "migrate" =>
                    result[c].quote = IF result[c].migrated THEN chain.forwarded ELSE 0
             /\ \A d \in Calls : result[c].migrated /\ result[d].migrated => c = d
  BY <1>1, <1>3 DEF MigrationFiled, MigrationTold
<1>5. chain.migrated =>
          \E c \in Calls : \/ result[c].migrated
                           \/ pc[c] \in {"await", "lost"} /\ receipts[c].main.events.migrated
  BY <1>2, <1>3 DEF MigrationFiled, Moved
<1>6. QED
  BY <1>4, <1>5 DEF MigrationsTold
-----------------------------------------------------------------------------
(* An account's books: what it holds is what the receipts of its calls say. *)

\* What the receipts say that each call did to the tokens, the quote and the
\* allowance of an account.
TokensBy(x, r) ==
    [c \in Calls |->
        IF Request(c).from = x THEN Bought(Request(c).kind, r[c].main.events) ELSE 0]

QuoteBy(x, r) ==
    [c \in Calls |->
        (IF Request(c).to = x THEN Withdrawn(Request(c).kind, r[c].main.events) ELSE 0)
          - (IF Request(c).from = x
             THEN Paid(Request(c).kind, r[c].main.events)
                    + Withdrawn(Request(c).kind, r[c].main.events)
             ELSE 0)]

LeftBy(x, r) ==
    [c \in Calls |->
        IF Request(c).from = x /\ Request(c).kind = "buy"
        THEN (IF r[c].approve.ok THEN Request(c).amount ELSE 0)
               - (IF Native THEN 0 ELSE r[c].main.events.quote)
        ELSE 0]

Books(s, r) ==
    \A x \in Accounts :
        /\ s.tokens[x] = Total(TokensBy(x, r), Calls)
        /\ Worth(s)[x] = Funds + Total(QuoteBy(x, r), Calls)
        /\ s.allowance[x] >= 0
        /\ s.allowance[x] <= Total(LeftBy(x, r), Calls)

BooksInv == OnceInv /\ Books(chain, receipts)

\* The receipts of the calls are what Once says they are.
Receipts(r) == \A c \in Calls : r[c].main = NoReceipt \/ Answer(c, r[c].main)

LEMMA FiniteCalls == ASSUME plan \in Plans PROVE IsFiniteSet(Calls)
<1>1. plan.calls \in Seq(Requests)
  BY PlansAssumption
<1>2. Calls = 1 .. Len(plan.calls) /\ Len(plan.calls) \in Nat
  BY <1>1 DEF Calls
<1>3. QED
  BY <1>2, FS_Interval

LEMMA ReceiptsOnce ==
    /\ Once => Receipts(receipts)
    /\ Once' /\ plan' = plan => Receipts(receipts')
<1>1. Once => Receipts(receipts)
  BY DEF Once, CallFits, MainFits, Receipts
<1>2. ASSUME Once', plan' = plan PROVE Receipts(receipts')
  <2>1. /\ Calls' = Calls /\ Native' = Native
        /\ \A c \in Calls : Request(c)' = Request(c)
    BY <1>2, RequestSame
  <2>2. \A c \in Calls : CallFits(c, pc[c], mempool, receipts[c], result[c])'
    BY <1>2, <2>1 DEF Once
  <2>3. \A c \in Calls : MainFits(c, pc[c], mempool, receipts[c])'
    BY <2>2 DEF CallFits
  <2>4. ASSUME NEW c \in Calls
        PROVE  receipts'[c].main = NoReceipt \/ Answer(c, receipts'[c].main)
    <3>1. MainFits(c, pc[c], mempool, receipts[c])' /\ Request(c)' = Request(c)
      BY <2>1, <2>3
    <3>2. receipts'[c].main = NoReceipt \/ Answer(c, receipts[c].main)'
      BY <3>1, Zenon DEF MainFits
    <3>3. Answer(c, receipts[c].main)' => Answer(c, receipts'[c].main)
      BY <2>1, <3>1, Zenon DEF Answer, Told
    <3>4. QED
      BY <3>2, <3>3
  <2>5. QED
    BY <2>4 DEF Receipts
<1>3. QED
  BY <1>1, <1>2

LEMMA EntriesWhole ==
    ASSUME plan \in Plans, NEW r, Receipts(r), NEW x, NEW c \in Calls
    PROVE  /\ TokensBy(x, r)[c] \in Int /\ QuoteBy(x, r)[c] \in Int /\ LeftBy(x, r)[c] \in Int
<1> DEFINE e == r[c].main.events
           kind == Request(c).kind
<1>1. e.tokens \in Int /\ e.quote \in Int
  BY DEF Receipts, Answer, NoReceipt, NoEvents
<1>2. /\ Bought(kind, e) \in Int /\ Paid(kind, e) \in Int /\ Withdrawn(kind, e) \in Int
      /\ e.quote \in Int
  BY <1>1 DEF Bought, Paid, Withdrawn
<1>3. Request(c).amount \in Int
  BY RequestTypes DEF Requests
<1> HIDE DEF e
<1>4. TokensBy(x, r)[c] \in Int
  BY <1>2 DEF TokensBy, e
<1>5. QuoteBy(x, r)[c] \in Int
  BY <1>2 DEF QuoteBy, e
<1>6. LeftBy(x, r)[c] \in Int
  BY <1>2, <1>3 DEF LeftBy, e
<1>7. QED
  BY <1>4, <1>5, <1>6

\* One call's receipts change.
LEMMA TotalsChange ==
    ASSUME plan \in Plans, NEW r, NEW w, Receipts(r), Receipts(w), NEW x, NEW c \in Calls,
           \A d \in Calls \ {c} : w[d] = r[d]
    PROVE  /\ Total(TokensBy(x, w), Calls)
                  = Total(TokensBy(x, r), Calls) + (TokensBy(x, w)[c] - TokensBy(x, r)[c])
           /\ Total(QuoteBy(x, w), Calls)
                  = Total(QuoteBy(x, r), Calls) + (QuoteBy(x, w)[c] - QuoteBy(x, r)[c])
           /\ Total(LeftBy(x, w), Calls)
                  = Total(LeftBy(x, r), Calls) + (LeftBy(x, w)[c] - LeftBy(x, r)[c])
           /\ Total(TokensBy(x, r), Calls) \in Int /\ Total(QuoteBy(x, r), Calls) \in Int
           /\ Total(LeftBy(x, r), Calls) \in Int
<1>1. IsFiniteSet(Calls)
  BY FiniteCalls
<1>2. ASSUME NEW d \in Calls
      PROVE  /\ TokensBy(x, r)[d] \in Int /\ TokensBy(x, w)[d] \in Int
             /\ QuoteBy(x, r)[d] \in Int /\ QuoteBy(x, w)[d] \in Int
             /\ LeftBy(x, r)[d] \in Int /\ LeftBy(x, w)[d] \in Int
  BY EntriesWhole
<1>3. ASSUME NEW d \in Calls \ {c}
      PROVE  /\ TokensBy(x, r)[d] = TokensBy(x, w)[d]
             /\ QuoteBy(x, r)[d] = QuoteBy(x, w)[d]
             /\ LeftBy(x, r)[d] = LeftBy(x, w)[d]
  <2>1. w[d] = r[d]
    OBVIOUS
  <2>2. QED
    BY <2>1 DEF TokensBy, QuoteBy, LeftBy
<1>4. Total(TokensBy(x, w), Calls)
          = Total(TokensBy(x, r), Calls) + (TokensBy(x, w)[c] - TokensBy(x, r)[c])
  <2>1. \A d \in Calls : TokensBy(x, r)[d] \in Int /\ TokensBy(x, w)[d] \in Int
    BY <1>2
  <2>2. \A d \in Calls \ {c} : TokensBy(x, r)[d] = TokensBy(x, w)[d]
    BY <1>3
  <2>3. QED
    BY <1>1, <2>1, <2>2, TotalChanged
<1>5. Total(QuoteBy(x, w), Calls)
          = Total(QuoteBy(x, r), Calls) + (QuoteBy(x, w)[c] - QuoteBy(x, r)[c])
  <2>1. \A d \in Calls : QuoteBy(x, r)[d] \in Int /\ QuoteBy(x, w)[d] \in Int
    BY <1>2
  <2>2. \A d \in Calls \ {c} : QuoteBy(x, r)[d] = QuoteBy(x, w)[d]
    BY <1>3
  <2>3. QED
    BY <1>1, <2>1, <2>2, TotalChanged
<1>6. Total(LeftBy(x, w), Calls)
          = Total(LeftBy(x, r), Calls) + (LeftBy(x, w)[c] - LeftBy(x, r)[c])
  <2>1. \A d \in Calls : LeftBy(x, r)[d] \in Int /\ LeftBy(x, w)[d] \in Int
    BY <1>2
  <2>2. \A d \in Calls \ {c} : LeftBy(x, r)[d] = LeftBy(x, w)[d]
    BY <1>3
  <2>3. QED
    BY <1>1, <2>1, <2>2, TotalChanged
<1>7. /\ Total(TokensBy(x, r), Calls) \in Int /\ Total(QuoteBy(x, r), Calls) \in Int
      /\ Total(LeftBy(x, r), Calls) \in Int
  BY <1>1, <1>2, TotalWhole
<1>8. QED
  BY <1>4, <1>5, <1>6, <1>7

\* Nothing has been received yet for tx.
Unanswered(tx) ==
    /\ tx.kind = "approve" => receipts[tx.call].approve = NoReceipt
    /\ tx.kind # "approve" => receipts[tx.call].main = NoReceipt

\* What the answer to tx adds to the books is what tx did.
LEMMA EntryMade ==
    ASSUME plan \in Plans, Filed, Receipts(receipts), NEW tx \in AsAsked, Unanswered(tx),
           NEW ok \in BOOLEAN, NEW e, Receives(tx, ok, e),
           e.tokens \in Int, e.quote \in Int, NEW x
    PROVE  LET c == tx.call
               bought == Bought(tx.kind, e)
               paid == Paid(tx.kind, e)
               withdrawn == Withdrawn(tx.kind, e)
           IN  /\ TokensBy(x, receipts')[c] - TokensBy(x, receipts)[c]
                      = IF x = tx.from THEN bought ELSE 0
               /\ QuoteBy(x, receipts')[c] - QuoteBy(x, receipts)[c]
                      = (IF tx.kind # "approve" /\ x = tx.to THEN withdrawn ELSE 0)
                          - (IF x = tx.from THEN paid + withdrawn ELSE 0)
               /\ LeftBy(x, receipts')[c] - LeftBy(x, receipts)[c]
                      = IF x # tx.from THEN 0
                        ELSE IF tx.kind = "approve" THEN IF ok THEN tx.amount ELSE 0
                        ELSE IF tx.kind = "buy" /\ ~Native THEN 0 - e.quote
                        ELSE 0
<1> DEFINE c == tx.call
           kind == Request(c).kind
           from == Request(c).from
           amount == Request(c).amount
           was == receipts[c].main.events
           is == receipts'[c].main.events
<1>1. /\ c \in Calls /\ tx.from = from
      /\ tx.kind = "approve" => kind = "buy" /\ tx.amount = amount
      /\ tx.kind # "approve" => tx.kind = kind /\ tx.to = Request(c).to
  BY DEF AsAsked
<1>2. /\ tx.kind = "approve" => receipts'[c].main = receipts[c].main
      /\ tx.kind = "approve" =>
             receipts'[c].approve = [mined |-> TRUE, ok |-> ok, events |-> e]
      /\ tx.kind # "approve" => receipts'[c].approve = receipts[c].approve
      /\ tx.kind # "approve" =>
             receipts'[c].main = [mined |-> TRUE, ok |-> ok, events |-> e]
  <2>1. /\ DOMAIN receipts = Calls /\ {"approve", "main"} \subseteq DOMAIN receipts[c]
    BY <1>1 DEF Filed
  <2>2. CASE tx.kind = "approve"
    BY <1>1, <2>1, <2>2 DEF Receives
  <2>3. CASE tx.kind # "approve"
    BY <1>1, <2>1, <2>3 DEF Receives
  <2>4. QED
    BY <2>2, <2>3
<1>3. amount \in Int
  BY <1>1, RequestTypes DEF Requests
<1>4. TokensBy(x, receipts)[c] \in Int /\ QuoteBy(x, receipts)[c] \in Int
      /\ LeftBy(x, receipts)[c] \in Int
  BY <1>1, EntriesWhole
<1>5. /\ TokensBy(x, receipts)[c] = IF from = x THEN Bought(kind, was) ELSE 0
      /\ TokensBy(x, receipts')[c] = IF from = x THEN Bought(kind, is) ELSE 0
      /\ QuoteBy(x, receipts)[c]
             = (IF Request(c).to = x THEN Withdrawn(kind, was) ELSE 0)
                  - (IF from = x THEN Paid(kind, was) + Withdrawn(kind, was) ELSE 0)
      /\ QuoteBy(x, receipts')[c]
             = (IF Request(c).to = x THEN Withdrawn(kind, is) ELSE 0)
                  - (IF from = x THEN Paid(kind, is) + Withdrawn(kind, is) ELSE 0)
      /\ LeftBy(x, receipts)[c] =
             IF from = x /\ kind = "buy"
             THEN (IF receipts[c].approve.ok THEN amount ELSE 0) - (IF Native THEN 0 ELSE was.quote)
             ELSE 0
      /\ LeftBy(x, receipts')[c] =
             IF from = x /\ kind = "buy"
             THEN (IF receipts'[c].approve.ok THEN amount ELSE 0) - (IF Native THEN 0 ELSE is.quote)
             ELSE 0
  BY <1>1 DEF TokensBy, QuoteBy, LeftBy
<1>6. CASE tx.kind = "approve"
  <2>1. is = was /\ receipts[c].approve.ok = FALSE /\ receipts'[c].approve.ok = ok
    BY <1>2, <1>6 DEF Unanswered, NoReceipt
  <2>2. was.quote \in Int
    BY <1>1 DEF Receipts, Answer, NoReceipt, NoEvents
  <2> HIDE DEF was, is, c, kind, from, amount
  <2>3. TokensBy(x, receipts')[c] = TokensBy(x, receipts)[c] /\ Bought(tx.kind, e) = 0
    BY <1>5, <1>6, <2>1 DEF Bought
  <2>4. /\ QuoteBy(x, receipts')[c] = QuoteBy(x, receipts)[c]
        /\ Paid(tx.kind, e) = 0 /\ Withdrawn(tx.kind, e) = 0
    BY <1>5, <1>6, <2>1 DEF Paid, Withdrawn
  <2>5. LeftBy(x, receipts')[c] - LeftBy(x, receipts)[c]
            = IF x = tx.from THEN IF ok THEN tx.amount ELSE 0 ELSE 0
    BY <1>1, <1>3, <1>5, <1>6, <2>1, <2>2
  <2>6. QED
    BY <1>4, <1>6, <2>3, <2>4, <2>5 DEF c
<1>7. CASE tx.kind # "approve"
  <2>1. receipts[c].main = NoReceipt
    BY <1>1, <1>7 DEF Unanswered
  <2>2. /\ was.tokens = 0 /\ was.quote = 0 /\ is = e
        /\ receipts'[c].approve = receipts[c].approve
    BY <1>2, <1>7, <2>1 DEF NoReceipt, NoEvents
  <2> HIDE DEF was, is, c, kind, from, amount
  <2>3. Bought(kind, was) = 0 /\ Paid(kind, was) = 0 /\ Withdrawn(kind, was) = 0
    BY <2>2 DEF Bought, Paid, Withdrawn
  <2>4. Bought(kind, e) \in Int /\ Paid(kind, e) \in Int /\ Withdrawn(kind, e) \in Int
    BY DEF Bought, Paid, Withdrawn
  <2>5. tx.kind = kind /\ tx.to = Request(c).to /\ tx.from = from
    BY <1>1, <1>7
  <2>6. TokensBy(x, receipts')[c] - TokensBy(x, receipts)[c]
            = IF x = tx.from THEN Bought(kind, e) ELSE 0
    BY <1>5, <2>2, <2>3, <2>4, <2>5
  <2>7. QuoteBy(x, receipts')[c] - QuoteBy(x, receipts)[c]
            = (IF x = tx.to THEN Withdrawn(kind, e) ELSE 0)
                - (IF x = tx.from THEN Paid(kind, e) + Withdrawn(kind, e) ELSE 0)
    BY <1>5, <2>2, <2>3, <2>4, <2>5
  <2>8. LeftBy(x, receipts')[c] - LeftBy(x, receipts)[c]
            = IF x = tx.from /\ kind = "buy" /\ ~Native THEN 0 - e.quote ELSE 0
    BY <1>3, <1>5, <2>2, <2>5
  <2>9. QED
    BY <1>7, <2>5, <2>6, <2>7, <2>8 DEF c
<1>8. QED
  BY <1>6, <1>7

\* The transaction tx, not answered yet, is mined, and does what its events say.
AnsweredAs(tx, ok, e) ==
    /\ Unanswered(tx) /\ Receives(tx, ok, e)
    /\ Told(Native, tx, ok, e) /\ Accounted(chain, chain', Native, tx, ok, e)

Bookkept ==
    /\ plan \in Plans /\ plan' = plan /\ Filed /\ Figures(chain) /\ Books(chain, receipts)
    /\ Receipts(receipts) /\ Receipts(receipts')

\* An answer leaves the books right.
LEMMA BooksAfter ==
    ASSUME Bookkept, NEW tx \in AsAsked, NEW ok \in BOOLEAN, NEW e, AnsweredAs(tx, ok, e)
    PROVE  Books(chain', receipts')
<1>1. e.tokens \in Int /\ e.quote \in Int
  BY DEF AnsweredAs, Accounted
<1>2. tx.call \in Calls /\ tx \in Transactions
  BY DEF AsAsked
<1>3. \A d \in Calls \ {tx.call} : receipts'[d] = receipts[d]
  BY <1>2, ReceiptsAfter DEF AnsweredAs, Bookkept
<1> SUFFICES ASSUME NEW x \in Accounts
             PROVE  /\ chain'.tokens[x] = Total(TokensBy(x, receipts'), Calls)
                    /\ Worth(chain')[x] = Funds + Total(QuoteBy(x, receipts'), Calls)
                    /\ chain'.allowance[x] >= 0
                    /\ chain'.allowance[x] <= Total(LeftBy(x, receipts'), Calls)
  BY DEF Books
<1> DEFINE tokens == Total(TokensBy(x, receipts), Calls)
           quote == Total(QuoteBy(x, receipts), Calls)
           left == Total(LeftBy(x, receipts), Calls)
           bought == Bought(tx.kind, e)
           paid == Paid(tx.kind, e)
           withdrawn == Withdrawn(tx.kind, e)
<1>4. /\ chain.tokens[x] = tokens /\ Worth(chain)[x] = Funds + quote
      /\ chain.allowance[x] >= 0 /\ chain.allowance[x] <= left
  BY DEF Bookkept, Books
<1>5. /\ Total(TokensBy(x, receipts'), Calls) = tokens +
             (TokensBy(x, receipts')[tx.call] - TokensBy(x, receipts)[tx.call])
      /\ Total(QuoteBy(x, receipts'), Calls) = quote +
             (QuoteBy(x, receipts')[tx.call] - QuoteBy(x, receipts)[tx.call])
      /\ Total(LeftBy(x, receipts'), Calls) = left +
             (LeftBy(x, receipts')[tx.call] - LeftBy(x, receipts)[tx.call])
      /\ tokens \in Int /\ quote \in Int /\ left \in Int
  BY <1>2, <1>3, TotalsChange DEF Bookkept
<1>6. /\ Total(TokensBy(x, receipts'), Calls) = tokens + (IF x = tx.from THEN bought ELSE 0)
      /\ Total(QuoteBy(x, receipts'), Calls)
             = quote + ((IF tx.kind # "approve" /\ x = tx.to THEN withdrawn ELSE 0)
                          - (IF x = tx.from THEN paid + withdrawn ELSE 0))
      /\ Total(LeftBy(x, receipts'), Calls) = left +
             (IF x # tx.from THEN 0
              ELSE IF tx.kind = "approve" THEN IF ok THEN tx.amount ELSE 0
              ELSE IF tx.kind = "buy" /\ ~Native THEN 0 - e.quote
              ELSE 0)
  <2>1. /\ TokensBy(x, receipts')[tx.call] - TokensBy(x, receipts)[tx.call]
               = IF x = tx.from THEN bought ELSE 0
        /\ QuoteBy(x, receipts')[tx.call] - QuoteBy(x, receipts)[tx.call]
               = (IF tx.kind # "approve" /\ x = tx.to THEN withdrawn ELSE 0)
                    - (IF x = tx.from THEN paid + withdrawn ELSE 0)
        /\ LeftBy(x, receipts')[tx.call] - LeftBy(x, receipts)[tx.call]
               = IF x # tx.from THEN 0
                 ELSE IF tx.kind = "approve" THEN IF ok THEN tx.amount ELSE 0
                 ELSE IF tx.kind = "buy" /\ ~Native THEN 0 - e.quote
                 ELSE 0
    BY <1>1, EntryMade DEF AnsweredAs, Bookkept
  <2>2. QED
    BY <1>5, <2>1
<1>7. /\ chain'.tokens[x] = chain.tokens[x] + (IF x = tx.from THEN bought ELSE 0)
      /\ Worth(chain')[x] = Worth(chain)[x] - (IF x = tx.from THEN paid + withdrawn ELSE 0)
                              + (IF x = tx.to THEN withdrawn ELSE 0)
      /\ chain'.allowance[x] =
             IF x = tx.from /\ tx.kind = "approve" /\ ok THEN tx.amount
             ELSE chain.allowance[x]
                    - (IF x = tx.from /\ tx.kind = "buy" /\ ~Native THEN e.quote ELSE 0)
      /\ ok /\ tx.kind = "buy" /\ ~Native => e.quote <= chain.allowance[tx.from]
  BY DEF AnsweredAs, Accounted
<1>8. /\ bought \in Int /\ paid \in Int /\ withdrawn \in Int
      /\ tx.kind = "approve" => withdrawn = 0
  BY <1>1 DEF Bought, Paid, Withdrawn
<1>9. ~ok => e.quote = 0
  BY DEF AnsweredAs, Told, NoEvents
<1>10. tx.amount \in Nat /\ Funds \in Nat /\ chain.allowance[x] \in Int
  BY <1>2, ChainAssumption DEF Bookkept, Transactions, Figures
<1> HIDE DEF tokens, quote, left, bought, paid, withdrawn
<1>11. chain'.tokens[x] = Total(TokensBy(x, receipts'), Calls)
  BY <1>4, <1>6, <1>7
<1>12. Worth(chain')[x] = Funds + Total(QuoteBy(x, receipts'), Calls)
  BY <1>4, <1>5, <1>6, <1>7, <1>8, <1>10
<1>13. chain'.allowance[x] >= 0 /\ chain'.allowance[x] <= Total(LeftBy(x, receipts'), Calls)
  <2> DEFINE now == Total(LeftBy(x, receipts'), Calls)
             held == chain.allowance[x]
             holds == chain'.allowance[x]
  <2> SUFFICES holds >= 0 /\ holds <= now
    OBVIOUS
  <2>1. held >= 0 /\ held <= left /\ held \in Int /\ left \in Int
    BY <1>4, <1>5, <1>10
  <2>2. CASE x # tx.from
    <3>1. now = left + 0 /\ holds = held - 0
      BY <1>6, <1>7, <2>2
    <3> HIDE DEF now, held, holds
    <3>2. QED
      BY <2>1, <3>1
  <2>3. CASE x = tx.from /\ tx.kind = "approve" /\ ok
    <3>1. now = left + tx.amount /\ holds = tx.amount
      BY <1>6, <1>7, <2>3
    <3> HIDE DEF now, held, holds
    <3>2. QED
      BY <1>10, <2>1, <3>1
  <2>4. CASE x = tx.from /\ tx.kind = "approve" /\ ~ok
    <3>1. now = left + 0 /\ holds = held - 0
      BY <1>6, <1>7, <2>4
    <3> HIDE DEF now, held, holds
    <3>2. QED
      BY <2>1, <3>1
  <2>5. CASE x = tx.from /\ tx.kind = "buy" /\ ~Native
    <3>1. now = left + (0 - e.quote) /\ holds = held - e.quote
      BY <1>6, <1>7, <2>5
    <3>2. e.quote <= held
      BY <1>7, <1>9, <2>1, <2>5
    <3> HIDE DEF now, held, holds
    <3>3. QED
      BY <1>1, <2>1, <3>1, <3>2
  <2>6. CASE x = tx.from /\ tx.kind # "approve" /\ ~(tx.kind = "buy" /\ ~Native)
    <3>1. now = left + 0 /\ holds = held - 0
      BY <1>6, <1>7, <2>6
    <3> HIDE DEF now, held, holds
    <3>2. QED
      BY <2>1, <3>1
  <2>7. QED
    BY <2>2, <2>3, <2>4, <2>5, <2>6
<1>14. QED
  BY <1>11, <1>12, <1>13

LEMMA AnswerBooks ==
    ASSUME Once, Once', plan' = plan, Books(chain, receipts),
           NEW tx, NEW ok, NEW e, Answers(tx, ok, e), FirstOf(tx, mempool')
    PROVE  Books(chain', receipts')
<1>1. /\ tx \in AsAsked /\ ok \in BOOLEAN /\ Receives(tx, ok, e)
      /\ Told(Native, tx, ok, e) /\ Accounted(chain, chain', Native, tx, ok, e)
  BY DEF Answers
<1>2. /\ plan \in Plans /\ Filed /\ Figures(chain)
      /\ Receipts(receipts) /\ Receipts(receipts')
  BY ReceiptsOnce DEF Once
<1>3. Unanswered(tx)
  BY DEF FirstOf, Unanswered
<1>4. AnsweredAs(tx, ok, e) /\ Bookkept
  BY <1>1, <1>2, <1>3, Zenon DEF AnsweredAs, Bookkept
<1>5. QED
  BY <1>1, <1>4, BooksAfter

LEMMA BooksSame ==
    ASSUME plan' = plan, Books(chain', receipts') PROVE Books(chain, receipts)'
<1>1. /\ Calls' = Calls /\ Native' = Native
      /\ \A c \in Calls : Request(c)' = Request(c)
  BY RequestSame
<1>2. ASSUME NEW x
      PROVE  /\ TokensBy(x, receipts)' = TokensBy(x, receipts')
             /\ QuoteBy(x, receipts)' = QuoteBy(x, receipts')
             /\ LeftBy(x, receipts)' = LeftBy(x, receipts')
  <2>1. TokensBy(x, receipts)' = TokensBy(x, receipts')
    BY <1>1 DEF TokensBy
  <2>2. QuoteBy(x, receipts)' = QuoteBy(x, receipts')
    BY <1>1 DEF QuoteBy
  <2>3. LeftBy(x, receipts)' = LeftBy(x, receipts')
    BY <1>1 DEF LeftBy
  <2>4. QED
    BY <2>1, <2>2, <2>3
<1>3. ASSUME NEW x
      PROVE  /\ Total(TokensBy(x, receipts), Calls)' = Total(TokensBy(x, receipts'), Calls)
             /\ Total(QuoteBy(x, receipts), Calls)' = Total(QuoteBy(x, receipts'), Calls)
             /\ Total(LeftBy(x, receipts), Calls)' = Total(LeftBy(x, receipts'), Calls)
  <2>1. Total(TokensBy(x, receipts), Calls)' = Total(TokensBy(x, receipts'), Calls)
    BY <1>1, <1>2
  <2>2. Total(QuoteBy(x, receipts), Calls)' = Total(QuoteBy(x, receipts'), Calls)
    BY <1>1, <1>2
  <2>3. Total(LeftBy(x, receipts), Calls)' = Total(LeftBy(x, receipts'), Calls)
    BY <1>1, <1>2
  <2>4. QED
    BY <2>1, <2>2, <2>3
<1>4. \A x \in Accounts : Worth(chain)'[x] = Worth(chain')[x]
  BY DEF Worth
<1>5. QED
  BY <1>3, <1>4 DEF Books

LEMMA InitBooks == Init => Books(chain, receipts)
<1> SUFFICES ASSUME Init PROVE Books(chain, receipts)
  OBVIOUS
<1>1. /\ plan \in Plans /\ chain = Genesis
      /\ receipts = [c \in Calls |-> [approve |-> NoReceipt, main |-> NoReceipt]]
  BY DEF Init
<1>2. IsFiniteSet(Calls) /\ Funds \in Nat
  BY <1>1, FiniteCalls, ChainAssumption
<1>3. ASSUME NEW c \in Calls
      PROVE  /\ ~receipts[c].approve.ok
             /\ receipts[c].main.events.tokens = 0 /\ receipts[c].main.events.quote = 0
  BY <1>1 DEF NoReceipt, NoEvents
<1>4. ASSUME NEW x, NEW c \in Calls
      PROVE  /\ TokensBy(x, receipts)[c] = 0 /\ QuoteBy(x, receipts)[c] = 0
             /\ LeftBy(x, receipts)[c] = 0
  <2> DEFINE r == receipts[c]
  <2>1. r.main.events.tokens = 0 /\ r.main.events.quote = 0 /\ ~r.approve.ok
    BY <1>3
  <2> HIDE DEF r
  <2>2. TokensBy(x, receipts)[c] = 0
    BY <2>1 DEF TokensBy, Bought, r
  <2>3. QuoteBy(x, receipts)[c] = 0
    BY <2>1 DEF QuoteBy, Paid, Withdrawn, r
  <2>4. LeftBy(x, receipts)[c] = 0
    BY <2>1 DEF LeftBy, r
  <2>5. QED
    BY <2>2, <2>3, <2>4
<1>5. ASSUME NEW f, \A c \in Calls : f[c] = 0 PROVE Total(f, Calls) = 0
  <2>1. Cardinality(Calls) \in Nat
    BY <1>2, FS_CardinalityType
  <2>2. Total(f, Calls) = 0 * Cardinality(Calls)
    BY <1>2, <1>5, TotalOfSame
  <2>3. QED
    BY <2>1, <2>2
<1>6. ASSUME NEW x
      PROVE  /\ Total(TokensBy(x, receipts), Calls) = 0
             /\ Total(QuoteBy(x, receipts), Calls) = 0
             /\ Total(LeftBy(x, receipts), Calls) = 0
  BY <1>4, <1>5
<1>7. ASSUME NEW x \in Accounts
      PROVE  chain.tokens[x] = 0 /\ chain.allowance[x] = 0 /\ Worth(chain)[x] = Funds + 0
  BY <1>1, <1>2 DEF Genesis, Worth
<1>8. QED
  BY <1>2, <1>6, <1>7 DEF Books

LEMMA NextBooks == BooksInv /\ [Next]_vars => BooksInv'
<1> SUFFICES ASSUME BooksInv, [Next]_vars PROVE BooksInv'
  OBVIOUS
<1>1. OnceInv'
  BY NextOnce DEF BooksInv
<1>2. ASSUME NEW a \in Accounts, Mine(a) PROVE BooksInv'
  <2>1. PICK tx, ok, e : Answers(tx, ok, e) /\ FirstOf(tx, mempool')
    BY <1>2, MineAnswers DEF BooksInv
  <2>2. plan' = plan /\ Once /\ Once' /\ Books(chain, receipts)
    BY <1>1, <1>2 DEF Mine, BooksInv, OnceInv
  <2>3. Books(chain', receipts')
    BY <2>1, <2>2, AnswerBooks
  <2>4. QED
    BY <1>1, <2>2, <2>3, BooksSame DEF BooksInv
<1>3. ASSUME NEW c \in Calls, CallAgain(c) PROVE BooksInv'
  <2>1. /\ Request(c).kind = "migrate" /\ plan' = plan /\ chain' = chain
        /\ \A d \in Calls \ {c} : receipts'[d] = receipts[d]
    BY <1>3 DEF CallAgain, BooksInv, OnceInv, Once, Filed
  <2>2. ASSUME NEW x, NEW d \in Calls
        PROVE  /\ TokensBy(x, receipts')[d] = TokensBy(x, receipts)[d]
               /\ QuoteBy(x, receipts')[d] = QuoteBy(x, receipts)[d]
               /\ LeftBy(x, receipts')[d] = LeftBy(x, receipts)[d]
    <3>1. CASE d = c
      BY <2>1, <3>1 DEF TokensBy, QuoteBy, LeftBy, Bought, Paid, Withdrawn
    <3>2. CASE d # c
      <4>1. receipts'[d] = receipts[d]
        BY <2>1, <3>2
      <4>2. QED
        BY <4>1 DEF TokensBy, QuoteBy, LeftBy
    <3>3. QED
      BY <3>1, <3>2
  <2>3. ASSUME NEW x
        PROVE  /\ Total(TokensBy(x, receipts'), Calls) = Total(TokensBy(x, receipts), Calls)
               /\ Total(QuoteBy(x, receipts'), Calls) = Total(QuoteBy(x, receipts), Calls)
               /\ Total(LeftBy(x, receipts'), Calls) = Total(LeftBy(x, receipts), Calls)
    <3>1. IsFiniteSet(Calls)
      BY FiniteCalls DEF BooksInv, OnceInv, Once
    <3>2. QED
      BY <2>2, <3>1, TotalSame
  <2>4. Books(chain', receipts')
    BY <2>1, <2>3 DEF BooksInv, Books
  <2>5. QED
    BY <1>1, <2>1, <2>4, BooksSame DEF BooksInv
<1>4. CASE UNCHANGED <<plan, chain, receipts>>
  <2>1. Books(chain', receipts') /\ plan' = plan
    BY <1>4 DEF BooksInv
  <2>2. QED
    BY <1>1, <2>1, BooksSame DEF BooksInv
<1>5. QED
  BY <1>2, <1>3, <1>4 DEF Next, Step, Start, ReadAllowance, Preflight, SimulateApprove,
     SendApprove, AwaitApprove, Estimate, Simulate, Send, Await, RpcFails, AnswerLost,
     WorldChanges, vars

LEMMA InitBooksInv == Init => BooksInv
BY InitOnceInv, InitBooks DEF BooksInv
-----------------------------------------------------------------------------
(* From the books to what the calls were told.                             *)

LEMMA TotalPart ==
    ASSUME NEW S, IsFiniteSet(S), NEW T \in SUBSET S, NEW f, \A x \in T : f[x] \in Int
    PROVE  Total([x \in S |-> IF x \in T THEN f[x] ELSE 0], S) = Total(f, T)
<1> DEFINE g == [x \in S |-> IF x \in T THEN f[x] ELSE 0]
<1>1. /\ \A x \in S : g[x] \in Int
      /\ \A x \in S \ T : g[x] = 0
      /\ \A x \in T : g[x] = f[x]
  OBVIOUS
<1>2. IsFiniteSet(T)
  BY FS_Subset
<1> HIDE DEF g
<1>3. Total(g, S) = Total(g, T)
  BY <1>1, TotalWithin
<1>4. Total(g, T) = Total(f, T)
  BY <1>1, <1>2, TotalSame
<1>5. QED
  BY <1>3, <1>4 DEF g

LEMMA TotalsAdd ==
    ASSUME NEW S, IsFiniteSet(S), NEW f, NEW g, NEW h,
           \A x \in S : f[x] \in Int /\ g[x] \in Int /\ h[x] = f[x] + g[x]
    PROVE  Total(h, S) = Total(f, S) + Total(g, S)
<1> DEFINE k == [x \in S |-> f[x] + g[x]]
<1>1. Total(f, S) + Total(g, S) = Total(k, S)
  BY TotalOfBoth
<1>2. \A x \in S : h[x] = k[x]
  OBVIOUS
<1> HIDE DEF k
<1>3. Total(h, S) = Total(k, S)
  BY <1>2, TotalSame
<1>4. QED
  BY <1>1, <1>3

LEMMA BooksBound == ASSUME Once, Books(chain, receipts) PROVE ExposureBounded
<1> SUFFICES ASSUME NEW a \in Accounts
    PROVE  TotalOf(Of("buy", a), LAMBDA c : IF Native THEN 0 ELSE receipts[c].main.events.quote)
             + chain.allowance[a]
               <= TotalOf({c \in Of("buy", a) : receipts[c].approve.ok},
                          LAMBDA c : Request(c).amount)
  BY DEF ExposureBounded
<1> DEFINE buys == Of("buy", a)
           granted == {c \in buys : receipts[c].approve.ok}
           spent == [c \in buys |-> IF Native THEN 0 ELSE receipts[c].main.events.quote]
           given == [c \in granted |-> Request(c).amount]
           spentBy == [c \in Calls |-> IF c \in buys THEN spent[c] ELSE 0]
           givenBy == [c \in Calls |-> IF c \in granted THEN given[c] ELSE 0]
<1>1. /\ plan \in Plans /\ Figures(chain) /\ Receipts(receipts)
      /\ chain.allowance[a] <= Total(LeftBy(a, receipts), Calls)
  BY ReceiptsOnce DEF Books, Once
<1>2. IsFiniteSet(Calls) /\ buys \in SUBSET Calls /\ granted \in SUBSET Calls
  BY <1>1, FiniteCalls DEF Of
<1>3. ASSUME NEW c \in buys
      PROVE  /\ c \in Calls /\ Request(c).kind = "buy" /\ Request(c).from = a
             /\ Request(c).amount \in Int /\ receipts[c].main.events.quote \in Int
  <2>1. c \in Calls /\ Request(c).kind = "buy" /\ Request(c).from = a
    BY DEF Of
  <2>2. Request(c).amount \in Int
    BY <1>1, <2>1, RequestTypes DEF Requests
  <2>3. receipts[c].main.events.quote \in Int
    BY <1>1, <2>1 DEF Receipts, Answer, NoReceipt, NoEvents
  <2>4. QED
    BY <2>1, <2>2, <2>3
<1>4. Total(spentBy, Calls) = Total(spent, buys) /\ Total(givenBy, Calls) = Total(given, granted)
  <2>1. (\A c \in buys : spent[c] \in Int) /\ (\A c \in granted : given[c] \in Int)
    BY <1>3
  <2> HIDE DEF buys, granted, spent, given
  <2>2. QED
    BY <1>2, <2>1, TotalPart
<1>5. ASSUME NEW c \in Calls
      PROVE  /\ LeftBy(a, receipts)[c] \in Int /\ spentBy[c] \in Int
             /\ givenBy[c] = LeftBy(a, receipts)[c] + spentBy[c]
  <2>1. LeftBy(a, receipts)[c] \in Int
    BY <1>1, EntriesWhole
  <2>2. CASE c \in buys
    <3> DEFINE quote == receipts[c].main.events.quote
    <3>1. /\ LeftBy(a, receipts)[c]
                 = (IF receipts[c].approve.ok THEN Request(c).amount ELSE 0)
                      - (IF Native THEN 0 ELSE quote)
          /\ spentBy[c] = IF Native THEN 0 ELSE quote
          /\ givenBy[c] = IF receipts[c].approve.ok THEN Request(c).amount ELSE 0
      BY <1>3, <2>2 DEF LeftBy
    <3>2. quote \in Int /\ Request(c).amount \in Int
      BY <1>3, <2>2
    <3> HIDE DEF spentBy, givenBy, quote
    <3>3. QED
      BY <2>1, <3>1, <3>2
  <2>3. CASE c \notin buys
    <3>1. LeftBy(a, receipts)[c] = 0
      BY <2>3 DEF LeftBy, Of
    <3>2. QED
      BY <2>3, <3>1
  <2>4. QED
    BY <2>2, <2>3
<1> HIDE DEF spentBy, givenBy
<1>6. Total(givenBy, Calls) = Total(LeftBy(a, receipts), Calls) + Total(spentBy, Calls)
  BY <1>2, <1>5, TotalsAdd
<1>7. /\ Total(LeftBy(a, receipts), Calls) \in Int /\ Total(spentBy, Calls) \in Int
      /\ chain.allowance[a] \in Int
  BY <1>1, <1>2, <1>5, TotalWhole DEF Figures
<1> HIDE DEF spent, given, buys, granted
<1>8. Total(spent, buys) + chain.allowance[a] <= Total(given, granted)
  BY <1>1, <1>4, <1>6, <1>7
<1>9. QED
  BY <1>8 DEF TotalOf, spent, given, buys, granted


\* What a call was told is what its receipt says.
ToldAsFiled(c) ==
    /\ Request(c).kind = "buy" =>
           /\ result[c].tokens = receipts[c].main.events.tokens
           /\ result[c].quote = receipts[c].main.events.quote
           /\ receipts[c].main.events.tokens \in Int
           /\ pc[c] = "done" => result[c].quote + result[c].refund = Request(c).amount
    /\ Request(c).kind = "sell" =>
           /\ result[c].quote = receipts[c].main.events.quote
           /\ receipts[c].main.events.tokens
                  = IF pc[c] = "done" THEN Request(c).amount ELSE 0

\* A call whose trade went through is told of it once it has returned.
LEMMA OnceTold ==
    ASSUME Once, NEW c \in Calls, Trade(c) /\ receipts[c].main.ok => pc[c] = "done"
    PROVE  ToldAsFiled(c)
<1> DEFINE m == receipts[c].main
           e == receipts[c].main.events
<1>1. CallFits(c, pc[c], mempool, receipts[c], result[c]) /\ plan \in Plans
  BY DEF Once
<1>2. m = NoReceipt \/ Answer(c, m)
  BY <1>1 DEF CallFits, MainFits
<1>3. e.quote \in Int /\ e.tokens \in Int /\ Request(c).amount \in Int
  <2>1. Request(c).amount \in Nat
    BY <1>1, RequestTypes DEF Requests
  <2>2. QED
    BY <1>2, <2>1 DEF Answer, NoReceipt, NoEvents
<1>4. ASSUME Trade(c), pc[c] # "done"
      PROVE  /\ e.quote = 0 /\ e.tokens = 0
             /\ result[c].quote = 0 /\ result[c].tokens = 0
  <2>1. ~m.ok
    BY <1>4
  <2>2. e = NoEvents
    BY <1>2, <1>4, <2>1 DEF Answer, Told, NoReceipt, Trade
  <2>3. result[c] = NoResult
    BY <1>1, <1>4 DEF CallFits, TellFits
  <2>4. QED
    BY <2>2, <2>3 DEF NoEvents, NoResult
<1>5. ASSUME Trade(c), pc[c] = "done"
      PROVE  m.ok /\ Reported(c, e, result[c])
  BY <1>1, <1>5 DEF CallFits, TellFits
<1>6. ASSUME Request(c).kind = "sell", pc[c] = "done" PROVE e.tokens = Request(c).amount
  <2>1. m.ok /\ Trade(c)
    BY <1>5, <1>6 DEF Trade
  <2>2. Answer(c, m)
    BY <1>2, <1>6, <2>1 DEF NoReceipt
  <2>3. QED
    BY <1>6, <2>1, <2>2 DEF Answer, Told
<1>7. ASSUME Request(c).kind = "buy"
      PROVE  /\ result[c].tokens = e.tokens /\ result[c].quote = e.quote
             /\ pc[c] = "done" => result[c].quote + result[c].refund = Request(c).amount
  <2>1. CASE pc[c] = "done"
    <3>1. /\ result[c].tokens = e.tokens /\ result[c].quote = e.quote
          /\ result[c].refund = Request(c).amount - e.quote
      BY <1>5, <1>7, <2>1 DEF Reported, Trade
    <3> HIDE DEF e
    <3>2. QED
      BY <1>3, <3>1
  <2>2. CASE pc[c] # "done"
    BY <1>4, <1>7, <2>2 DEF Trade
  <2>3. QED
    BY <2>1, <2>2
<1>8. ASSUME Request(c).kind = "sell"
      PROVE  /\ result[c].quote = e.quote
             /\ e.tokens = IF pc[c] = "done" THEN Request(c).amount ELSE 0
  <2>1. CASE pc[c] = "done"
    BY <1>5, <1>6, <1>8, <2>1 DEF Reported, Trade
  <2>2. CASE pc[c] # "done"
    BY <1>4, <1>8, <2>2 DEF Trade
  <2>3. QED
    BY <2>1, <2>2
<1>9. QED
  BY <1>3, <1>7, <1>8 DEF ToldAsFiled

LEMMA TokensAddUp ==
    ASSUME plan \in Plans, Receipts(receipts), Books(chain, receipts), NEW a \in Accounts,
           \A c \in CallsOf(a) : ToldAsFiled(c)
    PROVE  chain.tokens[a] =
               TotalOf(Of("buy", a), LAMBDA c : result[c].tokens)
             - TotalOf({c \in Of("sell", a) : pc[c] = "done"}, LAMBDA c : Request(c).amount)
<1> DEFINE buys == Of("buy", a)
           sold == {c \in Of("sell", a) : pc[c] = "done"}
           got == [c \in buys |-> result[c].tokens]
           gave == [c \in sold |-> Request(c).amount]
           gotBy == [c \in Calls |-> IF c \in buys THEN got[c] ELSE 0]
           gaveBy == [c \in Calls |-> IF c \in sold THEN gave[c] ELSE 0]
<1>1. chain.tokens[a] = Total(TokensBy(a, receipts), Calls)
  BY DEF Books
<1>2. IsFiniteSet(Calls) /\ buys \in SUBSET Calls /\ sold \in SUBSET Calls
  BY FiniteCalls DEF Of
<1>3. ASSUME NEW c \in Calls, Request(c).from = a
      PROVE  /\ Request(c).kind = "buy" =>
                    /\ result[c].tokens = receipts[c].main.events.tokens
                    /\ receipts[c].main.events.tokens \in Int
             /\ Request(c).kind = "sell" =>
                    receipts[c].main.events.tokens
                           = IF pc[c] = "done" THEN Request(c).amount ELSE 0
             /\ Request(c).amount \in Int
  <2>1. Request(c).amount \in Int
    BY RequestTypes DEF Requests
  <2>2. QED
    BY <1>3, <2>1 DEF ToldAsFiled, CallsOf
<1>4. Total(gotBy, Calls) = Total(got, buys) /\ Total(gaveBy, Calls) = Total(gave, sold)
  <2>1. (\A c \in buys : got[c] \in Int) /\ (\A c \in sold : gave[c] \in Int)
    BY <1>3 DEF Of
  <2> HIDE DEF buys, sold, got, gave
  <2>2. QED
    BY <1>2, <2>1, TotalPart
<1>5. ASSUME NEW c \in Calls
      PROVE  /\ TokensBy(a, receipts)[c] \in Int /\ gaveBy[c] \in Int
             /\ gotBy[c] = TokensBy(a, receipts)[c] + gaveBy[c]
  <2> DEFINE e == receipts[c].main.events
  <2>1. TokensBy(a, receipts)[c] \in Int
    BY EntriesWhole
  <2>2. CASE c \in buys
    <3>1. Request(c).kind = "buy" /\ Request(c).from = a /\ c \notin sold
      BY <2>2 DEF Of
    <3>2. TokensBy(a, receipts)[c] = e.tokens /\ gotBy[c] = e.tokens /\ gaveBy[c] = 0
      BY <1>3, <2>2, <3>1 DEF TokensBy, Bought
    <3> HIDE DEF gotBy, gaveBy
    <3>3. QED
      BY <2>1, <3>2
  <2>3. CASE c \in sold
    <3>1. Request(c).kind = "sell" /\ Request(c).from = a /\ pc[c] = "done" /\ c \notin buys
      BY <2>3 DEF Of
    <3>2. TokensBy(a, receipts)[c] = 0 - e.tokens /\ gaveBy[c] = Request(c).amount
          /\ gotBy[c] = 0
      BY <2>3, <3>1 DEF TokensBy, Bought
    <3>3. e.tokens = Request(c).amount /\ Request(c).amount \in Int
      BY <1>3, <3>1
    <3> HIDE DEF gotBy, gaveBy, e
    <3>4. QED
      BY <2>1, <3>2, <3>3
  <2>4. CASE c \notin buys /\ c \notin sold
    <3>1. gotBy[c] = 0 /\ gaveBy[c] = 0
      BY <2>4
    <3>2. TokensBy(a, receipts)[c] = 0
      <4>1. CASE Request(c).from = a /\ Request(c).kind = "sell"
        <5>1. e.tokens = 0
          BY <1>3, <2>4, <4>1 DEF Of
        <5>2. QED
          BY <4>1, <5>1 DEF TokensBy, Bought
      <4>2. CASE ~(Request(c).from = a /\ Request(c).kind = "sell")
        BY <2>4, <4>2 DEF TokensBy, Bought, Of
      <4>3. QED
        BY <4>1, <4>2
    <3> HIDE DEF gotBy, gaveBy
    <3>3. QED
      BY <3>1, <3>2
  <2>5. QED
    BY <2>2, <2>3, <2>4
<1> HIDE DEF gotBy, gaveBy
<1>6. Total(gotBy, Calls) = Total(TokensBy(a, receipts), Calls) + Total(gaveBy, Calls)
  BY <1>2, <1>5, TotalsAdd
<1>7. Total(TokensBy(a, receipts), Calls) \in Int /\ Total(gaveBy, Calls) \in Int
  BY <1>2, <1>5, TotalWhole
<1> HIDE DEF got, gave, buys, sold
<1>8. chain.tokens[a] = Total(got, buys) - Total(gave, sold)
  BY <1>1, <1>4, <1>6, <1>7
<1>9. QED
  BY <1>8 DEF TotalOf, got, gave, buys, sold

LEMMA QuoteAddsUp ==
    ASSUME plan \in Plans, Receipts(receipts), Books(chain, receipts), NEW a \in Accounts,
           \A c \in CallsOf(a) : ToldAsFiled(c)
    PROVE  chain.balance[a] + chain.pending[a] = Funds
             - TotalOf(Of("buy", a), LAMBDA c : result[c].quote)
             + TotalOf(Of("sell", a), LAMBDA c : result[c].quote)
             - TotalOf(Of("withdraw", a), LAMBDA c : receipts[c].main.events.quote)
             + TotalOf({c \in Calls : Request(c).kind = "withdraw" /\ Request(c).to = a},
                       LAMBDA c : receipts[c].main.events.quote)
<1> DEFINE buys == Of("buy", a)
           sells == Of("sell", a)
           outs == Of("withdraw", a)
           ins == {c \in Calls : Request(c).kind = "withdraw" /\ Request(c).to = a}
           spent == [c \in buys |-> result[c].quote]
           paid == [c \in sells |-> result[c].quote]
           left == [c \in outs |-> receipts[c].main.events.quote]
           came == [c \in ins |-> receipts[c].main.events.quote]
           spentBy == [c \in Calls |-> IF c \in buys THEN spent[c] ELSE 0]
           paidBy == [c \in Calls |-> IF c \in sells THEN paid[c] ELSE 0]
           leftBy == [c \in Calls |-> IF c \in outs THEN left[c] ELSE 0]
           cameBy == [c \in Calls |-> IF c \in ins THEN came[c] ELSE 0]
           lost == [c \in Calls |-> spentBy[c] + leftBy[c]]
           won == [c \in Calls |-> paidBy[c] + cameBy[c]]
<1>1. /\ Funds \in Int
      /\ chain.balance[a] + chain.pending[a] = Funds + Total(QuoteBy(a, receipts), Calls)
  BY ChainAssumption DEF Books, Worth
<1>2. /\ IsFiniteSet(Calls) /\ buys \in SUBSET Calls /\ sells \in SUBSET Calls
      /\ outs \in SUBSET Calls /\ ins \in SUBSET Calls
  BY FiniteCalls DEF Of
<1>3. ASSUME NEW c \in Calls
      PROVE  /\ Request(c).kind # "migrate" => receipts[c].main.events.quote \in Int
             /\ Request(c).kind \in {"buy", "sell"} /\ Request(c).from = a =>
                    result[c].quote = receipts[c].main.events.quote
  <2>1. Request(c).kind # "migrate" => receipts[c].main.events.quote \in Int
    BY DEF Receipts, Answer, NoReceipt, NoEvents
  <2>2. QED
    BY <2>1 DEF ToldAsFiled, CallsOf
<1>4. /\ Total(spentBy, Calls) = Total(spent, buys) /\ Total(paidBy, Calls) = Total(paid, sells)
      /\ Total(leftBy, Calls) = Total(left, outs) /\ Total(cameBy, Calls) = Total(came, ins)
  <2>1. /\ \A c \in buys : spent[c] \in Int
        /\ \A c \in sells : paid[c] \in Int
        /\ \A c \in outs : left[c] \in Int
        /\ \A c \in ins : came[c] \in Int
    BY <1>3 DEF Of
  <2> HIDE DEF buys, sells, outs, ins, spent, paid, left, came
  <2>2. QED
    BY <1>2, <2>1, TotalPart
<1>5. ASSUME NEW c \in Calls
      PROVE  /\ spentBy[c] \in Int /\ paidBy[c] \in Int /\ leftBy[c] \in Int
             /\ cameBy[c] \in Int /\ QuoteBy(a, receipts)[c] \in Int
             /\ won[c] = QuoteBy(a, receipts)[c] + lost[c]
  <2> DEFINE e == receipts[c].main.events
             kind == Request(c).kind
  <2>1. /\ spentBy[c] = IF kind = "buy" /\ Request(c).from = a THEN e.quote ELSE 0
        /\ paidBy[c] = IF kind = "sell" /\ Request(c).from = a THEN e.quote ELSE 0
        /\ leftBy[c] = IF kind = "withdraw" /\ Request(c).from = a THEN e.quote ELSE 0
        /\ cameBy[c] = IF kind = "withdraw" /\ Request(c).to = a THEN e.quote ELSE 0
    BY <1>3 DEF Of
  <2>2. QuoteBy(a, receipts)[c]
            = (IF Request(c).to = a THEN Withdrawn(kind, e) ELSE 0)
                - (IF Request(c).from = a THEN Paid(kind, e) + Withdrawn(kind, e) ELSE 0)
    BY DEF QuoteBy
  <2>3. won[c] = paidBy[c] + cameBy[c] /\ lost[c] = spentBy[c] + leftBy[c]
    OBVIOUS
  <2>4. kind # "migrate" => e.quote \in Int
    BY <1>3
  <2> HIDE DEF spentBy, paidBy, leftBy, cameBy, won, lost, e
  <2>5. CASE kind = "buy"
    BY <2>1, <2>2, <2>3, <2>4, <2>5 DEF Paid, Withdrawn
  <2>6. CASE kind = "sell"
    BY <2>1, <2>2, <2>3, <2>4, <2>6 DEF Paid, Withdrawn
  <2>7. CASE kind = "withdraw"
    BY <2>1, <2>2, <2>3, <2>4, <2>7 DEF Paid, Withdrawn
  <2>8. CASE kind \notin {"buy", "sell", "withdraw"}
    BY <2>1, <2>2, <2>3, <2>8 DEF Paid, Withdrawn
  <2>9. QED
    BY <2>5, <2>6, <2>7, <2>8
<1>6. Total(lost, Calls) = Total(spentBy, Calls) + Total(leftBy, Calls)
  <2>1. \A c \in Calls : /\ spentBy[c] \in Int /\ leftBy[c] \in Int
                         /\ lost[c] = spentBy[c] + leftBy[c]
    BY <1>5
  <2> HIDE DEF lost, spentBy, leftBy
  <2>2. QED
    BY <1>2, <2>1, TotalsAdd
<1>7. Total(won, Calls) = Total(paidBy, Calls) + Total(cameBy, Calls)
  <2>1. \A c \in Calls : /\ paidBy[c] \in Int /\ cameBy[c] \in Int
                         /\ won[c] = paidBy[c] + cameBy[c]
    BY <1>5
  <2> HIDE DEF won, paidBy, cameBy
  <2>2. QED
    BY <1>2, <2>1, TotalsAdd
<1>8. Total(won, Calls) = Total(QuoteBy(a, receipts), Calls) + Total(lost, Calls)
  <2>1. \A c \in Calls : lost[c] = spentBy[c] + leftBy[c]
    OBVIOUS
  <2> HIDE DEF lost, won, spentBy, paidBy, leftBy, cameBy
  <2>2. \A c \in Calls : /\ QuoteBy(a, receipts)[c] \in Int /\ lost[c] \in Int
                         /\ won[c] = QuoteBy(a, receipts)[c] + lost[c]
    BY <1>5, <2>1
  <2>3. QED
    BY <1>2, <2>2, TotalsAdd
<1> HIDE DEF lost, won, spentBy, paidBy, leftBy, cameBy
<1>9. /\ Total(spentBy, Calls) \in Int /\ Total(paidBy, Calls) \in Int
      /\ Total(leftBy, Calls) \in Int /\ Total(cameBy, Calls) \in Int
      /\ Total(QuoteBy(a, receipts), Calls) \in Int
  BY <1>2, <1>5, TotalWhole
<1> HIDE DEF spent, paid, left, came, buys, sells, outs, ins
<1>10. chain.balance[a] + chain.pending[a]
           = Funds - Total(spent, buys) + Total(paid, sells) - Total(left, outs) + Total(came, ins)
  BY <1>1, <1>4, <1>6, <1>7, <1>8, <1>9
<1>11. QED
  BY <1>10 DEF TotalOf, spent, paid, left, came, buys, sells, outs, ins

LEMMA ToldAddsUp ==
    ASSUME plan \in Plans, Receipts(receipts), Books(chain, receipts), NEW a \in Accounts,
           \A c \in CallsOf(a) : ToldAsFiled(c)
    PROVE  AddsUp(a)
<1>1. \A c \in Of("buy", a) : pc[c] = "done" =>
          result[c].quote + result[c].refund = Request(c).amount
  BY DEF ToldAsFiled, CallsOf, Of
<1>2. QED
  BY <1>1, TokensAddUp, QuoteAddsUp DEF AddsUp

LEMMA BooksTell == ASSUME Once, Books(chain, receipts) PROVE ReportsTrue
<1>1. plan \in Plans /\ Receipts(receipts)
  BY ReceiptsOnce DEF Once
<1>2. ASSUME NEW a \in Accounts, Quiet(a) PROVE \A c \in CallsOf(a) : ToldAsFiled(c)
  <2>1. ASSUME NEW c \in CallsOf(a), Trade(c), receipts[c].main.ok PROVE pc[c] = "done"
    BY <1>2, <2>1 DEF CallsOf, Quiet, Of, Trade
  <2>2. QED
    BY <1>1, <2>1, OnceTold DEF CallsOf
<1>3. QED
  BY <1>1, <1>2, ToldAddsUp DEF ReportsTrue

-----------------------------------------------------------------------------
(* The crate's calls.  What is pending is kept by its nonce, and a later   *)
(* transaction may take the place of an earlier one; still each approve    *)
(* and each transaction of a call is sent at most once, is on its way or   *)
(* answered and not both, and its answer is what it did.                   *)

CrateOnce ==
    /\ Once
    /\ gas \in [Calls -> Nat]
    /\ \A c \in Calls : pc[c] = "done" => receipts[c].main.ok

LEMMA CrateHolds ==
    ASSUME Once', plan' = plan, gas' \in [Calls -> Nat],
           \A c \in Calls : pc'[c] = "done" => receipts'[c].main.ok
    PROVE  CrateOnce'
<1>1. Calls' = Calls
  BY RequestSame
<1>2. QED
  BY <1>1 DEF CrateOnce

\* A step of a call that does not return, and answers nothing.
LEMMA CrateGoesOn ==
    ASSUME CrateOnce, Once', UNCHANGED <<plan, receipts>>, gas' \in [Calls -> Nat],
           \/ UNCHANGED pc
           \/ \E c \in Calls, to \in AllLabels \ {"done"} : Go(c, to)
    PROVE  CrateOnce'
<1>1. \A d \in Calls : pc'[d] = "done" => pc[d] = "done"
  BY DEF CrateOnce, Once, Go
<1>2. QED
  BY <1>1, CrateHolds DEF CrateOnce

LEMMA EstimatedWhole == Estimated \in Nat /\ Unlimited \in Nat
BY GasFigures DEF Estimated, GasNeeded, Unlimited

LEMMA CrateGasWhole ==
    ASSUME CrateOnce, NEW c \in Calls,
           CrateStep(c) \/ CrateRpcFails(c) \/ CrateAnswerLost(c)
    PROVE  gas' \in [Calls -> Nat]
<1>1. Request(c).gasLimit \in Nat /\ gas \in [Calls -> Nat]
  BY RequestTypes DEF CrateOnce, Once, Requests
<1>2. erc20_trade_gas(with_quote_transfer_headroom(Estimated),
                      IF Request(c).kind = "buy" THEN Request(c).gasLimit ELSE 0) \in Nat
  BY <1>1, EstimatedWhole, CrateHeadroomAdds
<1>3. \/ gas' = gas
      \/ \E limit \in Nat : gas' = [gas EXCEPT ![c] = limit]
  BY <1>1, <1>2, EstimatedWhole
     DEF CrateStep, CrateStart, CrateReadAllowance, CratePreflight, CrateAwaitApprove,
         CrateEstimate, FillNonce, FillGas, Broadcast, CrateAwait, CrateRpcFails,
         CrateAnswerLost
<1>4. QED
  BY <1>1, <1>3

\* A filled transaction reaches the pool, whether or not the answer to it comes back.
CrateSends(c) ==
    /\ pc[c] \in Filling
    /\ PutUnder(c)
    /\ \/ Go(c, IF pc[c] = "fillApprove" THEN "awaitApprove" ELSE "await")
       \/ Go(c, IF pc[c] = "fillApprove" THEN "failed" ELSE "lost")

LEMMA CrateSending ==
    ASSUME NEW c \in Calls, Broadcast(c) \/ CrateAnswerLost(c)
    PROVE  /\ UNCHANGED <<plan, chain, receipts, result>>
           /\ \/ CrateSends(c)
              \/ pc[c] \in Filling /\ UNCHANGED mempool /\ Go(c, "failed")
BY DEF Broadcast, CrateAnswerLost, CrateSends, Filling

\* The steps before the sending, which send nothing, and those that get no answer.
LEMMA CrateQuietHolds ==
    ASSUME CrateOnce, NEW c \in Calls, UNCHANGED <<plan, chain, mempool, receipts, result>>,
           \/ CrateStart(c) \/ CrateReadAllowance(c) \/ CratePreflight(c)
           \/ CrateAwaitApprove(c) \/ CrateEstimate(c) \/ CrateRpcFails(c)
           \/ (pc[c] \in Filling /\ Go(c, "failed"))
    PROVE  Once' /\ \E to \in AllLabels \ {"done"} : Go(c, to)
<1>1. CallFits(c, pc[c], mempool, receipts[c], result[c]) /\ Once
  BY DEF CrateOnce, Once
<1>2. Request(c).kind \in {"buy", "sell", "migrate", "withdraw"}
  BY RequestTypes DEF CrateOnce, Once, Requests
<1> DEFINE Goes(to) ==
             /\ Go(c, to) /\ pc[c] # "done"
             /\ to \in Approvals => Request(c).kind = "buy"
             /\ to \in Unapproved => pc[c] \in Unapproved
             /\ pc[c] \in Unsent \/ to = "lost"
<1>3. \E to \in AllLabels \ {"done"} : Goes(to)
  <2>1. CASE CrateStart(c)
    <3>1. \/ Go(c, "fill") \/ Go(c, "estimate")
          \/ Go(c, "allowance") /\ Request(c).kind = "buy"
      BY <2>1 DEF CrateStart
    <3>2. pc[c] = "idle"
      BY <2>1 DEF CrateStart
    <3>3. QED
      BY <3>1, <3>2, AllPlaces DEF Approvals, Unapproved
  <2>2. CASE CrateReadAllowance(c) \/ CratePreflight(c)
    <3>1. pc[c] \in {"allowance", "preflight"}
      BY <2>2 DEF CrateReadAllowance, CratePreflight
    <3>2. Request(c).kind = "buy"
      BY <1>1, <3>1 DEF CallFits, ApproveFits, Approvals
    <3>3. \E to \in {"estimate", "preflight", "fillApprove", "failed"} : Go(c, to)
      BY <2>2 DEF CrateReadAllowance, CratePreflight
    <3>4. QED
      BY <3>1, <3>2, <3>3, AllPlaces DEF Unapproved
  <2>3. CASE \/ CrateAwaitApprove(c) \/ CrateEstimate(c)
             \/ (pc[c] \in Filling /\ Go(c, "failed"))
    <3>1. pc[c] \in {"awaitApprove", "estimate", "fillApprove", "fill"}
      BY <2>3 DEF CrateAwaitApprove, CrateEstimate, Filling
    <3>2. \E to \in {"estimate", "fill", "failed"} : Go(c, to)
      BY <2>3 DEF CrateAwaitApprove, CrateEstimate
    <3>3. QED
      BY <3>1, <3>2, AllPlaces DEF Approvals, Unapproved
  <2>4. CASE CrateRpcFails(c)
    <3>1. /\ pc[c] \in AllLabels \ Final
          /\ Go(c, "lost") \/ (Go(c, "failed") /\ pc[c] # "await")
      BY <1>1, <2>4 DEF CrateRpcFails, CallFits
    <3>2. QED
      BY <3>1, AllPlaces DEF Approvals, Unapproved
  <2>5. QED
    BY <2>1, <2>2, <2>3, <2>4
<1>4. PICK to \in AllLabels \ {"done"} : Goes(to)
  BY <1>3
<1>5. QED
  BY <1>1, <1>4, GivesUpHolds

\* Where the transactions are after one is put under a nonce, in the place of
\* another or not, and after one is taken out.
Puts(queue, now, f, n, tx) ==
    \A a \in Accounts : now[a] = IF a = f THEN Under(queue[a], n, tx) ELSE queue[a]

Takes(queue, now, f, n) ==
    \A a \in Accounts :
        now[a] = IF a = f THEN Restrict(queue[a], DOMAIN queue[a] \ {n}) ELSE queue[a]

LEMMA UnderPut ==
    ASSUME NEW queue, NEW now, NEW f, NEW n, NEW tx, Puts(queue, now, f, n, tx)
    PROVE  \A a \in Accounts : \A i \in DOMAIN now[a] :
               \/ i \in DOMAIN queue[a] /\ now[a][i] = queue[a][i]
               \/ a = f /\ i = n /\ now[a][i] = tx
<1>1. ASSUME NEW a \in Accounts, NEW i \in DOMAIN now[a]
      PROVE  \/ i \in DOMAIN queue[a] /\ now[a][i] = queue[a][i]
             \/ a = f /\ i = n /\ now[a][i] = tx
  <2>1. CASE a # f
    BY <1>1, <2>1 DEF Puts
  <2>2. CASE a = f
    <3>1. now[a] = [j \in DOMAIN queue[f] \cup {n} |-> IF j = n THEN tx ELSE queue[f][j]]
      BY <2>2 DEF Puts, Under
    <3>2. QED
      BY <1>1, <2>2, <3>1
  <2>3. QED
    BY <2>1, <2>2
<1>2. QED
  BY <1>1

LEMMA TakenOut ==
    ASSUME NEW queue, NEW now, NEW f, NEW n, Takes(queue, now, f, n)
    PROVE  \A a \in Accounts : \A i \in DOMAIN now[a] :
               /\ i \in DOMAIN queue[a] /\ now[a][i] = queue[a][i]
               /\ ~(a = f /\ i = n)
<1>1. ASSUME NEW a \in Accounts, NEW i \in DOMAIN now[a]
      PROVE  i \in DOMAIN queue[a] /\ now[a][i] = queue[a][i] /\ ~(a = f /\ i = n)
  <2>1. CASE a # f
    BY <1>1, <2>1 DEF Takes
  <2>2. CASE a = f
    <3>1. now[a] = [j \in DOMAIN queue[f] \ {n} |-> queue[f][j]]
      BY <2>2 DEF Takes, Restrict
    <3>2. QED
      BY <1>1, <2>2, <3>1
  <2>3. QED
    BY <2>1, <2>2
<1>2. QED
  BY <1>1

\* A transaction a call had not sent is broadcast.
LEMMA CrateSendsHolds ==
    ASSUME CrateOnce, NEW c \in Calls, CrateSends(c), UNCHANGED <<plan, chain, receipts, result>>
    PROVE  Once' /\ \E to \in AllLabels \ {"done"} : Go(c, to)
<1> DEFINE tx == Wanted(c, gas[c])
           f == Request(c).from
           n == nonce[c]
<1>1. /\ pc[c] \in Filling /\ plan \in Plans /\ gas[c] \in Nat /\ Once
      /\ mempool' = [mempool EXCEPT ![f] = Under(@, n, tx)]
      /\ f \in Accounts /\ DOMAIN mempool = Accounts
      /\ Sent(AsAsked, mempool) /\ Lone(mempool, Accounts, SameSlot)
  BY RequestTypes DEF CrateOnce, CrateSends, PutUnder, Once, Requests
<1>2. pc[c] \in Unsent /\ (pc[c] = "fillApprove" => pc[c] \in Unapproved)
  BY <1>1, AllPlaces DEF Filling, Unapproved
<1>3. tx \in AsAsked /\ tx.call = c /\ (tx.kind = "approve" <=> pc[c] = "fillApprove")
  <2>1. /\ Transaction(c, gas[c]) \in Transactions /\ Approval(c) \in Transactions
        /\ Request(c).kind # "approve"
    BY <1>1, TransactionTypes, RequestTypes DEF Requests
  <2>2. CASE pc[c] = "fillApprove"
    <3>1. Request(c).kind = "buy"
      BY <2>2 DEF CrateOnce, Once, CallFits, ApproveFits, Approvals
    <3>2. QED
      BY <2>1, <2>2, <3>1 DEF Wanted, Approval, AsAsked
  <2>3. CASE pc[c] # "fillApprove"
    BY <2>1, <2>3 DEF Wanted, Transaction, AsAsked
  <2>4. QED
    BY <2>2, <2>3
<1>4. PICK to \in {"awaitApprove", "await", "failed", "lost"} :
          /\ Go(c, to)
          /\ pc[c] = "fillApprove" => to \in {"awaitApprove", "failed"}
          /\ pc[c] # "fillApprove" => to \in {"await", "lost"}
  BY DEF CrateSends
<1> HIDE DEF tx, f, n
<1>5. /\ DOMAIN mempool' = Accounts
      /\ \A a \in Accounts : \A i \in DOMAIN mempool'[a] :
             \/ i \in DOMAIN mempool[a] /\ mempool'[a][i] = mempool[a][i]
             \/ a = f /\ i = n /\ mempool'[a][i] = tx
  <2>1. DOMAIN mempool' = Accounts /\ Puts(mempool, mempool', f, n, tx)
    BY <1>1 DEF Puts
  <2>2. QED
    BY <2>1, UnderPut
<1>6. OnWayBut(mempool', mempool, tx)
  <2>1. ASSUME NEW d \in Calls, ApproveOnWay(mempool', d)
        PROVE  ApproveOnWay(mempool, d) \/ (tx.call = d /\ tx.kind = "approve")
    BY <1>5, <2>1 DEF ApproveOnWay
  <2>2. ASSUME NEW d \in Calls, MainOnWay(mempool', d)
        PROVE  MainOnWay(mempool, d) \/ (tx.call = d /\ tx.kind # "approve")
    BY <1>5, <2>2 DEF MainOnWay
  <2>3. QED
    BY <2>1, <2>2 DEF OnWayBut
<1>7. Sent(AsAsked, mempool')
  BY <1>1, <1>3, <1>5 DEF Sent
<1>8. ASSUME NEW a \in Accounts, NEW i \in DOMAIN mempool[a]
      PROVE  <<mempool[a][i], tx>> \notin SameSlot /\ <<tx, mempool[a][i]>> \notin SameSlot
  <2>1. /\ tx.kind = "approve" => ~ApproveOnWay(mempool, tx.call)
        /\ tx.kind # "approve" => ~MainOnWay(mempool, tx.call)
    BY <1>1, <1>2, <1>3, UnsentIsNot
  <2>2. tx \in Transactions
    BY <1>3 DEF AsAsked
  <2>3. QED
    BY <2>1, <2>2, NoneLike
<1>9. Lone(mempool', Accounts, SameSlot)
  <2> SUFFICES ASSUME NEW a \in Accounts, NEW b \in Accounts,
                      NEW i \in DOMAIN mempool'[a], NEW j \in DOMAIN mempool'[b],
                      <<mempool'[a][i], mempool'[b][j]>> \in SameSlot
               PROVE  a = b /\ i = j
    BY DEF Lone
  <2>1. /\ \/ i \in DOMAIN mempool[a] /\ mempool'[a][i] = mempool[a][i]
           \/ a = f /\ i = n /\ mempool'[a][i] = tx
        /\ \/ j \in DOMAIN mempool[b] /\ mempool'[b][j] = mempool[b][j]
           \/ b = f /\ j = n /\ mempool'[b][j] = tx
    BY <1>5
  <2>2. CASE /\ i \in DOMAIN mempool[a] /\ mempool'[a][i] = mempool[a][i]
             /\ j \in DOMAIN mempool[b] /\ mempool'[b][j] = mempool[b][j]
    BY <1>1, <2>2 DEF Lone
  <2>3. QED
    BY <1>8, <2>1, <2>2
<1>10. /\ tx.kind = "approve" => pc[c] \in Unapproved /\ to \in {"awaitApprove", "failed"}
       /\ tx.kind # "approve" => to \in {"await", "lost"}
  BY <1>2, <1>3, <1>4
<1>11. Once'
  BY <1>1, <1>2, <1>3, <1>4, <1>5, <1>6, <1>7, <1>9, <1>10, SentHolds
<1>12. QED
  BY <1>4, <1>11, AllPlaces

LEMMA CrateAwaitHolds ==
    ASSUME CrateOnce, NEW c \in Calls, CrateAwait(c) PROVE CrateOnce'
<1> DEFINE main == receipts[c].main
           e == main.events
           missed == ~main.ok \/ (Trade(c) /\ ~e.trade)
<1>1. /\ pc[c] = "await" /\ main.mined /\ Once
      /\ UNCHANGED <<plan, chain, mempool, receipts>>
      /\ missed => Go(c, "failed") /\ UNCHANGED result
      /\ ~missed => Go(c, "done") /\ result' = [result EXCEPT ![c] = CrateReport(c)]
  BY DEF CrateAwait, Trade, CrateOnce
<1>2. Answer(c, main) /\ plan \in Plans /\ DOMAIN pc = Calls
  BY <1>1 DEF Once, CallFits, MainFits, NoReceipt
<1>3. gas' \in [Calls -> Nat]
  BY CrateGasWhole DEF CrateStep
<1>4. CASE missed
  <2>1. ~main.ok
    BY <1>2, <1>4 DEF Answer, Told, Trade
  <2>2. Once' /\ Go(c, "failed")
    BY <1>1, <1>4, <2>1, ThrowHolds
  <2>3. QED
    BY <1>1, <1>3, <2>2, AllPlaces, CrateGoesOn
<1>5. CASE ~missed
  <2>1. main.ok
    BY <1>5
  <2>2. Reported(c, e, CrateReport(c))
    <3> DEFINE report == CrateReport(c)
    <3>1. CASE Request(c).kind = "buy"
      <4>1. /\ e.quote \in Int /\ e.quote <= Request(c).amount
            /\ e.refund = IF Native THEN Request(c).amount - e.quote ELSE 0
        BY <1>2, <2>1, <3>1 DEF Answer, Told
      <4>2. Request(c).amount \in Nat
        BY <1>2, RequestTypes DEF Requests
      <4>3. /\ report.tokens = e.tokens /\ report.quote = e.quote
            /\ report.refund = IF e.refund = 0 /\ ~Native
                               THEN Monus(Request(c).amount, e.quote) ELSE e.refund
        BY <3>1 DEF CrateReport, NoResult
      <4>4. report.refund = Request(c).amount - e.quote
        BY <4>1, <4>2, <4>3 DEF Monus
      <4>5. QED
        BY <3>1, <4>3, <4>4 DEF Reported
    <3>2. CASE Request(c).kind = "sell"
      <4>1. report = [NoResult EXCEPT !.quote = e.quote]
        BY <3>2 DEF CrateReport
      <4>2. report.quote = e.quote
        BY <4>1 DEF NoResult
      <4>3. QED
        BY <3>2, <4>2 DEF Reported
    <3>3. QED
      BY <3>1, <3>2 DEF Reported
  <2>3. Once'
    BY <1>1, <1>5, <2>1, <2>2, ReturnHolds
  <2>4. \A d \in Calls : pc'[d] = "done" => receipts'[d].main.ok
    BY <1>1, <1>2, <1>5, <2>1 DEF Go, CrateOnce
  <2>5. QED
    BY <1>1, <1>3, <2>3, <2>4, CrateHolds
<1>6. QED
  BY <1>4, <1>5

\* What is mined is what its call asked for, and there is no other like it.
LEMMA CrateMineAnswers ==
    ASSUME CrateOnce, NEW a \in Accounts, CrateMine(a)
    PROVE  /\ \E tx, ok, e : Answers(tx, ok, e) /\ FirstOf(tx, mempool')
           /\ DOMAIN mempool' = Accounts /\ Sent(AsAsked, mempool')
           /\ Lone(mempool', Accounts, SameSlot) /\ OnWayStill(mempool', mempool)
<1> DEFINE n == mined[a]
           tx == mempool[a][n]
           o == Outcome(chain, world, Native, tx)
<1>1. /\ n \in DOMAIN mempool[a] /\ chain' = o.chain /\ Once /\ Figures(chain)
      /\ mempool' = [mempool EXCEPT ![a] = Restrict(@, DOMAIN @ \ {n})]
      /\ receipts' = IF tx.kind = "approve"
                     THEN [receipts EXCEPT ![tx.call].approve =
                               [mined |-> TRUE, ok |-> o.ok, events |-> o.events]]
                     ELSE [receipts EXCEPT ![tx.call].main =
                               [mined |-> TRUE, ok |-> o.ok, events |-> o.events]]
      /\ DOMAIN mempool = Accounts
      /\ Sent(AsAsked, mempool) /\ Lone(mempool, Accounts, SameSlot)
  BY DEF CrateMine, CrateOnce, Once
<1>2. DOMAIN mempool' = Accounts /\ Takes(mempool, mempool', a, n)
  BY <1>1 DEF Takes
<1> HIDE DEF n
<1>3. \A b \in Accounts : \A i \in DOMAIN mempool'[b] :
          /\ i \in DOMAIN mempool[b] /\ mempool'[b][i] = mempool[b][i]
          /\ ~(b = a /\ i = n)
  BY <1>2, TakenOut
<1>4. Sent(AsAsked, mempool') /\ Lone(mempool', Accounts, SameSlot)
  <2>1. Sent(AsAsked, mempool')
    BY <1>1, <1>3 DEF Sent
  <2>2. ASSUME NEW b \in Accounts, NEW d \in Accounts,
               NEW i \in DOMAIN mempool'[b], NEW j \in DOMAIN mempool'[d],
               <<mempool'[b][i], mempool'[d][j]>> \in SameSlot
        PROVE  b = d /\ i = j
    <3>1. /\ i \in DOMAIN mempool[b] /\ mempool'[b][i] = mempool[b][i]
          /\ j \in DOMAIN mempool[d] /\ mempool'[d][j] = mempool[d][j]
      BY <1>3
    <3>2. <<mempool[b][i], mempool[d][j]>> \in SameSlot
      BY <2>2, <3>1
    <3>3. QED
      BY <1>1, <3>1, <3>2 DEF Lone
  <2>3. QED
    BY <2>1, <2>2 DEF Lone
<1>5. OnWayStill(mempool', mempool)
  <2>1. \A d \in Calls : ApproveOnWay(mempool', d) => ApproveOnWay(mempool, d)
    BY <1>3 DEF ApproveOnWay
  <2>2. \A d \in Calls : MainOnWay(mempool', d) => MainOnWay(mempool, d)
    BY <1>3 DEF MainOnWay
  <2>3. QED
    BY <2>1, <2>2 DEF OnWayStill
<1>6. tx \in AsAsked /\ tx \in Transactions
  BY <1>1 DEF Sent, AsAsked
<1>7. ASSUME NEW b \in Accounts, NEW j \in DOMAIN mempool'[b],
             <<tx, mempool'[b][j]>> \in SameSlot
      PROVE  FALSE
  <2>1. j \in DOMAIN mempool[b] /\ mempool'[b][j] = mempool[b][j] /\ ~(b = a /\ j = n)
    BY <1>3
  <2>2. <<mempool[a][n], mempool[b][j]>> \in SameSlot
    BY <1>7, <2>1
  <2>3. a = b /\ n = j
    BY <1>1, <2>1, <2>2 DEF Lone
  <2>4. QED
    BY <2>1, <2>3
<1>8. Native \in BOOLEAN
  BY PlansAssumption DEF CrateOnce, Once, Native
<1>9. \E b \in Accounts : \E i \in DOMAIN mempool[b] : tx = mempool[b][i]
  BY <1>1
<1> HIDE DEF tx
<1>10. FirstOf(tx, mempool')
  BY <1>1, <1>4, <1>6, <1>7, <1>9, FirstIsLone
<1>11. /\ o.ok \in BOOLEAN
       /\ Accounted(chain, o.chain, Native, tx, o.ok, o.events)
       /\ Told(Native, tx, o.ok, o.events)
  BY <1>1, <1>6, <1>8, OutcomeAccounted
<1> HIDE DEF o
<1>12. Accounted(chain, chain', Native, tx, o.ok, o.events)
  BY <1>1, <1>11, Zenon
<1>13. (chain.migrated => chain.graduated) => MigratedAs(chain, chain', tx.kind, o.events)
  <2>1. (chain.migrated => chain.graduated) => MigratedAs(chain, o.chain, tx.kind, o.events)
    BY <1>1, <1>6, <1>8, OutcomeMigratedAs DEF o
  <2>2. QED
    BY <1>1, <2>1, Zenon
<1>14. Answers(tx, o.ok, o.events)
  BY <1>1, <1>6, <1>11, <1>12, <1>13 DEF Answers, Receives
<1>15. QED
  BY <1>2, <1>4, <1>5, <1>10, <1>14

LEMMA CrateMineHolds ==
    ASSUME CrateOnce, NEW a \in Accounts, CrateMine(a) PROVE CrateOnce'
<1>1. /\ \E tx, ok, e : Answers(tx, ok, e) /\ FirstOf(tx, mempool')
      /\ DOMAIN mempool' = Accounts /\ Sent(AsAsked, mempool')
      /\ Lone(mempool', Accounts, SameSlot) /\ OnWayStill(mempool', mempool)
  BY CrateMineAnswers
<1>2. PICK tx, ok, e : Answers(tx, ok, e) /\ FirstOf(tx, mempool')
  BY <1>1
<1>3. /\ UNCHANGED <<plan, pc, gas, result>> /\ Once /\ Filed /\ gas \in [Calls -> Nat]
      /\ \A d \in Calls : pc[d] = "done" => receipts[d].main.ok
  BY DEF CrateMine, CrateOnce, Once
<1>4. Once'
  BY <1>1, <1>2, <1>3, AnswerHolds
<1>5. \A d \in Calls : pc'[d] = "done" => receipts'[d].main.ok
  <2>1. tx.call \in Calls /\ Receives(tx, ok, e)
    BY <1>2 DEF Answers, AsAsked
  <2>2. /\ \A d \in Calls \ {tx.call} : receipts'[d] = receipts[d]
        /\ tx.kind = "approve" => receipts'[tx.call].main = receipts[tx.call].main
    BY <1>3, <2>1, ReceiptsAfter
  <2>3. tx.kind # "approve" => pc[tx.call] # "done"
    BY <1>2 DEF FirstOf
  <2>4. ASSUME NEW d \in Calls, pc'[d] = "done" PROVE receipts'[d].main.ok
    <3>1. pc[d] = "done" /\ receipts[d].main.ok
      BY <1>3, <2>4
    <3>2. receipts'[d].main = receipts[d].main
      BY <2>2, <2>3, <3>1
    <3>3. QED
      BY <3>1, <3>2
  <2>5. QED
    BY <2>4
<1>6. QED
  BY <1>3, <1>4, <1>5, CrateHolds

LEMMA InitCrateOnce == CrateInit => CrateOnce
<1>1. ASSUME CrateInit
      PROVE  gas \in [Calls -> Nat] /\ \A c \in Calls : pc[c] # "done"
  BY <1>1 DEF CrateInit, Init
<1>2. QED
  BY <1>1, InitOnce DEF CrateInit, CrateOnce

LEMMA NextCrateOnce == CrateOnce /\ [CrateNext]_crateVars => CrateOnce'
<1> SUFFICES ASSUME CrateOnce, [CrateNext]_crateVars PROVE CrateOnce'
  OBVIOUS
<1>1. gas \in [Calls -> Nat] /\ Once
  BY DEF CrateOnce
<1>2. ASSUME NEW c \in Calls, CrateStep(c) \/ CrateRpcFails(c) \/ CrateAnswerLost(c)
      PROVE  CrateOnce'
  <2>1. gas' \in [Calls -> Nat]
    BY <1>2, CrateGasWhole
  <2>2. CASE FillNonce(c) \/ (FillGas(c) /\ UNCHANGED pc)
    <3>1. UNCHANGED <<plan, chain, mempool, receipts, pc, result>>
      BY <2>2 DEF FillNonce, FillGas
    <3>2. Once'
      BY <1>1, <3>1, OnceStays
    <3>3. QED
      BY <2>1, <3>1, <3>2, CrateGoesOn
  <2>3. CASE CrateAwait(c)
    BY <2>3, CrateAwaitHolds
  <2>4. CASE \/ CrateStart(c) \/ CrateReadAllowance(c) \/ CratePreflight(c)
             \/ CrateAwaitApprove(c) \/ CrateEstimate(c) \/ CrateRpcFails(c)
             \/ (FillGas(c) /\ Go(c, "failed"))
             \/ (Broadcast(c) \/ CrateAnswerLost(c)) /\ ~CrateSends(c)
    <3>1. \/ CrateStart(c) \/ CrateReadAllowance(c) \/ CratePreflight(c)
          \/ CrateAwaitApprove(c) \/ CrateEstimate(c) \/ CrateRpcFails(c)
          \/ (pc[c] \in Filling /\ Go(c, "failed"))
      BY <2>4, CrateSending DEF FillGas
    <3>2. UNCHANGED <<plan, chain, mempool, receipts, result>>
      BY <2>4, CrateSending DEF CrateStart, CrateReadAllowance, CratePreflight,
         CrateAwaitApprove, CrateEstimate, CrateRpcFails, FillGas
    <3>3. Once' /\ \E to \in AllLabels \ {"done"} : Go(c, to)
      BY <3>1, <3>2, CrateQuietHolds
    <3>4. QED
      BY <2>1, <3>2, <3>3, CrateGoesOn
  <2>5. CASE (Broadcast(c) \/ CrateAnswerLost(c)) /\ CrateSends(c)
    <3>1. UNCHANGED <<plan, chain, receipts, result>>
      BY <2>5, CrateSending
    <3>2. Once' /\ \E to \in AllLabels \ {"done"} : Go(c, to)
      BY <2>5, <3>1, CrateSendsHolds
    <3>3. QED
      BY <2>1, <3>1, <3>2, CrateGoesOn
  <2>6. FillGas(c) => UNCHANGED pc \/ Go(c, "failed")
    BY DEF FillGas
  <2>7. QED
    BY <1>2, <2>2, <2>3, <2>4, <2>5, <2>6 DEF CrateStep
<1>3. ASSUME NEW a \in Accounts, CrateMine(a) PROVE CrateOnce'
  BY <1>3, CrateMineHolds
<1>4. CASE WorldChanges \/ UNCHANGED crateVars
  <2>1. UNCHANGED <<plan, chain, mempool, receipts, pc, gas, result>>
    BY <1>4 DEF WorldChanges, crateVars, vars
  <2>2. Once'
    BY <1>1, <2>1, OnceStays
  <2>3. QED
    BY <1>1, <2>1, <2>2, CrateGoesOn
<1>5. QED
  BY <1>2, <1>3, <1>4 DEF CrateNext

\* The crate's books, and what its calls were told.
CrateBooks == CrateOnce /\ Books(chain, receipts)

LEMMA InitCrateBooks == CrateInit => CrateBooks
BY InitCrateOnce, InitBooks DEF CrateInit, CrateBooks

LEMMA NextCrateBooks == CrateBooks /\ [CrateNext]_crateVars => CrateBooks'
<1> SUFFICES ASSUME CrateBooks, [CrateNext]_crateVars PROVE CrateBooks'
  OBVIOUS
<1>1. CrateOnce'
  BY NextCrateOnce DEF CrateBooks
<1>2. ASSUME NEW a \in Accounts, CrateMine(a) PROVE CrateBooks'
  <2>1. PICK tx, ok, e : Answers(tx, ok, e) /\ FirstOf(tx, mempool')
    BY <1>2, CrateMineAnswers DEF CrateBooks
  <2>2. plan' = plan /\ Once /\ Once' /\ Books(chain, receipts)
    BY <1>1, <1>2 DEF CrateMine, CrateBooks, CrateOnce
  <2>3. Books(chain', receipts')
    BY <2>1, <2>2, AnswerBooks
  <2>4. QED
    BY <1>1, <2>2, <2>3, BooksSame DEF CrateBooks
<1>3. CASE UNCHANGED <<plan, chain, receipts>>
  <2>1. Books(chain', receipts') /\ plan' = plan
    BY <1>3 DEF CrateBooks
  <2>2. QED
    BY <1>1, <2>1, BooksSame DEF CrateBooks
<1>4. QED
  BY <1>2, <1>3 DEF CrateNext, CrateStep, CrateStart, CrateReadAllowance, CratePreflight,
     CrateAwaitApprove, CrateEstimate, FillNonce, FillGas, Broadcast, CrateAwait,
     CrateRpcFails, CrateAnswerLost, WorldChanges, crateVars, vars

\* What the crate's calls were told is what their transactions did.
LEMMA CrateTold == ASSUME CrateBooks PROVE CallsTold
<1>1. ASSUME NEW c \in Calls, pc[c] \in {"done", "failed"}
      PROVE  (pc[c] = "done" <=> receipts[c].main.ok) /\ ToldAsFiled(c)
  <2>1. /\ CallFits(c, pc[c], mempool, receipts[c], result[c])
        /\ pc[c] = "done" => receipts[c].main.ok
    BY DEF CrateBooks, CrateOnce, Once
  <2>2. pc[c] = "failed" => ~receipts[c].main.ok
    BY <2>1 DEF CallFits, TellFits
  <2>3. ToldAsFiled(c)
    BY <1>1, <2>1, <2>2, OnceTold DEF CrateBooks, CrateOnce
  <2>4. QED
    BY <1>1, <2>1, <2>2, <2>3
<1>2. plan \in Plans /\ Receipts(receipts) /\ Books(chain, receipts)
  BY ReceiptsOnce DEF CrateBooks, CrateOnce, Once
<1>3. ASSUME NEW a \in Accounts, \A c \in CallsOf(a) : pc[c] \in {"done", "failed"}
      PROVE  AddsUp(a)
  <2>1. \A c \in CallsOf(a) : ToldAsFiled(c)
    BY <1>1, <1>3 DEF CallsOf
  <2>2. QED
    BY <1>2, <2>1, ToldAddsUp
<1>4. QED
  BY <1>1, <1>3 DEF CallsTold

-----------------------------------------------------------------------------
(* Either client keeps the promise of TradeOutcomes.  Each step of a call  *)
(* is a trade that returns, throws or is lost, or nothing a caller sees;   *)
(* each transaction that is mined is a trade that happens, once, while its *)
(* call waits for it or after that was lost, or nothing.                   *)

ClientsInv ==
    /\ plan \in Plans
    /\ plan.client = "ts" => BooksInv /\ MigrationInv
    /\ plan.client = "crate" => CrateBooks

LEMMA ClientsOnce == ASSUME ClientsInv PROVE Once /\ Books(chain, receipts)
<1>1. plan.client \in {"ts", "crate"}
  BY PlansAssumption DEF ClientsInv
<1>2. QED
  BY <1>1 DEF ClientsInv, BooksInv, OnceInv, CrateBooks, CrateOnce

LEMMA CallsAreSlots == ASSUME plan \in Plans PROVE Calls \subseteq 1 .. MaxCalls
<1>1. plan.calls \in Seq(Requests) /\ Len(plan.calls) <= MaxCalls /\ MaxCalls \in Nat
  BY PlansAssumption
<1>2. PICK n \in Nat : Calls = 1 .. n /\ Len(plan.calls) = n
  BY <1>1 DEF Calls
<1>3. QED
  BY <1>1, <1>2

\* What is seen of the trades are functions on the slots.
LEMMA SeenOnSlots ==
    /\ Stages = [p \in 1 .. MaxCalls |-> Stages[p]]
    /\ Fills = [p \in 1 .. MaxCalls |-> Fills[p]]
    /\ Tellings = [p \in 1 .. MaxCalls |-> Tellings[p]]
    /\ Stages' = [p \in 1 .. MaxCalls |-> Stages'[p]]
    /\ Fills' = [p \in 1 .. MaxCalls |-> Fills'[p]]
    /\ Tellings' = [p \in 1 .. MaxCalls |-> Tellings'[p]]
BY DEF Stages, Fills, Tellings

LEMMA SeenOfTrade ==
    ASSUME NEW c \in Trades, c \in 1 .. MaxCalls
    PROVE  /\ Stages[c] = IF pc[c] \in Final THEN pc[c] ELSE "open"
           /\ Fills[c] = FilledOnChain(c)
           /\ Tellings[c] = FilledAsTold(c)
BY DEF Stages, Fills, Tellings

LEMMA SeenOfTradeAfter ==
    ASSUME plan' = plan, NEW c \in Trades, c \in 1 .. MaxCalls
    PROVE  /\ Stages'[c] = IF pc'[c] \in Final THEN pc'[c] ELSE "open"
           /\ Fills'[c] = FilledOnChain(c)'
           /\ Tellings'[c] = FilledAsTold(c)'
<1>1. Trades' = Trades
  BY DEF Trades, Calls, Request
<1>2. QED
  BY <1>1 DEF Stages, Fills, Tellings

\* Nothing is seen of a slot whose call is no trade, or stays where it is.
LEMMA SeenStill ==
    ASSUME plan' = plan, NEW p \in 1 .. MaxCalls,
           p \in Trades => /\ pc'[p] = pc[p] /\ result'[p] = result[p]
                           /\ receipts'[p].main = receipts[p].main
    PROVE  Stages'[p] = Stages[p] /\ Fills'[p] = Fills[p] /\ Tellings'[p] = Tellings[p]
<1>1. Trades' = Trades
  BY DEF Trades, Calls, Request
<1>2. CASE p \in Trades
  <2>1. FilledOnChain(p)' = FilledOnChain(p) /\ FilledAsTold(p)' = FilledAsTold(p)
    BY <1>2 DEF FilledOnChain, FilledAsTold, Filled, Request
  <2>2. QED
    BY <1>2, <2>1, SeenOfTrade, SeenOfTradeAfter
<1>3. CASE p \notin Trades
  BY <1>1, <1>3 DEF Stages, Fills, Tellings
<1>4. QED
  BY <1>2, <1>3

LEMMA NothingSeen ==
    ASSUME plan' = plan, failures' \in {failures, failures + 1},
           \A p \in 1 .. MaxCalls :
               Stages'[p] = Stages[p] /\ Fills'[p] = Fills[p] /\ Tellings'[p] = Tellings[p]
    PROVE  [Outcomes!Next]_(Outcomes!vars)
<1>1. Stages' = Stages /\ Fills' = Fills /\ Tellings' = Tellings
  BY SeenOnSlots
<1>2. QED
  BY <1>1 DEF Outcomes!Next, Outcomes!vars, Outcomes!Fault

\* A step of one call, before it ended.
Moves(c) ==
    /\ UNCHANGED <<plan, receipts>>
    /\ \A d \in Calls \ {c} : pc'[d] = pc[d] /\ result'[d] = result[d]
    /\ pc[c] \notin Final
    /\ failures' \in {failures, failures + 1}
    /\ pc'[c] = "done" => failures' = failures
    /\ pc'[c] = "lost" => failures' = failures + 1

\* What a call that ends was told is what its receipt says.
LEMMA EndsTold ==
    ASSUME Once', plan' = plan, UNCHANGED receipts, NEW c \in Trades
    PROVE  /\ pc'[c] = "failed" => FilledOnChain(c) = {}
           /\ pc'[c] = "done" => /\ FilledOnChain(c) # {}
                                 /\ FilledAsTold(c)' = FilledOnChain(c)
           /\ pc'[c] # "done" => FilledAsTold(c)' = {}
           /\ FilledOnChain(c)' = FilledOnChain(c)
<1> DEFINE main == receipts[c].main
           e == main.events
           res == result'[c]
<1>1. Request(c)' = Request(c) /\ c \in Calls /\ Calls' = Calls
  BY RequestSame DEF Trades
<1>2. CallFits(c, pc[c], mempool, receipts[c], result[c])'
  BY <1>1 DEF Once
<1>3. /\ pc'[c] = "failed" => ~main.ok
      /\ pc'[c] = "done" => Reported(c, e, res) /\ main.ok
  <2>1. Trade(c) /\ (Trade(c)' <=> Trade(c))
    BY <1>1 DEF Trades, Trade
  <2>2. /\ pc'[c] = "failed" => ~receipts'[c].main.ok
        /\ pc'[c] = "done" => /\ Reported(c, receipts[c].main.events, result[c])'
                              /\ receipts'[c].main.ok
    BY <1>2, <2>1, Zenon DEF CallFits, TellFits
  <2>3. Reported(c, receipts[c].main.events, result[c])' <=> Reported(c, e, res)
    BY <1>1 DEF Reported
  <2>4. QED
    BY <2>2, <2>3
<1>4. FilledOnChain(c)' = FilledOnChain(c)
  BY <1>1 DEF FilledOnChain, Filled
<1>5. pc'[c] # "done" => FilledAsTold(c)' = {}
  BY DEF FilledAsTold
<1>6. pc'[c] = "failed" => FilledOnChain(c) = {}
  BY <1>3 DEF FilledOnChain
<1>7. ASSUME pc'[c] = "done"
      PROVE  FilledOnChain(c) # {} /\ FilledAsTold(c)' = FilledOnChain(c)
  <2>1. FilledOnChain(c) = {Filled(c, e.tokens, e.quote, Request(c).amount - e.quote)}
    BY <1>3, <1>7 DEF FilledOnChain
  <2>2. FilledAsTold(c)' = {Filled(c, res.tokens, res.quote, res.refund)}
    BY <1>1, <1>7 DEF FilledAsTold, Filled
  <2>3. Filled(c, res.tokens, res.quote, res.refund)
            = Filled(c, e.tokens, e.quote, Request(c).amount - e.quote)
    BY <1>3, <1>7 DEF Reported, Filled, Trades
  <2>4. QED
    BY <2>1, <2>2, <2>3
<1>8. QED
  BY <1>4, <1>5, <1>6, <1>7

LEMMA MovesKeepPromise ==
    ASSUME Once, Once', NEW c \in Calls, Moves(c)
    PROVE  [Outcomes!Next]_(Outcomes!vars)
<1>1. /\ plan' = plan /\ UNCHANGED receipts /\ c \in 1 .. MaxCalls
      /\ failures' \in {failures, failures + 1}
  BY CallsAreSlots DEF Once, Moves
<1>2. ASSUME NEW p \in (1 .. MaxCalls) \ {c}
      PROVE  Stages'[p] = Stages[p] /\ Fills'[p] = Fills[p] /\ Tellings'[p] = Tellings[p]
  <2>1. p \in Trades => pc'[p] = pc[p] /\ result'[p] = result[p]
    BY DEF Moves, Trades
  <2>2. QED
    BY <1>1, <2>1, SeenStill
<1>3. CASE c \notin Trades
  <2>1. Stages'[c] = Stages[c] /\ Fills'[c] = Fills[c] /\ Tellings'[c] = Tellings[c]
    BY <1>1, <1>3, SeenStill
  <2>2. QED
    BY <1>1, <1>2, <2>1, NothingSeen
<1>4. CASE c \in Trades
  <2>1. /\ Stages[c] = "open"
        /\ Stages'[c] = IF pc'[c] \in Final THEN pc'[c] ELSE "open"
        /\ Fills[c] = FilledOnChain(c) /\ Fills'[c] = Fills[c]
        /\ Tellings[c] = {} /\ Tellings'[c] = FilledAsTold(c)'
    <3>1. FilledAsTold(c) = {}
      BY DEF Moves, Final, FilledAsTold
    <3>2. FilledOnChain(c)' = FilledOnChain(c)
      BY <1>1, <1>4, EndsTold
    <3>3. QED
      BY <1>1, <1>4, <3>1, <3>2, SeenOfTrade, SeenOfTradeAfter DEF Moves
  <2>2. /\ pc'[c] = "failed" => Fills[c] = {}
        /\ pc'[c] = "done" => Fills[c] # {} /\ Tellings'[c] = Fills[c]
        /\ pc'[c] # "done" => Tellings'[c] = {}
    BY <1>1, <1>4, <2>1, EndsTold
  <2>3. Fills' = Fills
    BY <1>2, <2>1, SeenOnSlots
  <2>4. /\ Stages' = [Stages EXCEPT ![c] = Stages'[c]]
        /\ Tellings' = [Tellings EXCEPT ![c] = Tellings'[c]]
    BY <1>2, SeenOnSlots
  <2>5. CASE pc'[c] \notin Final
    <3>1. Stages'[c] = Stages[c] /\ Tellings'[c] = Tellings[c]
      BY <2>1, <2>2, <2>5 DEF Final
    <3>2. QED
      BY <1>1, <1>2, <2>1, <3>1, NothingSeen
  <2>6. CASE pc'[c] = "done"
    <3>1. failures' = failures
      BY <2>6 DEF Moves
    <3>2. Stages'[c] = "done"
      BY <2>1, <2>6 DEF Final
    <3>3. Outcomes!Return(c)
      BY <2>1, <2>2, <2>3, <2>4, <2>6, <3>1, <3>2 DEF Outcomes!Return
    <3>4. QED
      BY <1>1, <3>3 DEF Outcomes!Next
  <2>7. CASE pc'[c] = "failed"
    <3>1. Stages'[c] = "failed" /\ Tellings'[c] = Tellings[c]
      BY <2>1, <2>2, <2>7 DEF Final
    <3>2. Tellings' = Tellings
      BY <1>2, <3>1, SeenOnSlots
    <3>3. Outcomes!Throw(c)
      BY <1>1, <2>1, <2>2, <2>3, <2>4, <2>7, <3>1, <3>2 DEF Outcomes!Throw
    <3>4. QED
      BY <1>1, <3>3 DEF Outcomes!Next
  <2>8. CASE pc'[c] = "lost"
    <3>1. Stages'[c] = "lost" /\ Tellings'[c] = Tellings[c] /\ failures' = failures + 1
      BY <2>1, <2>2, <2>8 DEF Final, Moves
    <3>2. Tellings' = Tellings
      BY <1>2, <3>1, SeenOnSlots
    <3>3. Outcomes!Lose(c)
      BY <2>1, <2>3, <2>4, <3>1, <3>2 DEF Outcomes!Lose
    <3>4. QED
      BY <1>1, <3>3 DEF Outcomes!Next
  <2>9. QED
    BY <2>5, <2>6, <2>7, <2>8 DEF Final
<1>5. QED
  BY <1>3, <1>4

LEMMA AnswerKeepsPromise ==
    ASSUME Once, UNCHANGED <<plan, pc, result, failures>>,
           NEW tx, NEW ok, NEW e, Answers(tx, ok, e), FirstOf(tx, mempool')
    PROVE  [Outcomes!Next]_(Outcomes!vars)
<1> DEFINE c == tx.call
<1>1. /\ c \in Calls /\ c \in 1 .. MaxCalls /\ Filed /\ Receives(tx, ok, e)
      /\ ok \in BOOLEAN
  BY CallsAreSlots DEF Once, Answers, AsAsked
<1>2. /\ \A d \in Calls \ {c} : receipts'[d] = receipts[d]
      /\ tx.kind = "approve" => receipts'[c].main = receipts[c].main
      /\ tx.kind # "approve" => receipts'[c].main = [mined |-> TRUE, ok |-> ok, events |-> e]
  BY <1>1, ReceiptsAfter
<1>3. tx.kind # "approve" => receipts[c].main = NoReceipt /\ pc[c] \in {"await", "lost"}
  BY DEF FirstOf
<1> HIDE DEF c
<1>4. ASSUME NEW p \in (1 .. MaxCalls) \ {c}
      PROVE  Stages'[p] = Stages[p] /\ Fills'[p] = Fills[p] /\ Tellings'[p] = Tellings[p]
  <2>1. p \in Trades => receipts'[p].main = receipts[p].main
    BY <1>2 DEF Trades
  <2>2. QED
    BY <2>1, SeenStill
<1>5. CASE c \notin Trades \/ tx.kind = "approve"
  <2>1. Stages'[c] = Stages[c] /\ Fills'[c] = Fills[c] /\ Tellings'[c] = Tellings[c]
    BY <1>1, <1>2, <1>5, SeenStill
  <2>2. QED
    BY <1>4, <2>1, NothingSeen
<1>6. CASE c \in Trades /\ tx.kind # "approve"
  <2> DEFINE main == receipts'[c].main
  <2>1. main.ok = ok /\ ~receipts[c].main.ok
    BY <1>2, <1>3, <1>6 DEF NoReceipt
  <2> HIDE DEF main
  <2>2. /\ Stages[c] = (IF pc[c] \in Final THEN pc[c] ELSE "open") /\ Stages'[c] = Stages[c]
        /\ Fills[c] = {} /\ Fills'[c] = FilledOnChain(c)'
        /\ Tellings'[c] = Tellings[c]
    <3>1. FilledAsTold(c)' = FilledAsTold(c)
      BY DEF FilledAsTold, Filled, Request
    <3>2. FilledOnChain(c) = {}
      BY <2>1 DEF FilledOnChain
    <3>3. QED
      BY <1>1, <1>6, <3>1, <3>2, SeenOfTrade, SeenOfTradeAfter
  <2>3. Stages' = Stages /\ Tellings' = Tellings
    BY <1>4, <2>2, SeenOnSlots
  <2>4. CASE ~ok
    <3>1. FilledOnChain(c)' = {}
      BY <2>1, <2>4 DEF FilledOnChain, main
    <3>2. QED
      BY <1>4, <2>2, <3>1, NothingSeen
  <2>5. CASE ok
    <3>1. PICK fill : FilledOnChain(c)' = {fill}
      BY <2>1, <2>5 DEF FilledOnChain, main
    <3>2. fill \in Fills'[c] /\ Fills' = [Fills EXCEPT ![c] = {fill}]
      BY <1>4, <2>2, <3>1, SeenOnSlots
    <3>3. Stages[c] \in {"open", "lost"}
      BY <1>3, <1>6, <2>2 DEF Final
    <3>4. Outcomes!Happen(c)
      BY <2>2, <2>3, <3>2, <3>3 DEF Outcomes!Happen
    <3>5. QED
      BY <1>1, <3>4 DEF Outcomes!Next
  <2>6. QED
    BY <1>1, <2>4, <2>5
<1>7. QED
  BY <1>5, <1>6

\* The steps of a call of either client.
LEMMA TsMoves ==
    ASSUME OnceInv, NEW c \in Calls, Step(c) \/ RpcFails(c) \/ AnswerLost(c)
    PROVE  Moves(c)
<1>1. DOMAIN pc = Calls /\ DOMAIN result = Calls
  BY OnceTypes DEF Once
<1>2. CASE Await(c)
  BY <1>1, <1>2 DEF Await, Go, Moves, Final
<1>3. CASE RpcFails(c) \/ AnswerLost(c)
  BY <1>1, <1>3 DEF RpcFails, AnswerLost, Go, Moves, Final
<1>4. CASE Step(c) /\ ~Await(c)
  <2>1. UNCHANGED <<plan, receipts, result, failures>>
    BY <1>4 DEF Step, Start, ReadAllowance, Preflight, SimulateApprove, SendApprove,
       AwaitApprove, Estimate, Simulate, Send
  <2>2. \E to \in (Labels \ Final) \cup {"failed"} : Go(c, to)
    BY <1>4 DEF Step, Start, ReadAllowance, Preflight, SimulateApprove, SendApprove,
       AwaitApprove, Estimate, Simulate, Send, Labels, Final
  <2>3. pc[c] \notin Final
    BY <1>4 DEF Step, Start, ReadAllowance, Preflight, SimulateApprove, SendApprove,
       AwaitApprove, Estimate, Simulate, Send, Final
  <2>4. QED
    BY <1>1, <2>1, <2>2, <2>3 DEF Go, Moves, Final
<1>5. QED
  BY <1>2, <1>3, <1>4

LEMMA CrateMoves ==
    ASSUME CrateOnce, NEW c \in Calls, CrateStep(c) \/ CrateRpcFails(c) \/ CrateAnswerLost(c)
    PROVE  Moves(c)
<1>1. DOMAIN pc = Calls /\ DOMAIN result = Calls
  BY DEF CrateOnce, Once
<1>2. CASE CrateAwait(c)
  BY <1>1, <1>2 DEF CrateAwait, Go, Moves, Final
<1>3. CASE CrateRpcFails(c) \/ CrateAnswerLost(c)
  BY <1>1, <1>3 DEF CrateRpcFails, CrateAnswerLost, Go, Moves, Final, Filling
<1>4. CASE CrateStep(c) /\ ~CrateAwait(c)
  <2>1. UNCHANGED <<plan, receipts, result, failures>>
    BY <1>4 DEF CrateStep, CrateStart, CrateReadAllowance, CratePreflight, CrateAwaitApprove,
       CrateEstimate, FillNonce, FillGas, Broadcast
  <2>2. UNCHANGED pc \/ \E to \in (AllLabels \ Final) \cup {"failed"} : Go(c, to)
    <3>1. \/ UNCHANGED pc
          \/ \E to \in {"fill", "allowance", "estimate", "preflight", "fillApprove",
                        "awaitApprove", "await", "failed"} : Go(c, to)
      BY <1>4 DEF CrateStep, CrateStart, CrateReadAllowance, CratePreflight,
         CrateAwaitApprove, CrateEstimate, FillNonce, FillGas, Broadcast
    <3>2. QED
      BY <3>1, AllPlaces
  <2>3. pc[c] \notin Final
    BY <1>4 DEF CrateStep, CrateStart, CrateReadAllowance, CratePreflight, CrateAwaitApprove,
       CrateEstimate, FillNonce, FillGas, Broadcast, Final, Filling
  <2>4. QED
    BY <1>1, <2>1, <2>2, <2>3 DEF Go, Moves, Final
<1>5. QED
  BY <1>2, <1>3, <1>4

\* The steps in which no trade has a part.
LEMMA OthersKeepPromise ==
    ASSUME UNCHANGED <<plan, failures>>,
           \A c \in Trades : /\ pc'[c] = pc[c] /\ result'[c] = result[c]
                             /\ receipts'[c].main = receipts[c].main
    PROVE  [Outcomes!Next]_(Outcomes!vars)
<1>1. ASSUME NEW p \in 1 .. MaxCalls
      PROVE  Stages'[p] = Stages[p] /\ Fills'[p] = Fills[p] /\ Tellings'[p] = Tellings[p]
  BY SeenStill
<1>2. QED
  BY <1>1, NothingSeen

LEMMA AgainKeepsPromise ==
    ASSUME OnceInv, NEW c \in Calls, CallAgain(c) PROVE [Outcomes!Next]_(Outcomes!vars)
<1>1. /\ Request(c).kind = "migrate" /\ UNCHANGED <<plan, failures>>
      /\ pc' = [pc EXCEPT ![c] = "simulate"] /\ DOMAIN pc = Calls
      /\ receipts' = [receipts EXCEPT ![c].main = NoReceipt] /\ DOMAIN receipts = Calls
      /\ result' = [result EXCEPT ![c] = NoResult] /\ DOMAIN result = Calls
  BY OnceTypes DEF CallAgain, Go, Once, Filed
<1>2. \A d \in Trades : d \in Calls /\ d # c
  BY <1>1 DEF Trades
<1>3. QED
  BY <1>1, <1>2, OthersKeepPromise

LEMMA NextClients == ClientsInv /\ [ClientsNext]_crateVars => ClientsInv'
<1> SUFFICES ASSUME ClientsInv, [ClientsNext]_crateVars PROVE ClientsInv'
  OBVIOUS
<1>1. plan' = plan
  BY DEF ClientsNext, TsNext, Next, Step, Start, ReadAllowance, Preflight, SimulateApprove,
     SendApprove, AwaitApprove, Estimate, Simulate, Send, Await, RpcFails, AnswerLost,
     CallAgain, Mine, WorldChanges, CrateNext, CrateStep, CrateStart, CrateReadAllowance,
     CratePreflight, CrateAwaitApprove, CrateEstimate, FillNonce, FillGas, Broadcast,
     CrateAwait, CrateRpcFails, CrateAnswerLost, CrateMine, crateVars, vars
<1>2. ASSUME plan.client = "ts" PROVE BooksInv' /\ MigrationInv'
  <2>1. BooksInv /\ MigrationInv /\ [Next]_vars
    BY <1>2 DEF ClientsInv, ClientsNext, TsNext, crateVars
  <2>2. QED
    BY <2>1, NextBooks, NextMigration
<1>3. ASSUME plan.client = "crate" PROVE CrateBooks'
  <2>1. CrateBooks /\ [CrateNext]_crateVars
    BY <1>3 DEF ClientsInv, ClientsNext, TsNext
  <2>2. QED
    BY <2>1, NextCrateBooks
<1>4. Plans' = Plans
  OBVIOUS
<1>5. QED
  BY <1>1, <1>2, <1>3, <1>4 DEF ClientsInv

LEMMA NextKeepsPromise ==
    ClientsInv /\ [ClientsNext]_crateVars => [Outcomes!Next]_(Outcomes!vars)
<1> SUFFICES ASSUME ClientsInv, [ClientsNext]_crateVars PROVE [Outcomes!Next]_(Outcomes!vars)
  OBVIOUS
<1>1. CASE TsNext
  <2>1. OnceInv /\ OnceInv' /\ Next /\ plan \in Plans
    <3>1. OnceInv /\ Next
      BY <1>1 DEF TsNext, ClientsInv, BooksInv
    <3>2. QED
      BY <3>1, NextOnce, OnceTypes
  <2>2. ASSUME NEW c \in Calls, Step(c) \/ RpcFails(c) \/ AnswerLost(c)
        PROVE  [Outcomes!Next]_(Outcomes!vars)
    BY <2>1, <2>2, TsMoves, MovesKeepPromise DEF OnceInv
  <2>3. ASSUME NEW c \in Calls, CallAgain(c) PROVE [Outcomes!Next]_(Outcomes!vars)
    BY <2>1, <2>3, AgainKeepsPromise
  <2>4. ASSUME NEW a \in Accounts, Mine(a) PROVE [Outcomes!Next]_(Outcomes!vars)
    <3>1. PICK tx, ok, e : Answers(tx, ok, e) /\ FirstOf(tx, mempool')
      BY <2>1, <2>4, MineAnswers
    <3>2. UNCHANGED <<plan, pc, result, failures>> /\ Once
      BY <2>1, <2>4 DEF Mine, OnceInv
    <3>3. QED
      BY <3>1, <3>2, AnswerKeepsPromise
  <2>5. CASE WorldChanges
    <3>1. UNCHANGED <<plan, failures, pc, result, receipts>>
      BY <2>5 DEF WorldChanges
    <3>2. QED
      BY <3>1, OthersKeepPromise
  <2>6. QED
    BY <2>1, <2>2, <2>3, <2>4, <2>5 DEF Next
<1>2. CASE plan.client = "crate" /\ CrateNext
  <2>1. CrateOnce /\ CrateOnce' /\ Once /\ Once'
    <3>1. CrateOnce /\ [CrateNext]_crateVars
      BY <1>2 DEF ClientsInv, CrateBooks
    <3>2. CrateOnce'
      BY <3>1, NextCrateOnce
    <3>3. QED
      BY <3>1, <3>2 DEF CrateOnce
  <2>2. ASSUME NEW c \in Calls, CrateStep(c) \/ CrateRpcFails(c) \/ CrateAnswerLost(c)
        PROVE  [Outcomes!Next]_(Outcomes!vars)
    BY <2>1, <2>2, CrateMoves, MovesKeepPromise
  <2>3. ASSUME NEW a \in Accounts, CrateMine(a) PROVE [Outcomes!Next]_(Outcomes!vars)
    <3>1. PICK tx, ok, e : Answers(tx, ok, e) /\ FirstOf(tx, mempool')
      BY <2>1, <2>3, CrateMineAnswers
    <3>2. UNCHANGED <<plan, pc, result, failures>>
      BY <2>3 DEF CrateMine
    <3>3. QED
      BY <2>1, <3>1, <3>2, AnswerKeepsPromise
  <2>4. CASE WorldChanges
    <3>1. UNCHANGED <<plan, failures, pc, result, receipts>>
      BY <2>4 DEF WorldChanges
    <3>2. QED
      BY <3>1, OthersKeepPromise
  <2>5. QED
    BY <1>2, <2>2, <2>3, <2>4 DEF CrateNext
<1>3. CASE UNCHANGED crateVars
  <2>1. UNCHANGED <<plan, failures, pc, result, receipts>>
    BY <1>3 DEF crateVars, vars
  <2>2. QED
    BY <2>1, OthersKeepPromise
<1>4. QED
  BY <1>1, <1>2, <1>3 DEF ClientsNext

LEMMA InitKeepsPromise == CrateInit => ClientsInv /\ Outcomes!Init
<1> SUFFICES ASSUME CrateInit PROVE ClientsInv /\ Outcomes!Init
  OBVIOUS
<1>1. ClientsInv
  BY InitBooksInv, InitMigration, InitCrateBooks DEF CrateInit, Init, ClientsInv
<1>2. /\ pc = [c \in Calls |-> "idle"] /\ failures = 0
      /\ receipts = [c \in Calls |-> [approve |-> NoReceipt, main |-> NoReceipt]]
  BY DEF CrateInit, Init
<1>3. \A c \in Trades : /\ c \in Calls /\ pc[c] = "idle" /\ pc[c] \notin Final
                        /\ FilledOnChain(c) = {} /\ FilledAsTold(c) = {}
  BY <1>2 DEF Trades, Final, FilledOnChain, FilledAsTold, NoReceipt
<1>4. /\ Stages = [p \in 1 .. MaxCalls |-> "open"]
      /\ Fills = [p \in 1 .. MaxCalls |-> {}]
      /\ Tellings = [p \in 1 .. MaxCalls |-> {}]
  BY <1>3 DEF Stages, Fills, Tellings
<1>5. QED
  BY <1>1, <1>2, <1>4 DEF Outcomes!Init

\* For any calls of either client, at every interleaving, whichever RPCs fail and
\* whichever nonces collide: a trade happens once at most; a call that returns tells
\* what its trade did; one that throws has traded nothing and never will; and only a
\* failed RPC leaves a call that can tell neither.
THEOREM PromiseKept == ClientsSpec => KeepsPromise
BY InitKeepsPromise, NextClients, NextKeepsPromise, PTL
   DEF ClientsSpec, KeepsPromise, Outcomes!Spec

LEMMA ClientsAlways == ClientsSpec => []ClientsInv
BY InitKeepsPromise, NextClients, PTL DEF ClientsSpec

\* A buy or a sell of either client that throws has traded nothing and will not: what
\* a call is after is sent at most once, and a call whose transaction is on its way
\* does not throw as one that failed.  Of a call that was sending, or waiting for its
\* receipt, when that RPC failed, this says nothing: it is lost, and its trade may
\* yet happen.
THEOREM FailedTradesNothing == ClientsSpec => []ThrowsMeanNoTrade
<1>1. ClientsInv => ThrowsMeanNoTrade
  BY ClientsOnce, OnceThrows
<1>2. QED
  BY <1>1, ClientsAlways, PTL

\* What the calls of an account were told adds up to what the account holds, as soon
\* as nothing of it is on its way: no trade is told twice, untold, or told as another.
THEOREM ReportsAddUp == ClientsSpec => []ReportsTrue
<1>1. ClientsInv => ReportsTrue
  BY ClientsOnce, BooksTell
<1>2. QED
  BY <1>1, ClientsAlways, PTL

\* Exact, never unlimited: what the curve has pulled from an account and what it
\* still may pull are together no more than the buys that account approved, because
\* an approve replaces an allowance and a buy that pulls lowers it.
THEOREM ExposureStaysBounded == ClientsSpec => []ExposureBounded
<1>1. ClientsInv => ExposureBounded
  BY ClientsOnce, BooksBound
<1>2. QED
  BY <1>1, ClientsAlways, PTL

\* Whoever migrates the curve, its graduating buy or one of those who call migrate(),
\* side by side and again and again, is the one call that tells of the migration, with
\* what it forwarded, unless its answer is lost; a migrate() that came too late tells
\* of nothing, although it was simulated as if it came first.
THEOREM MigrationsAreTold == ClientsSpec => []MigrationsTold
<1>1. ClientsInv => MigrationsTold
  BY MigrationTells DEF ClientsInv, MigrationsTold
<1>2. QED
  BY <1>1, ClientsAlways, PTL

\* Whichever RPCs fail, a call of the crate that returns or throws returns if and only
\* if its own transaction succeeded, although nothing is simulated first and two calls
\* of one account may be handed one nonce; and what the calls of an account returned
\* adds up to what was traded.  A call that was broadcasting, or waiting for its
\* receipt, when that RPC failed is lost, and of it this says nothing.
THEOREM CrateCallsTold == ClientsSpec => []CallsTold
<1>1. ClientsInv => CallsTold
  BY CrateTold DEF ClientsInv, CallsTold
<1>2. QED
  BY <1>1, ClientsAlways, PTL
=============================================================================
