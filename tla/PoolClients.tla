---------------------------- MODULE PoolClients ----------------------------
(***************************************************************************)
(* Both clients at work: calls of the TypeScript client (PoolTrades) and   *)
(* of the Rust crate (CratePool) side by side, each account with a handle  *)
(* of its own, on one chain; and what either may be relied on for.         *)
(***************************************************************************)
EXTENDS CratePool

Of(client) == {c \in Calls : Request(c).client = client}

Next ==
    \/ \E c \in Of("ts") : Step(c)
    \/ \E c \in Of("crate") : CrateStep(c)
    \/ \E c \in Calls : RpcFails(c) \/ CallAgain(c)
    \/ \E a \in Accounts : Mine(a)
    \/ Graduate
    \/ Migrate
    \/ Dust
    \/ WorldChanges

Spec == Init /\ [][Next]_vars

\* A call whose next step is an RPC that answers, with or against it: that step is
\* possible whatever the market is like, and takes the call to another place.
Answered(c) ==
    /\ c \in Calls
    /\ pc[c] \in Answerable
    /\ \E to \in Answerable \cup Final \cup {"awaitApprove", "await"} : to # pc[c] /\ Go(c, to)

Proceeds(c) ==
    \/ c \in Calls /\ (AwaitApprove(c) \/ CallAgain(c))
    \/ c \in Of("ts") /\ (Start(c) \/ Await(c))
    \/ c \in Of("crate") /\ (CrateStart(c) \/ CrateAwait(c))

NextMined(a) == mempool[a] # <<>> /\ mempool' = [mempool EXCEPT ![a] = Tail(@)]

\* A call's RPCs answer, a caller who tries again does not give up, transactions
\* are mined, and a graduated curve is migrated in the end (CurveCalls.NeverStranded).
Fairness ==
    /\ \A c \in 1 .. MaxCalls : WF_pc(Answered(c)) /\ WF_vars(Proceeds(c))
    /\ \A a \in Accounts : WF_mempool(NextMined(a))
    /\ WF_vars(Migrate)

FairSpec == Spec /\ Fairness

-----------------------------------------------------------------------------
(* Properties.                                                             *)

\* What a trade reports is what its own transaction moved: the trader's leg without
\* the earlier fees paid out in it and without other pools' swaps (pool.ts
\* quoteFillFromLogs, sumTransfers); and so does a distribution that went by the
\* pool's id (feesDistributedIn).  What one tells that read the id before there was
\* a pool is DistributionsTold's question.
FillsTold ==
    \A c \in Calls :
        pc[c] = "done" =>
            /\ Request(c).kind \in Swaps => result[c] = receipts[c].main.did
            /\ Request(c).kind = "distribute" /\ poolOf[c] = ThisPool =>
                   result[c] = receipts[c].main.did

\* Every distribution reports what it paid out: "the amount is read from the
\* `FeesDistributed` log in this transaction's receipt" (pool.ts:1493-1494).  The
\* log is looked for under the pool's id, which distributeHookFees reads beside the
\* key before it simulates (pool.ts:1503), and which is zero until migration.
DistributionsTold ==
    \A c \in Calls :
        pc[c] = "done" /\ Request(c).kind = "distribute" =>
            result[c] = receipts[c].main.did

\* A quote of the pool tells both legs as the swap would have moved them then, and
\* the fee to a raw unit when it fills in full; and it answers whenever the swap
\* would have moved anything (pool.ts quoteBuy, quoteSell, unpackBalanceDelta).
QuotesTold ==
    \A c \in Calls :
        LET did == priced[c].did IN
        Request(c).kind \in Quotes /\ venueOf[c] = "pool" =>
            /\ pc[c] = "done" =>
                   /\ result[c].quote = did.quote
                   /\ result[c].tokens = did.tokens
                   /\ priced[c].full => result[c].fee - did.fee \in 0 .. 1
            /\ pc[c] = "failed" =>
                   ~priced[c].ok \/ did.quote = 0 \/ did.tokens = 0

\* A trade that throws by itself has not happened: whoever tries again does not
\* trade twice (pool.ts buy, sell: the fill is looked for in the receipt under an
\* id that the handle may have read before there was a pool).
ThrowsMeanNoTrade ==
    \A c \in Calls :
        pc[c] = "failed" /\ Request(c).kind \in Swaps => ~receipts[c].main.ok

\* A swap of an ERC-20-quoted pool that is on its way carries the gas to pay out a
\* fee that had not accrued when it was estimated (quote-token.ts:97-110).
PoolPushesHaveGas ==
    ~Native =>
        \A a \in Accounts : \A i \in DOMAIN mempool[a] :
            mempool[a][i].kind \in Swaps => mempool[a][i].gas >= SwapGas + PushGas

\* What only one venue can do is done or refused, whatever venue the token has moved
\* to since: proceeds go to the recipient the caller named, and a trade with a
\* referrer or a gas limit is the curve's (trade.ts refuseCurveOnly, refusePoolOnly).
OptionsHonoured ==
    \A a \in Accounts : \A i \in DOMAIN mempool[a] :
        LET tx == mempool[a][i]
            request == Request(tx.call)
        IN  request.kind \in Swaps /\ request.via = "trade" =>
                /\ request.curveOnly => tx.kind \in {"curveBuy", "curveSell"}
                /\ tx.kind \in {"curveBuy", "curveSell"} => request.to = request.from

\* Whoever tries again gets to trade, on the curve or on the pool: no handle keeps
\* sending trades to a curve that has stopped trading (trade.ts venue).
RetriesTrade ==
    \A c \in 1 .. MaxCalls :
        (c \in Calls /\ Request(c).retry) ~> (c \in Calls /\ pc[c] \in {"done", "lost"})
=============================================================================
