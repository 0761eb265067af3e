----------------------------- MODULE PoolTrades -----------------------------
(***************************************************************************)
(* Calls of Trade (trade.ts) and Pool (pool.ts): buys, sells and their     *)
(* quotes wherever the token trades, approveRouter, accruedHookFee and     *)
(* distributeHookFees, side by side while the token moves from its curve   *)
(* to its pool.  Each account has one handle, whose caches its calls       *)
(* share.  Every await of a call is a place where the others can move.     *)
(***************************************************************************)
EXTENDS PoolChain, GasHeadroom, Sequences

CONSTANTS
    Plans,          \* the sets of calls that may be made
    MaxCalls,       \* the most calls a plan has
    MaxFailures,    \* how many times an RPC may fail
    Unknown         \* a pool id a handle has not cached

Swaps == {"buy", "sell"}
Quotes == {"quoteBuy", "quoteSell"}
Kinds == Swaps \cup Quotes \cup {"approveTokens", "distribute", "accrued"}

\* What a caller asks for: through Trade or of the Pool itself, with the options
\* that only one venue has, once another call has ended, again if it fails, of the
\* TypeScript client or of the Rust crate (CratePool), which takes a gas limit too.
Requests ==
    [ kind : Kinds, via : {"trade", "pool"}, from : Accounts, to : Accounts, amount : Nat,
      min : Nat, deadline : 0 .. 1, curveOnly : BOOLEAN, ofQuote : BOOLEAN,
      after : Nat, retry : BOOLEAN, client : {"ts", "crate"}, gas_limit : Nat ]

ASSUME PlansAssumption ==
    /\ Plans \subseteq [ native : BOOLEAN, quoteIs0 : BOOLEAN, slotKnown : BOOLEAN,
                         reachable : BOOLEAN, phase : {"trading", "migrated"},
                         depth : Nat, moving : SUBSET {"phase", "rate", "time", "dust", "recipient"},
                         calls : Seq(Requests) ]
    /\ \A p \in Plans :
           /\ Len(p.calls) <= MaxCalls
           /\ \A i, j \in DOMAIN p.calls :
                  p.calls[i].from = p.calls[j].from => p.calls[i].client = p.calls[j].client
           /\ \A i \in DOMAIN p.calls :
                  p.calls[i].client = "crate" /\ p.calls[i].amount = 0 /\ p.calls[i].via = "trade"
                  => p.phase = "migrated"
    /\ {MaxCalls, MaxFailures} \subseteq Nat

\* A trade request of the crate is for the curve or for the pool (pool.rs
\* TradeBuyRequest, TradeSellRequest): it has the options of one of them.
ASSUME OneVenueAssumption ==
    \A p \in Plans : \A c \in DOMAIN p.calls :
        p.calls[c].client = "crate" => ~p.calls[c].curveOnly \/ p.calls[c].to = p.calls[c].from

\* Trade trades and quotes, and has nothing else of the pool (trade.ts).
ASSUME TradeAssumption ==
    \A p \in Plans : \A c \in DOMAIN p.calls :
        p.calls[c].via = "trade" => p.calls[c].kind \in Swaps \cup Quotes

\* What paying out the accrued fee may add is within the headroom (quote-token.ts:102-106).
ASSUME PushAssumption == PushGas <= PoolQuoteTransferGasHeadroomMin

\* Halves of HalfBits make a word, and hold both legs of what is quoted, at either rate
\* (an int128 holds what a token's supply and a quote's can come to).
ASSUME HalvesAssumption ==
    /\ 2^(HalfBits - 1) \in Nat \ {0}
    /\ 2^HalfBits = 2 * 2^(HalfBits - 1)
    /\ 2^(2 * HalfBits) = 2^HalfBits * 2^HalfBits
    /\ 2^(2 * HalfBits - 1) = 2^(HalfBits - 1) * 2^HalfBits
    /\ \A p \in Plans : \A c \in DOMAIN p.calls :
           p.calls[c].kind \in Quotes => 2 * p.calls[c].amount < 2^(HalfBits - 1)

VARIABLES
    plan,
    market,
    world,      \* the surroundings of the pool
    handle,     \* for each account, what its handle has cached
    mempool,    \* for each account, its transactions sent and not yet mined
    receipts,   \* for each call, the receipts of its approve and its transaction
    pc,         \* where each call is
    gas,        \* the gas limit each call has settled on
    poolOf,     \* the pool id each call has read
    venueOf,    \* the venue each call is on
    result,     \* what each call that returned reported
    priced,     \* what a quote's simulation would have done
    failures

vars == <<plan, market, world, handle, mempool, receipts, pc, gas, poolOf, venueOf,
          result, priced, failures>>

Calls == DOMAIN plan.calls
Request(c) == plan.calls[c]
Native == plan.native

Unlimited == 100000000      \* maxUint256, and the gas of an unbounded call
NoReceipt == [mined |-> FALSE, ok |-> FALSE, logs |-> {}, did |-> Nothing]

Final == {"done", "failed", "lost"}
Answerable == {"choose", "venue", "reach", "curveQuote", "quote", "allowance", "tokenAllowance",
               "preflight", "simulateApprove", "estimate", "simulate", "send", "poolId", "accrued"}

\* The transaction a call is after: a swap, the curve's trade, or its own kind.
Transaction(c, limit) ==
    [ kind |-> CASE venueOf[c] = "curve" /\ Request(c).kind = "buy"  -> "curveBuy"
                 [] venueOf[c] = "curve" /\ Request(c).kind = "sell" -> "curveSell"
                 [] Request(c).kind = "quoteBuy"  -> "buy"
                 [] Request(c).kind = "quoteSell" -> "sell"
                 [] OTHER -> Request(c).kind,
      from |-> Request(c).from, to |-> Request(c).to, amount |-> Request(c).amount,
      min |-> Request(c).min, deadline |-> Request(c).deadline, gas |-> limit, call |-> c ]

Approval(c) == [Transaction(c, Unlimited) EXCEPT !.kind = "approveQuote"]

At(m, tx) == Outcome(m, world, Native, plan.quoteIs0, tx)
Succeeds(m, tx) == At(m, tx).ok
Estimated == GasNeeded(Native, market)

WithQuoteAllowance(m, a) == [m EXCEPT !.quoteAllowance[a] = Unlimited]
WithTokenAllowance(m, a) == [m EXCEPT !.tokenAllowance[a] = Unlimited]
WithQuote(m, a) == [m EXCEPT !.quote[a] = Unlimited]

-----------------------------------------------------------------------------
(* What a receipt and a delta are read as.                                 *)

\* A mistake to check against: whatever the receipt holds.
LogsOfAnyPool(logs, kind, pool) == {l \in logs : l.kind = kind}
LogsFor(logs, kind, pool) == {l \in logs : l.kind = kind /\ l.pool = pool}

QuoteLeg(amounts) == IF plan.quoteIs0 THEN amounts.amount0 ELSE amounts.amount1
TokenLegOf(amounts) == IF plan.quoteIs0 THEN amounts.amount1 ELSE amounts.amount0

Amount(log) == log.amount
SwapQuote(log) == QuoteLeg(log.amounts)
AmountsIn(logs) == MapThenSumSet(Amount, logs)

FeesDistributedIn(logs, pool) == AmountsIn(LogsFor(logs, "FeesDistributed", pool))

\* The trader's leg: the pool's own, less what the hook took on top of it.
TraderIn(logs, pool) ==
    MapThenSumSet(SwapQuote, LogsFor(logs, "Swap", pool))
    - AmountsIn(LogsFor(logs, "HookFeeTaken", pool))

\* A receipt without a swap of this pool, or one that went the other way, is no fill.
FillRefused(c, logs, pool) ==
    \/ LogsFor(logs, "Swap", pool) = {}
    \/ Request(c).kind = "buy" /\ TraderIn(logs, pool) > 0
    \/ Request(c).kind = "sell" /\ TraderIn(logs, pool) < 0

TokensMoved(c, logs) ==
    AmountsIn({l \in logs : /\ l.kind = "Transfer"
                            /\ IF Request(c).kind = "buy" THEN l.to = Request(c).to
                               ELSE l.from = Request(c).from})

QuoteFillFromLogs(c, logs, pool) ==
    [ quote |-> Moved(TraderIn(logs, pool)), tokens |-> TokensMoved(c, logs),
      fee |-> AmountsIn(LogsFor(logs, "HookFeeTaken", pool)),
      distributed |-> FeesDistributedIn(logs, pool) ]

\* A mistake to check against: the low half left without its sign.
UnpackedUnsigned(packed) ==
    LET raw == AsUint(2 * HalfBits, packed)
    IN  [amount0 |-> AsInt(HalfBits, raw \div 2^HalfBits), amount1 |-> AsUint(HalfBits, raw)]

\* unpackBalanceDelta: the high half and the low half, each with its own sign.
Unpacked(packed) ==
    LET raw == AsUint(2 * HalfBits, packed)
    IN  [amount0 |-> AsInt(HalfBits, raw \div 2^HalfBits), amount1 |-> AsInt(HalfBits, raw)]

DeltaRefused(c, legs) ==
    IF Request(c).kind = "quoteBuy"
    THEN QuoteLeg(legs) >= 0 \/ TokenLegOf(legs) <= 0
    ELSE QuoteLeg(legs) <= 0 \/ TokenLegOf(legs) >= 0

Priced(c, legs) ==
    [ quote |-> Moved(QuoteLeg(legs)), tokens |-> Moved(TokenLegOf(legs)), distributed |-> 0,
      fee |-> IF Request(c).kind = "quoteBuy" THEN BuyFeeRaw(Moved(QuoteLeg(legs)))
              ELSE SellFeeRaw(Moved(QuoteLeg(legs))) ]

-----------------------------------------------------------------------------
(* The handle's caches.                                                    *)

\* Zero is what there is before migration, and is not kept.
KeptAnyway(id) == id
Kept(id) == IF id = ZeroPool THEN Unknown ELSE id

PoolIdOf(a) ==
    CASE handle[a].poolId # Unknown -> handle[a].poolId
      [] handle[a].poolId = Unknown /\ market.phase = "migrated" -> ThisPool
      [] OTHER -> ZeroPool

VenueNow(a) ==
    CASE handle[a].settled # "none" -> handle[a].settled
      [] handle[a].settled = "none" /\ market.phase = "migrated" -> "pool"
      [] OTHER -> "curve"

\* Only the pool settles it: a token on its curve may graduate in the next block.
SettledEither(venue) == venue
Settled(venue) == IF venue = "pool" THEN "pool" ELSE "none"

-----------------------------------------------------------------------------
(* The steps of a call.                                                    *)

Go(c, to) == pc' = [pc EXCEPT ![c] = to]
Tell(c, told) == result' = [result EXCEPT ![c] = told] /\ Go(c, "done")

Due(c) == Request(c).after = 0 \/ (Request(c).after # 0 /\ pc[Request(c).after] \in Final)

\* A call through Trade asks for the venue first; one of the Pool is on the pool.
Start(c) ==
    /\ pc[c] = "idle"
    /\ Due(c)
    /\ CASE Request(c).via = "trade" -> Go(c, "venue")
         [] Request(c).via = "pool" /\ Request(c).kind \in Swaps \cup Quotes ->
                Go(c, IF Request(c).amount = 0 THEN "failed" ELSE "reach")
         [] Request(c).kind = "approveTokens" -> Go(c, "simulate")
         [] Request(c).kind \in {"distribute", "accrued"} -> Go(c, "poolId")
    /\ UNCHANGED <<plan, market, world, handle, mempool, receipts, gas, poolOf, venueOf,
                   result, priced, failures>>

\* Options that the venue does not have are refused, not dropped.
OptionsRefused(c, venue) ==
    /\ Request(c).kind \in Swaps
    /\ IF venue = "pool" THEN Request(c).curveOnly ELSE Request(c).to # Request(c).from

Venue(c) ==
    LET a == Request(c).from
        venue == VenueNow(a)
        refused == OptionsRefused(c, venue) \/ Request(c).amount = 0
    IN  /\ pc[c] = "venue"
        /\ handle' = [handle EXCEPT ![a].settled = Settled(venue)]
        /\ venueOf' = [venueOf EXCEPT ![c] = venue]
        /\ Go(c, CASE refused -> "failed"
                   [] ~refused /\ venue = "pool" -> "reach"
                   [] ~refused /\ venue = "curve" /\ Request(c).kind \in Swaps -> "simulate"
                   [] OTHER -> "curveQuote")
        /\ UNCHANGED <<plan, market, world, mempool, receipts, gas, poolOf, result, priced,
                       failures>>

\* A quote of the curve, which answers while it trades.
CurveQuote(c) ==
    /\ pc[c] = "curveQuote"
    /\ Go(c, IF market.phase = "trading" THEN "done" ELSE "failed")
    /\ UNCHANGED <<plan, market, world, handle, mempool, receipts, gas, poolOf, venueOf,
                   result, priced, failures>>

\* tradableKey and the pool's orientation: migrated, in a manager that the router
\* serves, and priced in the quote the request names, which a sell's quote does not.
Untradable(c) ==
    \/ market.phase # "migrated"
    \/ ~plan.reachable
    \/ Request(c).kind # "quoteSell" /\ ~Request(c).ofQuote

Reach(c) ==
    /\ pc[c] = "reach"
    /\ venueOf' = [venueOf EXCEPT ![c] = "pool"]
    /\ Go(c, CASE Untradable(c) -> "failed"
               [] ~Untradable(c) /\ Request(c).kind \in Quotes -> "quote"
               [] ~Untradable(c) /\ Request(c).kind = "sell" -> "tokenAllowance"
               [] OTHER -> IF Native THEN "simulate" ELSE "allowance")
    /\ UNCHANGED <<plan, market, world, handle, mempool, receipts, gas, poolOf, result, priced,
                   failures>>

\* A quote simulates the swap at any price and any time, with a buyer's money or
\* allowance and a seller's allowance overridden, never what the seller holds.
QuoteState(c) ==
    CASE Request(c).kind = "quoteSell" -> WithTokenAllowance(market, Request(c).from)
      [] Request(c).kind = "quoteBuy" /\ Native -> WithQuote(market, Request(c).from)
      [] Request(c).kind = "quoteBuy" /\ ~Native /\ plan.slotKnown ->
             WithQuoteAllowance(market, Request(c).from)
      [] OTHER -> market

Quote(c) ==
    LET tx == [Transaction(c, Unlimited) EXCEPT !.min = 0, !.deadline = 1]
        outcome == At(QuoteState(c), tx)
        legs == Unpacked(RouterDelta(plan.quoteIs0, tx, Fill(world, tx)))
    IN  /\ pc[c] = "quote"
        /\ priced' = [priced EXCEPT ![c] = [ok |-> outcome.ok, full |-> world.depth >= tx.amount,
                                            did |-> outcome.did]]
        /\ IF outcome.ok /\ ~DeltaRefused(c, legs)
           THEN Tell(c, Priced(c, legs))
           ELSE Go(c, "failed") /\ UNCHANGED result
        /\ UNCHANGED <<plan, market, world, handle, mempool, receipts, gas, poolOf, venueOf,
                       failures>>

ReadAllowance(c) ==
    /\ pc[c] = "allowance"
    /\ Go(c, CASE market.quoteAllowance[Request(c).from] >= Request(c).amount -> "estimate"
               [] plan.slotKnown -> "preflight"
               [] OTHER -> "simulateApprove")
    /\ UNCHANGED <<plan, market, world, handle, mempool, receipts, gas, poolOf, venueOf,
                   result, priced, failures>>

\* A sell sends no approve of its own.
ReadTokenAllowance(c) ==
    /\ pc[c] = "tokenAllowance"
    /\ Go(c, CASE market.tokenAllowance[Request(c).from] < Request(c).amount -> "failed"
               [] Native -> "simulate"
               [] OTHER -> "estimate")
    /\ UNCHANGED <<plan, market, world, handle, mempool, receipts, gas, poolOf, venueOf,
                   result, priced, failures>>

Preflight(c) ==
    /\ pc[c] = "preflight"
    /\ Go(c, IF Succeeds(WithQuoteAllowance(market, Request(c).from), Transaction(c, Unlimited))
             THEN "simulateApprove" ELSE "failed")
    /\ UNCHANGED <<plan, market, world, handle, mempool, receipts, gas, poolOf, venueOf,
                   result, priced, failures>>

SendApprove(c) ==
    /\ pc[c] = "simulateApprove"
    /\ mempool' = [mempool EXCEPT ![Request(c).from] = Append(@, Approval(c))]
    /\ Go(c, "awaitApprove")
    /\ UNCHANGED <<plan, market, world, handle, receipts, gas, poolOf, venueOf, result, priced,
                   failures>>

AwaitApprove(c) ==
    /\ pc[c] = "awaitApprove"
    /\ receipts[c].approve.mined
    /\ Go(c, IF receipts[c].approve.ok THEN "estimate" ELSE "failed")
    /\ UNCHANGED <<plan, market, world, handle, mempool, receipts, gas, poolOf, venueOf,
                   result, priced, failures>>

Estimate(c) ==
    /\ pc[c] = "estimate"
    /\ IF Succeeds(market, Transaction(c, Unlimited))
       THEN /\ gas' = [gas EXCEPT ![c] = WithPoolQuoteTransferHeadroom(Estimated)]
            /\ Go(c, "simulate")
       ELSE Go(c, "failed") /\ UNCHANGED gas
    /\ UNCHANGED <<plan, market, world, handle, mempool, receipts, poolOf, venueOf, result,
                   priced, failures>>

SimulationGas(c) == IF gas[c] # 0 THEN gas[c] ELSE Unlimited

Simulate(c) ==
    /\ pc[c] = "simulate"
    /\ Go(c, IF Succeeds(market, Transaction(c, SimulationGas(c))) THEN "send" ELSE "failed")
    /\ UNCHANGED <<plan, market, world, handle, mempool, receipts, gas, poolOf, venueOf,
                   result, priced, failures>>

\* A native swap is sent at the node's bare estimate, for which it must succeed
\* once more.
Send(c) ==
    LET limit == CASE gas[c] # 0 -> gas[c]
                   [] gas[c] = 0 /\ Request(c).kind \in Swaps -> Estimated
                   [] OTHER -> Unlimited
    IN  /\ pc[c] = "send"
        /\ IF gas[c] = 0 => Succeeds(market, Transaction(c, Unlimited))
           THEN /\ mempool' = [mempool EXCEPT ![Request(c).from] =
                                   Append(@, Transaction(c, limit))]
                /\ Go(c, "await")
           ELSE Go(c, "failed") /\ UNCHANGED mempool
        /\ UNCHANGED <<plan, market, world, handle, receipts, gas, poolOf, venueOf, result,
                       priced, failures>>

\* A curve trade is reported from its event; an approve and a distribution end
\* when mined, whatever came of them; a swap goes on to read the pool's id.
Await(c) ==
    LET main == receipts[c].main
    IN  /\ pc[c] = "await"
        /\ main.mined
        /\ CASE venueOf[c] = "curve" /\ main.ok ->
                   Tell(c, [Nothing EXCEPT !.quote = Request(c).amount,
                                           !.tokens = Request(c).amount])
             [] venueOf[c] = "curve" /\ ~main.ok -> Go(c, "failed") /\ UNCHANGED result
             [] venueOf[c] = "pool" -> Go(c, "poolId") /\ UNCHANGED result
             [] OTHER -> Tell(c, [Nothing EXCEPT !.distributed =
                                      FeesDistributedIn(main.logs, poolOf[c])])
        /\ UNCHANGED <<plan, market, world, handle, mempool, receipts, gas, poolOf, venueOf,
                       priced, failures>>

\* poolId, and with it the fill of a swap that has been mined.
PoolId(c) ==
    LET a == Request(c).from
        id == PoolIdOf(a)
        logs == receipts[c].main.logs
    IN  /\ pc[c] = "poolId"
        /\ handle' = [handle EXCEPT ![a].poolId = Kept(id)]
        /\ poolOf' = [poolOf EXCEPT ![c] = id]
        /\ CASE Request(c).kind = "distribute" -> Go(c, "simulate") /\ UNCHANGED result
             [] Request(c).kind = "accrued" -> Go(c, "accrued") /\ UNCHANGED result
             [] OTHER -> IF FillRefused(c, logs, id)
                         THEN Go(c, "failed") /\ UNCHANGED result
                         ELSE Tell(c, QuoteFillFromLogs(c, logs, id))
        /\ UNCHANGED <<plan, market, world, mempool, receipts, gas, venueOf, priced, failures>>

\* accruedHookFee, of the pool id it has read.
Accrued(c) ==
    /\ pc[c] = "accrued"
    /\ Tell(c, [Nothing EXCEPT !.fee = IF poolOf[c] = ThisPool THEN market.accrued ELSE 0])
    /\ priced' = [priced EXCEPT ![c].did.fee = market.accrued]
    /\ UNCHANGED <<plan, market, world, handle, mempool, receipts, gas, poolOf, venueOf, failures>>

\* Any RPC of a call may fail, the wait for a receipt included.
RpcFails(c) ==
    /\ pc[c] \notin Final
    /\ Due(c)
    /\ failures < MaxFailures
    /\ failures' = failures + 1
    /\ Go(c, "lost")
    /\ UNCHANGED <<plan, market, world, handle, mempool, receipts, gas, poolOf, venueOf,
                   result, priced>>

\* A caller whose trade threw, and who finds that it did not happen, tries again.
CallAgain(c) ==
    /\ Request(c).retry
    /\ pc[c] = "failed"
    /\ ~receipts[c].main.ok
    /\ Go(c, "idle")
    /\ gas' = [gas EXCEPT ![c] = 0]
    /\ venueOf' = [venueOf EXCEPT ![c] = "none"]
    /\ receipts' = [receipts EXCEPT ![c] = [approve |-> NoReceipt, main |-> NoReceipt]]
    /\ UNCHANGED <<plan, market, world, handle, mempool, poolOf, result, priced, failures>>

-----------------------------------------------------------------------------
(* The chain and the world.                                                *)

Mine(a) ==
    /\ mempool[a] # <<>>
    /\ LET tx == Head(mempool[a])
           outcome == At(market, tx)
           receipt == [mined |-> TRUE, ok |-> outcome.ok, logs |-> outcome.logs,
                       did |-> outcome.did]
       IN  /\ market' = outcome.market
           /\ receipts' = IF tx.kind = "approveQuote"
                          THEN [receipts EXCEPT ![tx.call].approve = receipt]
                          ELSE [receipts EXCEPT ![tx.call].main = receipt]
    /\ mempool' = [mempool EXCEPT ![a] = Tail(@)]
    /\ UNCHANGED <<plan, world, handle, pc, gas, poolOf, venueOf, result, priced, failures>>

\* Other people's buys graduate the curve; anyone migrates it after that.
Graduate ==
    /\ "phase" \in plan.moving
    /\ market.phase = "trading"
    /\ market' = [market EXCEPT !.phase = "graduated"]
    /\ UNCHANGED <<plan, world, handle, mempool, receipts, pc, gas, poolOf, venueOf, result,
                   priced, failures>>

Migrate ==
    /\ market.phase = "graduated"
    /\ market' = [market EXCEPT !.phase = "migrated"]
    /\ UNCHANGED <<plan, world, handle, mempool, receipts, pc, gas, poolOf, venueOf, result,
                   priced, failures>>

\* A stranger's dust swap pays out what has accrued, and leaves a fee or none.
Dust ==
    /\ "dust" \in plan.moving
    /\ market.phase = "migrated"
    /\ \E fee \in {0, 1} : market' = [market EXCEPT !.accrued = fee]
    /\ UNCHANGED <<plan, world, handle, mempool, receipts, pc, gas, poolOf, venueOf, result,
                   priced, failures>>

WorldChanges ==
    /\ \/ "rate" \in plan.moving /\ world' = [world EXCEPT !.rate = 3 - @]
       \/ "time" \in plan.moving /\ world' = [world EXCEPT !.time = 1]
       \/ "recipient" \in plan.moving /\ world' = [world EXCEPT !.recipientTrades = ~@]
    /\ UNCHANGED <<plan, market, handle, mempool, receipts, pc, gas, poolOf, venueOf, result,
                   priced, failures>>

Init ==
    /\ plan \in Plans
    /\ market = [ phase |-> plan.phase, accrued |-> 0,
                  quote |-> [a \in Accounts |-> Funds], tokens |-> [a \in Accounts |-> Funds],
                  quoteAllowance |-> [a \in Accounts |-> 0],
                  tokenAllowance |-> [a \in Accounts |-> 0] ]
    /\ world = [rate |-> 1, depth |-> plan.depth, time |-> 0, recipientTrades |-> FALSE]
    /\ handle = [a \in Accounts |-> [settled |-> "none", poolId |-> Unknown]]
    /\ mempool = [a \in Accounts |-> <<>>]
    /\ receipts = [c \in Calls |-> [approve |-> NoReceipt, main |-> NoReceipt]]
    /\ pc = [c \in Calls |-> "idle"]
    /\ gas = [c \in Calls |-> 0]
    /\ poolOf = [c \in Calls |-> Unknown]
    /\ venueOf = [c \in Calls |-> "none"]
    /\ result = [c \in Calls |-> Nothing]
    /\ priced = [c \in Calls |-> [ok |-> FALSE, full |-> FALSE, did |-> Nothing]]
    /\ failures = 0

Step(c) ==
    \/ Start(c) \/ Venue(c) \/ CurveQuote(c) \/ Reach(c) \/ Quote(c)
    \/ ReadAllowance(c) \/ ReadTokenAllowance(c) \/ Preflight(c)
    \/ SendApprove(c) \/ AwaitApprove(c)
    \/ Estimate(c) \/ Simulate(c) \/ Send(c) \/ Await(c)
    \/ PoolId(c) \/ Accrued(c)
=============================================================================
