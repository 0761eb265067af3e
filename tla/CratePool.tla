----------------------------- MODULE CratePool -----------------------------
(***************************************************************************)
(* The steps of a call of Trade and Pool of the Rust crate (pool.rs), on   *)
(* the state of PoolTrades.  They differ from the TypeScript client's: the *)
(* caller settles on a venue and builds its request for it, the venue is   *)
(* read afresh for every trade and a request for the other one is refused, *)
(* nothing is simulated before it is sent, and the receipt is looked at.   *)
(* The nonces a client is handed are in CrateCalls.                        *)
(***************************************************************************)
EXTENDS PoolTrades, CrateGas

Err == [err |-> TRUE]

unpack_balance_delta(delta) ==
    LET bytes == AsUint(2 * HalfBits, delta)
    IN  [high |-> AsInt(HalfBits, bytes \div 2^HalfBits), low |-> AsInt(HalfBits, bytes)]

quote_and_token_legs(delta) ==
    LET halves == unpack_balance_delta(delta)
    IN  IF plan.quoteIs0 THEN [quote |-> halves.high, token |-> halves.low]
        ELSE [quote |-> halves.low, token |-> halves.high]

\* A leg the trader pays is negative, one it receives is positive.
leg_paid(leg) == leg < 0
leg_received(leg) == leg > 0

POOL_TRADE_FEE_BPS == 80

buy_fee_from_quote_in(raw) == (raw * POOL_TRADE_FEE_BPS) \div BpsDenominator

sell_gross_from_quote_out(raw) ==
    (raw * BpsDenominator) \div (BpsDenominator - POOL_TRADE_FEE_BPS)

sell_fee_from_quote_out(raw) ==
    (sell_gross_from_quote_out(raw) * POOL_TRADE_FEE_BPS) \div BpsDenominator

-----------------------------------------------------------------------------
(* Where a call goes, and what it finds there.                             *)

CrateStart(c) ==
    /\ pc[c] = "idle"
    /\ Due(c)
    /\ CASE Request(c).via = "trade" ->
                Go(c, IF Request(c).kind \in Swaps THEN "choose" ELSE "venue")
         [] Request(c).via = "pool" /\ Request(c).kind \in Swaps \cup Quotes ->
                Go(c, IF Request(c).amount = 0 THEN "failed" ELSE "reach")
         [] Request(c).kind = "approveTokens" -> Go(c, "send")
         [] Request(c).kind \in {"distribute", "accrued"} -> Go(c, "poolId")
    /\ UNCHANGED <<plan, market, world, handle, mempool, receipts, gas, poolOf, venueOf,
                   result, priced, failures>>

\* Trade::venue keeps nothing.
venue == IF market.phase = "migrated" THEN "pool" ELSE "curve"

\* The caller's request says where it is for: only a curve's has a referrer, only
\* a pool's has a recipient, and without either it is for where the token is now.
Choose(c) ==
    /\ pc[c] = "choose"
    /\ venueOf' = [venueOf EXCEPT ![c] = CASE Request(c).curveOnly -> "curve"
                                           [] Request(c).to # Request(c).from -> "pool"
                                           [] OTHER -> venue]
    /\ Go(c, "venue")
    /\ UNCHANGED <<plan, market, world, handle, mempool, receipts, gas, poolOf, result,
                   priced, failures>>

\* A mistake to check against: a trade goes where the token is, and what only the
\* other venue has is left behind.
MismatchIgnored(c) == FALSE
VenueMismatch(c) == Request(c).kind \in Swaps /\ venueOf[c] # venue

CrateVenue(c) ==
    /\ pc[c] = "venue"
    /\ Go(c, CASE VenueMismatch(c) -> "failed"
               [] ~VenueMismatch(c) /\ venue = "pool" ->
                      IF Request(c).amount = 0 THEN "failed" ELSE "reach"
               [] ~VenueMismatch(c) /\ venue = "curve" ->
                      IF Request(c).kind \in Swaps THEN "send" ELSE "curveQuote")
    /\ venueOf' = [venueOf EXCEPT ![c] = venue]
    /\ UNCHANGED <<plan, market, world, handle, mempool, receipts, gas, poolOf, result,
                   priced, failures>>

\* A token's market is kept once there is one; before that it is an error.
RememberMarket(c) ==
    IF market.phase = "migrated"
    THEN /\ handle' = [handle EXCEPT ![Request(c).from].poolId = ThisPool]
         /\ poolOf' = [poolOf EXCEPT ![c] = ThisPool]
    ELSE UNCHANGED <<handle, poolOf>>

\* reachable_or_refuse, and the quote the request names.
CrateReach(c) ==
    /\ pc[c] = "reach"
    /\ RememberMarket(c)
    /\ venueOf' = [venueOf EXCEPT ![c] = "pool"]
    /\ Go(c, CASE Untradable(c) -> "failed"
               [] ~Untradable(c) /\ Request(c).kind \in Quotes -> "quote"
               [] ~Untradable(c) /\ Request(c).kind = "sell" -> "tokenAllowance"
               [] OTHER -> IF Native THEN "send" ELSE "allowance")
    /\ UNCHANGED <<plan, market, world, mempool, receipts, gas, result, priced, failures>>

CratePoolId(c) ==
    /\ pc[c] = "poolId"
    /\ RememberMarket(c)
    /\ Go(c, CASE market.phase # "migrated" -> "failed"
               [] market.phase = "migrated" /\ Request(c).kind = "distribute" -> "send"
               [] OTHER -> "accrued")
    /\ UNCHANGED <<plan, market, world, mempool, receipts, gas, venueOf, result, priced,
                   failures>>

-----------------------------------------------------------------------------
(* Quotes.                                                                 *)

BuyQuote(legs) ==
    IF leg_paid(legs.quote) /\ leg_received(legs.token)
    THEN [ quote |-> -legs.quote, tokens |-> legs.token,
           fee |-> buy_fee_from_quote_in(-legs.quote), distributed |-> 0 ]
    ELSE Err

SellQuote(legs) ==
    IF leg_received(legs.quote) /\ leg_paid(legs.token)
    THEN [ quote |-> legs.quote, tokens |-> -legs.token,
           fee |-> sell_fee_from_quote_out(legs.quote), distributed |-> 0 ]
    ELSE Err

CrateQuote(c) ==
    LET tx == [Transaction(c, Unlimited) EXCEPT !.min = 0, !.deadline = 1]
        outcome == At(QuoteState(c), tx)
        legs == quote_and_token_legs(RouterDelta(plan.quoteIs0, tx, Fill(world, tx)))
        told == IF Request(c).kind = "quoteBuy" THEN BuyQuote(legs) ELSE SellQuote(legs)
    IN  /\ pc[c] = "quote"
        /\ priced' = [priced EXCEPT ![c] = [ok |-> outcome.ok, full |-> world.depth >= tx.amount,
                                            did |-> outcome.did]]
        /\ IF outcome.ok /\ told # Err THEN Tell(c, told)
           ELSE Go(c, "failed") /\ UNCHANGED result
        /\ UNCHANGED <<plan, market, world, handle, mempool, receipts, gas, poolOf, venueOf,
                       failures>>

-----------------------------------------------------------------------------
(* Trades.                                                                 *)

CrateReadTokenAllowance(c) ==
    /\ pc[c] = "tokenAllowance"
    /\ Go(c, CASE market.tokenAllowance[Request(c).from] < Request(c).amount -> "failed"
               [] Native -> "send"
               [] OTHER -> "estimate")
    /\ UNCHANGED <<plan, market, world, handle, mempool, receipts, gas, poolOf, venueOf,
                   result, priced, failures>>

CrateEstimate(c) ==
    /\ pc[c] = "estimate"
    /\ IF Succeeds(market, Transaction(c, Unlimited))
       THEN /\ gas' = [gas EXCEPT ![c] =
                           erc20_trade_gas(with_pool_quote_transfer_headroom(Estimated),
                                           Request(c).gas_limit)]
            /\ Go(c, "send")
       ELSE Go(c, "failed") /\ UNCHANGED gas
    /\ UNCHANGED <<plan, market, world, handle, mempool, receipts, poolOf, venueOf, result,
                   priced, failures>>

\* The caller's own limit where the crate sets none; a sell to the curve has none.
LimitOf(c) ==
    CASE gas[c] # 0 -> gas[c]
      [] gas[c] = 0 /\ ~(venueOf[c] = "curve" /\ Request(c).kind = "sell") -> Request(c).gas_limit
      [] OTHER -> 0

\* Without a limit the filler estimates, which a transaction that would revert fails.
CrateSend(c) ==
    LET limit == CASE LimitOf(c) # 0 -> LimitOf(c)
                   [] LimitOf(c) = 0 /\ Request(c).kind \in Swaps -> Estimated
                   [] OTHER -> Unlimited
    IN  /\ pc[c] = "send"
        /\ IF LimitOf(c) = 0 => Succeeds(market, Transaction(c, Unlimited))
           THEN /\ mempool' = [mempool EXCEPT ![Request(c).from] =
                                   Append(@, Transaction(c, limit))]
                /\ Go(c, "await")
           ELSE Go(c, "failed") /\ UNCHANGED mempool
        /\ UNCHANGED <<plan, market, world, handle, receipts, gas, poolOf, venueOf, result,
                       priced, failures>>

tokens_moved(c, logs) ==
    {l \in logs : /\ l.kind = "Transfer"
                  /\ IF Request(c).kind = "buy" THEN l.to = Request(c).to
                     ELSE l.from = Request(c).from}

\* The pool's own swaps and fees, and the trader's leg of them; no swap, or one
\* that went the other way, is no fill.
quote_fill_from_logs(c, logs) ==
    LET swaps == LogsFor(logs, "Swap", poolOf[c])
        pool_leg == MapThenSumSet(SwapQuote, swaps)
        fee == AmountsIn(LogsFor(logs, "HookFeeTaken", poolOf[c]))
        trader == pool_leg - fee
        wrong_way == IF Request(c).kind = "buy" THEN trader > 0 ELSE trader < 0
    IN  IF swaps = {} \/ wrong_way THEN Err ELSE [quote |-> Moved(trader), fee |-> fee]

fees_distributed_from_logs(c, logs) == AmountsIn(LogsFor(logs, "FeesDistributed", poolOf[c]))

PoolTradeResult(c, logs) ==
    LET fill == quote_fill_from_logs(c, logs)
    IN  IF tokens_moved(c, logs) = {} \/ fill = Err THEN Err
        ELSE [ quote |-> fill.quote, fee |-> fill.fee,
               tokens |-> AmountsIn(tokens_moved(c, logs)),
               distributed |-> fees_distributed_from_logs(c, logs) ]

\* What a receipt that does not say "reverted" is told as.
ToldOf(c, logs) ==
    CASE venueOf[c] = "curve" ->
            [Nothing EXCEPT !.quote = Request(c).amount, !.tokens = Request(c).amount]
      [] venueOf[c] = "pool" -> PoolTradeResult(c, logs)
      [] OTHER -> [Nothing EXCEPT !.distributed = fees_distributed_from_logs(c, logs)]

CrateAwait(c) ==
    LET main == receipts[c].main
    IN  /\ pc[c] = "await"
        /\ main.mined
        /\ IF main.ok /\ ToldOf(c, main.logs) # Err THEN Tell(c, ToldOf(c, main.logs))
           ELSE Go(c, "failed") /\ UNCHANGED result
        /\ UNCHANGED <<plan, market, world, handle, mempool, receipts, gas, poolOf, venueOf,
                       priced, failures>>

\* The approve of a buy, the curve's quotes and the hook's accrued fee are asked for
\* as the TypeScript client asks for them.
CrateStep(c) ==
    \/ CrateStart(c) \/ Choose(c) \/ CrateVenue(c) \/ CurveQuote(c)
    \/ CrateReach(c) \/ CratePoolId(c) \/ CrateQuote(c) \/ Accrued(c)
    \/ ReadAllowance(c) \/ Preflight(c) \/ SendApprove(c) \/ AwaitApprove(c)
    \/ CrateReadTokenAllowance(c) \/ CrateEstimate(c) \/ CrateSend(c) \/ CrateAwait(c)
=============================================================================
