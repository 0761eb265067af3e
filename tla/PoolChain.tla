----------------------------- MODULE PoolChain -----------------------------
(***************************************************************************)
(* What the SDK meets after graduation: a token's Uniswap v4 pool behind a *)
(* router, with the fee hook that charges every swap in the quote, and     *)
(* before it the curve.  The contracts are not in the repository; they are *)
(* modelled from how pool.ts and trade.ts use them and from what their     *)
(* comments say of the logs.  Quote amounts are raw units.                 *)
(*                                                                         *)
(* The market is a record: where the token trades, the fee the hook has    *)
(* charged and not paid out, what each account holds, and what it lets the *)
(* router pull.                                                            *)
(***************************************************************************)
EXTENDS HookFees, FiniteSetsExt

CONSTANTS
    Accounts,
    PoolManager,    \* whoever holds the pool's tokens
    ThisPool, OtherPool, ZeroPool,  \* pool ids; ZeroPool before migration
    Funds,          \* the quote and the tokens each account starts with
    SwapGas,        \* the gas a swap needs
    PushGas,        \* what paying out an accrued ERC-20 fee adds to it
    HalfBits        \* the width of one half of a packed balance delta

ASSUME PoolChainAssumption ==
    /\ PoolManager \notin Accounts
    /\ ThisPool # OtherPool /\ ZeroPool \notin {ThisPool, OtherPool}
    /\ {Funds, SwapGas, PushGas} \subseteq Nat
    /\ HalfBits \in Nat \ {0}

Markets ==
    [ phase : {"trading", "graduated", "migrated"}, accrued : Nat,
      quote : [Accounts -> Nat], tokens : [Accounts -> Nat],
      quoteAllowance : [Accounts -> Nat], tokenAllowance : [Accounts -> Nat] ]

\* The price, how much of the quote the pool can take or give, the time, and
\* whether a fee recipient trades in another pool when it is paid.
Surroundings == [rate : Nat \ {0}, depth : Nat, time : 0 .. 1, recipientTrades : BOOLEAN]

Nothing == [quote |-> 0, tokens |-> 0, fee |-> 0, distributed |-> 0]
Reverted(m) == [ok |-> FALSE, market |-> m, logs |-> {}, did |-> Nothing]

LesserOf(a, b) == IF a < b THEN a ELSE b

\* The hook takes its fee before the pool sees a buy, and after it has priced a
\* sell; the pool may fill either in part.  The leg is the swapper's, signed.
BuyFill(w, amount) ==
    LET in == LesserOf(amount - BuyFeeRaw(amount), w.depth)
    IN  [leg |-> -in, fee |-> BuyFeeRaw(amount), tokens |-> in * w.rate]

SellFill(w, amount) ==
    LET gross == LesserOf(amount \div w.rate, w.depth)
    IN  [leg |-> gross, fee |-> BuyFeeRaw(gross), tokens |-> gross * w.rate]

Fill(w, tx) == IF tx.kind = "buy" THEN BuyFill(w, tx.amount) ELSE SellFill(w, tx.amount)

\* What the trader pays or is paid.
TraderLeg(fill) == fill.leg - fill.fee
Moved(n) == IF n < 0 THEN -n ELSE n

\* The two legs in the order of the pool's currencies.
Oriented(quoteIs0, quoteLeg, tokenLeg) ==
    IF quoteIs0 THEN [amount0 |-> quoteLeg, amount1 |-> tokenLeg]
    ELSE [amount0 |-> tokenLeg, amount1 |-> quoteLeg]

\* A BalanceDelta as it is returned: two's complement halves in one signed word.
AsUint(bits, n) == n % 2^bits
AsInt(bits, n) == IF AsUint(bits, n) >= 2^(bits - 1) THEN AsUint(bits, n) - 2^bits ELSE AsUint(bits, n)
Packed(d) ==
    AsInt(2 * HalfBits, AsUint(HalfBits, d.amount0) * 2^HalfBits + AsUint(HalfBits, d.amount1))

TokenLeg(tx, fill) == IF tx.kind = "buy" THEN fill.tokens ELSE -fill.tokens

RouterDelta(quoteIs0, tx, fill) ==
    Packed(Oriented(quoteIs0, TraderLeg(fill), TokenLeg(tx, fill)))

GasNeeded(native, m) == SwapGas + (IF ~native /\ m.accrued > 0 THEN PushGas ELSE 0)

-----------------------------------------------------------------------------
(* The logs of a receipt.                                                  *)

SwapLog(pool, amounts) == [kind |-> "Swap", pool |-> pool, amounts |-> amounts]
FeeLog(kind, pool, amount) == [kind |-> kind, pool |-> pool, amount |-> amount]
TransferLog(from, to, amount) == [kind |-> "Transfer", from |-> from, to |-> to, amount |-> amount]

\* Earlier fees paid out, and the swap a recipient makes with them elsewhere.
DistributionLogs(m, w, quoteIs0) ==
    IF m.accrued = 0 THEN {}
    ELSE {FeeLog("FeesDistributed", ThisPool, m.accrued)} \cup
         (IF w.recipientTrades
          THEN {SwapLog(OtherPool, Oriented(quoteIs0, -m.accrued, m.accrued)),
                FeeLog("HookFeeTaken", OtherPool, 1),
                FeeLog("FeesDistributed", OtherPool, 1)}
          ELSE {})

SwapLogs(m, w, quoteIs0, tx, fill) ==
    {SwapLog(ThisPool, Oriented(quoteIs0, fill.leg, TokenLeg(tx, fill))),
     IF tx.kind = "buy" THEN TransferLog(PoolManager, tx.to, fill.tokens)
     ELSE TransferLog(tx.from, PoolManager, fill.tokens)}
    \cup (IF fill.fee > 0 THEN {FeeLog("HookFeeTaken", ThisPool, fill.fee)} ELSE {})
    \cup DistributionLogs(m, w, quoteIs0)

-----------------------------------------------------------------------------
(* Transactions.                                                           *)

BuyRefused(m, native, tx, fill) ==
    \/ fill.tokens < tx.min
    \/ m.quote[tx.from] < tx.amount
    \/ ~native /\ m.quoteAllowance[tx.from] < tx.amount

SellRefused(m, tx, fill) ==
    \/ TraderLeg(fill) < tx.min
    \/ m.tokens[tx.from] < tx.amount
    \/ m.tokenAllowance[tx.from] < tx.amount

SwapRefused(m, w, native, tx) ==
    \/ m.phase # "migrated"
    \/ w.time > tx.deadline
    \/ tx.gas < GasNeeded(native, m)
    \/ tx.kind = "buy" /\ BuyRefused(m, native, tx, Fill(w, tx))
    \/ tx.kind = "sell" /\ SellRefused(m, tx, Fill(w, tx))

Bought(m, native, tx, fill) ==
    [m EXCEPT !.quote[tx.from] = @ + TraderLeg(fill),
              !.tokens[tx.to] = @ + fill.tokens,
              !.quoteAllowance[tx.from] = IF native THEN @ ELSE @ + TraderLeg(fill)]

Sold(m, tx, fill) ==
    [m EXCEPT !.quote[tx.to] = @ + TraderLeg(fill),
              !.tokens[tx.from] = @ - fill.tokens,
              !.tokenAllowance[tx.from] = @ - fill.tokens]

\* A swap pays out what earlier ones accrued, and accrues its own fee.
SwapOutcome(m, w, native, quoteIs0, tx) ==
    LET fill == Fill(w, tx)
        after == IF tx.kind = "buy" THEN Bought(m, native, tx, fill) ELSE Sold(m, tx, fill)
    IN  IF SwapRefused(m, w, native, tx) THEN Reverted(m)
        ELSE [ ok |-> TRUE, market |-> [after EXCEPT !.accrued = fill.fee],
               logs |-> SwapLogs(m, w, quoteIs0, tx, fill),
               did |-> [ quote |-> Moved(TraderLeg(fill)), tokens |-> fill.tokens,
                         fee |-> fill.fee, distributed |-> m.accrued ] ]

DistributeOutcome(m, w, quoteIs0) ==
    IF m.phase # "migrated" THEN Reverted(m)
    ELSE [ ok |-> TRUE, market |-> [m EXCEPT !.accrued = 0],
           logs |-> DistributionLogs(m, w, quoteIs0),
           did |-> [Nothing EXCEPT !.distributed = m.accrued] ]

ApproveOutcome(m, tx) ==
    [ ok |-> TRUE, logs |-> {}, did |-> Nothing,
      market |-> IF tx.kind = "approveQuote"
                 THEN [m EXCEPT !.quoteAllowance[tx.from] = tx.amount]
                 ELSE [m EXCEPT !.tokenAllowance[tx.from] = tx.amount] ]

\* A trade on the curve, of which only whether it still trades matters here:
\* CurveChain has the rest.
CurveOutcome(m, tx) ==
    LET paid == IF tx.kind = "curveBuy" THEN m.quote ELSE m.tokens
    IN  IF m.phase # "trading" \/ paid[tx.from] < tx.amount THEN Reverted(m)
        ELSE [ ok |-> TRUE, logs |-> {},
               market |-> IF tx.kind = "curveBuy"
                          THEN [m EXCEPT !.quote[tx.from] = @ - tx.amount,
                                         !.tokens[tx.from] = @ + tx.amount]
                          ELSE [m EXCEPT !.quote[tx.from] = @ + tx.amount,
                                         !.tokens[tx.from] = @ - tx.amount],
               did |-> [Nothing EXCEPT !.quote = tx.amount, !.tokens = tx.amount] ]

Outcome(m, w, native, quoteIs0, tx) ==
    CASE tx.kind \in {"buy", "sell"} -> SwapOutcome(m, w, native, quoteIs0, tx)
      [] tx.kind = "distribute" -> DistributeOutcome(m, w, quoteIs0)
      [] tx.kind \in {"approveQuote", "approveTokens"} -> ApproveOutcome(m, tx)
      [] tx.kind \in {"curveBuy", "curveSell"} -> CurveOutcome(m, tx)
=============================================================================
