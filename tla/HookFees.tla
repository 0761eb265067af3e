------------------------------ MODULE HookFees ------------------------------
(* The pool hook's fee in raw units of the quote (pool.ts, fees.ts), and the *)
(* fee and the payout derived from what a trader or a log shows.             *)
EXTENDS BasisPoints

PoolTradeFeeBps == 80

BuyFeeRaw(quoteInRaw) == (quoteInRaw * PoolTradeFeeBps) \div BpsDenominator

SellFeeRaw(quoteOutRaw) ==
    LET gross == (quoteOutRaw * BpsDenominator) \div (BpsDenominator - PoolTradeFeeBps)
    IN  (gross * PoolTradeFeeBps) \div BpsDenominator

SellOutBeforeFee(feeRaw) == (feeRaw * BpsDenominator) \div PoolTradeFeeBps

SellOutRaw(feeRaw) == ((feeRaw * BpsDenominator) \div PoolTradeFeeBps) - feeRaw
=============================================================================
