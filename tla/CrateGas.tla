------------------------------ MODULE CrateGas ------------------------------
(* The gas the Rust crate sends ERC-20 trades with (quote.rs), computed by   *)
(* whole ten-thousandths and the rest where quote-token.ts multiplies first. *)
EXTENDS BasisPoints

QUOTE_TRANSFER_GAS_HEADROOM_BPS == 2000
QUOTE_TRANSFER_GAS_HEADROOM_MIN == 150000
POOL_QUOTE_TRANSFER_GAS_HEADROOM_MIN == 400000

with_headroom(estimate, min) ==
    LET share == (estimate \div BpsDenominator) * QUOTE_TRANSFER_GAS_HEADROOM_BPS
                   + ((estimate % BpsDenominator) * QUOTE_TRANSFER_GAS_HEADROOM_BPS)
                         \div BpsDenominator
    IN  estimate + (IF share > min THEN share ELSE min)

with_quote_transfer_headroom(estimate) ==
    with_headroom(estimate, QUOTE_TRANSFER_GAS_HEADROOM_MIN)

with_pool_quote_transfer_headroom(estimate) ==
    with_headroom(estimate, POOL_QUOTE_TRANSFER_GAS_HEADROOM_MIN)

\* erc20_trade_gas: the larger of what is safe and what the caller asked for, where
\* a limit of 0 is none.
erc20_trade_gas(safe, limit) == IF limit > safe THEN limit ELSE safe
=============================================================================
