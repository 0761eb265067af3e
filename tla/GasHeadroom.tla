----------------------------- MODULE GasHeadroom -----------------------------
(***************************************************************************)
(* The gas an ERC-20-quoted trade or launch is sent with (quote-token.ts): *)
(* the node's estimate is the least gas the transaction succeeds with at   *)
(* that moment, and the fee pushes may need more by the time it is mined.  *)
(***************************************************************************)
EXTENDS BasisPoints

QuoteTransferGasHeadroomBps == 2000
QuoteTransferGasHeadroomMin == 150000
PoolQuoteTransferGasHeadroomMin == 400000

\* A fifth: 10000 is a multiple of 2000, so dividing at once rounds as the source does.
ShareOfEstimate(estimate) == estimate \div (BpsDenominator \div QuoteTransferGasHeadroomBps)

WithShareOfEstimate(estimate) == estimate + ShareOfEstimate(estimate)

WithQuoteTransferHeadroom(estimate) ==
    estimate + (IF ShareOfEstimate(estimate) > QuoteTransferGasHeadroomMin
                THEN ShareOfEstimate(estimate) ELSE QuoteTransferGasHeadroomMin)

\* A pool swap may also have to pay out the fees of the trades before it.
WithPoolQuoteTransferHeadroom(estimate) ==
    estimate + (IF ShareOfEstimate(estimate) > PoolQuoteTransferGasHeadroomMin
                THEN ShareOfEstimate(estimate) ELSE PoolQuoteTransferGasHeadroomMin)

Erc20GasLimitOfEstimate(estimate, callerLimit) == WithQuoteTransferHeadroom(estimate)

Erc20GasLimitOfCaller(estimate, callerLimit) ==
    IF callerLimit # 0 THEN callerLimit ELSE WithQuoteTransferHeadroom(estimate)

\* A caller's limit of 0 is a limit the caller left out.
Erc20GasLimit(estimate, callerLimit) ==
    LET safe == WithQuoteTransferHeadroom(estimate)
    IN  IF callerLimit > safe THEN callerLimit ELSE safe
=============================================================================
