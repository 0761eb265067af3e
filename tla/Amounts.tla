------------------------------ MODULE Amounts ------------------------------
(***************************************************************************)
(* The conversions of amounts.ts and slippage.ts and of the fee helpers of  *)
(* pool.ts: what they round, which way, and what they refuse.               *)
(*                                                                          *)
(* An amount of a quote is kept as a number of wads, 10^-WadDecimals of a   *)
(* whole; the token itself moves raw units, 10^-decimals of one.  A text is *)
(* whether it is a decimal number at all, its sign, its whole part and its  *)
(* fraction digits, given as how many they are and what number they spell.  *)
(***************************************************************************)
EXTENDS HookFees, FiniteSetsExt

CONSTANTS
    WadDecimals,    \* 18 in the code
    Ten,            \* Ten[n] is 10^n
    Erc20Decimals,  \* the decimals of native USDC's ERC-20 view, 6 in the code
    NativeQuote,    \* the zero address
    Refused         \* what a conversion that throws returns

ASSUME AmountsAssumption ==
    /\ WadDecimals \in Nat
    /\ Erc20Decimals \in 0 .. WadDecimals
    /\ Ten \in [0 .. WadDecimals -> Nat \ {0}]
    /\ Ten[0] = 1
    /\ Refused \notin Nat
    /\ \A n \in 0 .. WadDecimals : \A m \in 0 .. n : Ten[n] = Ten[n - m] * Ten[m]

-----------------------------------------------------------------------------
(* Quote tokens and their scale.                                           *)

\* quoteTokenInfo refuses what cannot be scaled down from wads, and any
\* native quote but the zero address at WadDecimals.
ValidQuoteToken(token) ==
    /\ token.decimals \in 0 .. WadDecimals
    /\ token.isNative <=> token.address = NativeQuote
    /\ token.isNative => token.decimals = WadDecimals

QuoteScaleOf(token) == Ten[WadDecimals - token.decimals]

SameQuote(a, b) == a.token.address = b.token.address

QuoteAmount(token, wad) == [token |-> token, wad |-> wad]

\* requireNonNegative
NonNegative(token, wad) == IF wad < 0 THEN Refused ELSE QuoteAmount(token, wad)

FromRaw(token, raw) == QuoteAmount(token, raw * QuoteScaleOf(token))
FromWhole(token, whole) == QuoteAmount(token, whole * Ten[WadDecimals])

-----------------------------------------------------------------------------
(* Raw units.                                                              *)

IsRepresentable(a) == a.wad % QuoteScaleOf(a.token) = 0

ToRaw(a) == IF IsRepresentable(a) THEN a.wad \div QuoteScaleOf(a.token) ELSE Refused

FloorToRepresentable(a) ==
    QuoteAmount(a.token, a.wad - (a.wad % QuoteScaleOf(a.token)))

CeilToRepresentable(a) ==
    IF IsRepresentable(a) THEN a
    ELSE QuoteAmount(a.token,
                     a.wad + QuoteScaleOf(a.token) - (a.wad % QuoteScaleOf(a.token)))

\* Native USDC down to its ERC-20 view, truncating, and back up.
ToErc20(a) ==
    IF a.token.isNative THEN a.wad \div Ten[WadDecimals - Erc20Decimals] ELSE Refused
ToNative(token, raw) == QuoteAmount(token, raw * Ten[WadDecimals - Erc20Decimals])

-----------------------------------------------------------------------------
(* Arithmetic: amounts of two quotes do not mix, and none is negative.      *)

Add(a, b) == IF SameQuote(a, b) THEN QuoteAmount(a.token, a.wad + b.wad) ELSE Refused
Sub(a, b) == IF SameQuote(a, b) THEN NonNegative(a.token, a.wad - b.wad) ELSE Refused
SubSaturating(a, b) ==
    IF SameQuote(a, b)
    THEN QuoteAmount(a.token, IF a.wad > b.wad THEN a.wad - b.wad ELSE 0)
    ELSE Refused

ApplyBps(bps, a) == QuoteAmount(a.token, (a.wad * bps) \div BpsDenominator)

\* BigInt division, which truncates toward zero.
Quotient(n, d) == IF n >= 0 THEN n \div d ELSE -((-n) \div d)

\* minQuoteOutFromQuote and minTokensOutFromQuote: a floor below a quote.
MinOutFromQuote(quoted, toleranceBps) ==
    NonNegative(quoted.token,
                Quotient(quoted.wad * (BpsDenominator - toleranceBps), BpsDenominator))

-----------------------------------------------------------------------------
(* Decimal texts.                                                          *)

Text(whole, length, digits) ==
    [decimal |-> TRUE, negative |-> FALSE,
     whole |-> whole, length |-> length, digits |-> digits]

\* parseFixed: a number, no sign, no more fraction digits than the scale holds, and the
\* fraction padded on the right.
ParseFixed(text, decimals) ==
    IF ~text.decimal \/ text.negative \/ text.length > decimals THEN Refused
    ELSE text.whole * Ten[decimals] + text.digits * Ten[decimals - text.length]

Parse(token, text) ==
    LET raw == ParseFixed(text, token.decimals) IN
    IF raw = Refused THEN Refused ELSE FromRaw(token, raw)

\* formatFixed: the fraction padded on the left to its scale, then stripped of
\* its trailing zeros.
FormatFixed(raw, decimals) ==
    LET fraction == raw % Ten[decimals]
        length == Min({n \in 0 .. decimals : fraction % Ten[decimals - n] = 0})
    IN  Text(raw \div Ten[decimals], length, fraction \div Ten[decimals - length])

\* A mistake to check against: the dust is left out of what is shown.
ToStringWithoutDust(a) ==
    FormatFixed(a.wad \div QuoteScaleOf(a.token), a.token.decimals)

\* toString: dust below a raw unit is shown, at WadDecimals.
ToString(a) ==
    IF IsRepresentable(a)
    THEN FormatFixed(a.wad \div QuoteScaleOf(a.token), a.token.decimals)
    ELSE FormatFixed(a.wad, WadDecimals)

-----------------------------------------------------------------------------
(* The hook's fee on a pool trade, from what the trader sees.               *)

BuyFeeFromQuoteIn(a) == FromRaw(a.token, BuyFeeRaw(ToRaw(FloorToRepresentable(a))))
SellFeeFromQuoteOut(a) == FromRaw(a.token, SellFeeRaw(ToRaw(FloorToRepresentable(a))))
SellQuoteOutFromFee(a) == FromRaw(a.token, SellOutRaw(ToRaw(FloorToRepresentable(a))))
=============================================================================
