---------------------------- MODULE CrateAmounts ----------------------------
(***************************************************************************)
(* The amounts of the Rust crate (amount.rs): the conversions of Amounts   *)
(* done again in 256 bits, where a result that does not fit is refused, or *)
(* wraps where the code uses the plain operators of its integers.  What    *)
(* one client shows and sends must be what the other one reads.            *)
(***************************************************************************)
EXTENDS AmountUse, U256

\* The program's amounts, its shares of them and the few units it reads leave room
\* in 256 bits; the texts need not.
ASSUME UnitsAssumption ==
    /\ MaxWad + Ten[WadDecimals] <= U256Max
    /\ MaxWad * BpsDenominator <= U256Max
    /\ \A bps \in Shares : MaxWad * bps <= U256Max
    /\ 7 * Ten[WadDecimals] <= U256Max

\* checked_add, checked_mul: what does not fit is refused.
checked(n) == IF Fits(n) THEN n ELSE Refused

\* The integers' own operators keep the low 256 bits.
wrapped(n) == n % (U256Max + 1)

\* Wads of tokens, or of any quote.
checked_add(a, b) == checked(a + b)
checked_sub(a, b) == checked(a - b)
saturating_sub(a, b) == IF a > b THEN a - b ELSE 0
whole_wads(whole) == wrapped(whole * Ten[WadDecimals])

less_tolerance(amount, tolerance) ==
    wrapped(amount * saturating_sub(BpsDenominator, tolerance)) \div BpsDenominator

-----------------------------------------------------------------------------
(* Texts.                                                                  *)

\* Digits and one point, not more of a fraction than the scale holds, padded to it.
parse_fixed(text, decimals) ==
    IF text.decimal /\ ~text.negative /\ text.length <= decimals
    THEN checked(text.whole * Ten[decimals] + text.digits * Ten[decimals - text.length])
    ELSE Refused

\* The digits of the fraction, without their trailing zeros.
format_fixed(raw, decimals) ==
    LET fraction == raw % Ten[decimals]
        zeros == Max({n \in 0 .. decimals : fraction % Ten[n] = 0})
    IN  IF fraction = 0 THEN Text(raw \div Ten[decimals], 0, 0)
        ELSE Text(raw \div Ten[decimals], decimals - zeros, fraction \div Ten[zeros])

-----------------------------------------------------------------------------
(* Amounts of a quote.                                                     *)

validate(info) ==
    /\ info.decimals <= WadDecimals
    /\ info.isNative = (info.address = NativeQuote)
    /\ info.isNative => info.decimals = WadDecimals

scale(info) == Ten[WadDecimals - info.decimals]

same_quote(info, other) == info.address = other.address

\* An amount from its wads, unless they were refused.
from_wad_in(info, wad) == IF wad = Refused THEN Refused ELSE QuoteAmount(info, wad)

from_whole(info, whole) == from_wad_in(info, whole_wads(whole))
from_raw_in(info, raw) == from_wad_in(info, checked(raw * scale(info)))

parse_in(info, text) ==
    LET raw == parse_fixed(text, Min({info.decimals, WadDecimals}))
    IN  IF raw = Refused THEN Refused ELSE from_raw_in(info, raw)

is_representable(a) == a.wad % scale(a.token) = 0

to_raw(a) == IF is_representable(a) THEN a.wad \div scale(a.token) ELSE Refused

floor_to_representable(a) ==
    QuoteAmount(a.token, (a.wad \div scale(a.token)) * scale(a.token))

\* A mistake to check against: an amount that is representable is raised as well.
ceil_above(a) == from_wad_in(a.token, (a.wad \div scale(a.token) + 1) * scale(a.token))

\* At the top of the range, where there is nothing above, the floor.
ceil_to_representable(a) ==
    LET up == IF is_representable(a) THEN a.wad
              ELSE checked((a.wad \div scale(a.token) + 1) * scale(a.token))
    IN  IF up = Refused THEN floor_to_representable(a) ELSE QuoteAmount(a.token, up)

to_erc20(a) ==
    IF a.token.isNative THEN a.wad \div Ten[WadDecimals - Erc20Decimals] ELSE Refused
to_native(info, units) ==
    from_wad_in(info, wrapped(units * Ten[WadDecimals - Erc20Decimals]))

\* Amounts of two quotes do not mix, and none is negative.
add(a, b) ==
    IF same_quote(a.token, b.token) THEN from_wad_in(a.token, checked_add(a.wad, b.wad))
    ELSE Refused
sub(a, b) ==
    IF same_quote(a.token, b.token) THEN from_wad_in(a.token, checked_sub(a.wad, b.wad))
    ELSE Refused
sub_saturating(a, b) ==
    IF same_quote(a.token, b.token) THEN QuoteAmount(a.token, saturating_sub(a.wad, b.wad))
    ELSE Refused

apply_to_quote(bps, a) == QuoteAmount(a.token, wrapped(a.wad * bps) \div BpsDenominator)

-----------------------------------------------------------------------------
\* Either client takes a figure for the other's: what one shows is what the other
\* shows, what one reads of a text the other reads, and every conversion of an amount
\* comes to the same, dust, roundings and refusals included (amount.rs, amounts.ts).
\* They part where the amount leaves 256 bits, which the crate refuses and the chain
\* would; and over a tolerance above the whole, of which the crate makes no floor at
\* all and slippage.ts an error.
ClientsAgree ==
    LET agree(mine, theirs) ==
            mine = theirs \/ (theirs # Refused /\ theirs.wad > U256Max /\ mine = Refused)
    IN  /\ format_fixed(held.wad, WadDecimals) = ToString(held)
        /\ parse_in(held.token, ToString(held)) = Parse(held.token, ToString(held))
        /\ \A token \in QuoteTokens :
              /\ \A text \in Texts : agree(parse_in(token, text), Parse(token, text))
              /\ LET b == FromRaw(token, 7)
                 IN  /\ from_raw_in(token, 7) = b /\ validate(token) = ValidQuoteToken(token)
                     /\ agree(add(held, b), Add(held, b))
                     /\ sub(held, b) = Sub(held, b)
                     /\ sub_saturating(held, b) = SubSaturating(held, b)
                     /\ from_whole(token, 7) = FromWhole(token, 7)
        /\ to_raw(held) = ToRaw(held)
        /\ floor_to_representable(held) = FloorToRepresentable(held)
        /\ ceil_to_representable(held) = CeilToRepresentable(held)
        /\ to_erc20(held) = ToErc20(held)
        /\ held.token.isNative => to_native(held.token, 7) = ToNative(held.token, 7)
        /\ \A bps \in Shares :
              /\ apply_to_quote(bps, held) = ApplyBps(bps, held)
              /\ LET floor == QuoteAmount(held.token, less_tolerance(held.wad, bps))
                 IN  IF bps <= BpsDenominator THEN floor = MinOutFromQuote(held, bps)
                     ELSE /\ floor.wad = 0
                          /\ held.wad * (bps - BpsDenominator) >= BpsDenominator
                               => MinOutFromQuote(held, bps) = Refused
=============================================================================
